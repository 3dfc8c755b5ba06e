------------------------------ MODULE Stores_proofs ------------------------------
(***************************************************************************)
(* What a device keeps between calls, for any hooks, calls, gateways,      *)
(* layers, releases and bounds: the loading of a policy, and then its      *)
(* cache, the session's rows, the counts, the sign-in and the pins, each   *)
(* with its inductive invariant; in the end the six together.              *)
(***************************************************************************)
EXTENDS Stores, FiniteSetTheorems, WellFoundedInduction, TLAPS

(* PolicyLayers: what the layers say.                                      *)

\* A layer has touched nothing of a hand-listed rule but its mode, its category
\* and what narrows it, and only the organization's has set the device to
\* observe: inductive.
LayersInv ==
  /\ LayersTypeOK
  /\ kind \in Listed =>
       rule.enabled /\ rule.action = shipped /\ rule.patterns = "shipped" /\ ~ rule.disables
  /\ settings.device = "observe" => meta
  /\ FloorHolds
  /\ DeviceIsTheConsoles

-----------------------------------------------------------------------------
(* What merging a layer returns.                                           *)

\* Merging an entry keeps the type of a rule, and what the floor protects.
LEMMA MergeRuleLemma ==
  ASSUME NEW r \in RuleType, NEW e \in EntryType
  PROVE  /\ MergeRule(r, e) \in RuleType
         /\ (kind \in Listed /\ r.enabled) => MergeRule(r, e).enabled
         /\ kind \in Listed => /\ MergeRule(r, e).action = r.action
                               /\ MergeRule(r, e).patterns = r.patterns
                               /\ (~ r.disables => ~ MergeRule(r, e).disables)
<1>1. CASE Floor(r) /\ e.enabled = "off"
  <2>1. MergeRule(r, e) = r  BY <1>1 DEF MergeRule, MergeFloor
  <2> QED  BY <2>1
<1>2. CASE Floor(r) /\ e.enabled # "off"
  <2>1. MergeRule(r, e) = [enabled |-> TRUE, action |-> r.action, mode |-> Wins(e.mode, r.mode),
                           category |-> Wins(e.category, r.category), patterns |-> r.patterns,
                           disables |-> FALSE, narrows |-> r.narrows \/ e.narrows]
    BY <1>2 DEF MergeRule, MergeFloor
  <2>2. Wins(e.mode, r.mode) \in Maybe(Modes) /\ Wins(e.category, r.category) \in {"core", "other"}
    BY DEF Wins, EntryType, RuleType, Maybe, Modes
  <2> QED  BY <2>1, <2>2 DEF RuleType, EntryType
<1>3. CASE ~ Floor(r)
  <2>1. MergeRule(r, e) = MergeEntry(r, e) /\ kind \notin Listed  BY <1>3 DEF MergeRule, Floor
  <2>2. /\ Wins(e.action, r.action) \in {"block", "warn"} /\ Wins(e.mode, r.mode) \in Maybe(Modes)
        /\ Wins(e.category, r.category) \in {"core", "other"}
        /\ Wins(e.patterns, r.patterns) \in {"shipped", "replaced"}
    BY DEF Wins, EntryType, RuleType, Maybe, Modes
  <2>3. /\ (IF e.enabled = "absent" THEN r.enabled ELSE e.enabled = "on") \in BOOLEAN
        /\ (r.disables \/ e.disables) \in BOOLEAN /\ (r.narrows \/ e.narrows) \in BOOLEAN
    <3>1. r.enabled \in BOOLEAN  BY DEF RuleType
    <3> QED  BY <3>1
  <2>4. MergeEntry(r, e) \in RuleType  BY <2>2, <2>3 DEF MergeEntry, RuleType
  <2> QED  BY <2>1, <2>4
<1> QED  BY <1>1, <1>2, <1>3

\* Merging settings keeps their type, and only the organization's layer sets a
\* device to observe.
LEMMA MergeSettingsLemma ==
  ASSUME NEW old \in SettingsType, NEW new \in SettingsType, NEW source
  PROVE  /\ MergeSettings(old, new, source) \in SettingsType
         /\ MergeSettings(old, new, source).device = "observe" => (old.device = "observe" \/ source = "remote")
BY DEF MergeSettings, MergeDevice, Wins, SettingsType, Maybe, Modes

\* One layer, whichever its source.
LEMMA LayerLemma ==
  ASSUME NEW l \in LayerType, NEW source, ApplyOverride(l, source),
         rule \in RuleType, settings \in SettingsType
  PROVE  /\ rule' \in RuleType /\ settings' \in SettingsType
         /\ (kind \in Listed /\ rule.enabled /\ rule.action = shipped /\ rule.patterns = "shipped" /\ ~ rule.disables)
              => (rule'.enabled /\ rule'.action = shipped /\ rule'.patterns = "shipped" /\ ~ rule'.disables)
         /\ settings'.device = "observe" => (settings.device = "observe" \/ source = "remote")
<1>1. l.rule \in EntryType /\ l.settings \in SettingsType  BY DEF LayerType
<1>2. CASE l.badRate
  BY <1>2 DEF ApplyOverride
<1>3. CASE ~ l.badRate
  <2>1. rule' = MergeRule(rule, l.rule) /\ settings' = MergeSettings(settings, l.settings, source)
    BY <1>3 DEF ApplyOverride
  <2> QED  BY <1>1, <2>1, MergeRuleLemma, MergeSettingsLemma
<1> QED  BY <1>2, <1>3

-----------------------------------------------------------------------------
\* A step of a layer: from its place to the next, with a layer applied or none.
LEMMA LayerStep ==
  ASSUME LayersInv, ConstantsAssumption, NEW source, NEW next,
         pc \notin {"compile", "done"},
         next \in {"project", "remote", "exemption", "compile"}, pc' = next,
         UNCHANGED <<kind, shipped, off, site, compiled>>, meta' \in BOOLEAN, meta => meta',
         source = "remote" => meta',
         \/ UNCHANGED <<rule, settings>>
         \/ \E l \in Layers : ApplyOverride(l, source)
  PROVE  LayersInv'
<1> USE DEF LayersInv
<1>1. rule \in RuleType /\ settings \in SettingsType  BY DEF LayersTypeOK
<1>2. /\ rule' \in RuleType /\ settings' \in SettingsType
      /\ kind \in Listed => (rule'.enabled /\ rule'.action = shipped /\ rule'.patterns = "shipped" /\ ~ rule'.disables)
      /\ settings'.device = "observe" => (settings.device = "observe" \/ source = "remote")
  <2>1. CASE UNCHANGED <<rule, settings>>  BY <1>1, <2>1
  <2>2. CASE \E l \in Layers : ApplyOverride(l, source)
    BY <1>1, <2>2, LayerLemma DEF ConstantsAssumption
  <2> QED  BY <2>1, <2>2
<1>3. LayersTypeOK'  BY <1>2 DEF LayersTypeOK
<1>4. settings'.device = "observe" => meta'  BY <1>2
<1>5. FloorHolds' /\ DeviceIsTheConsoles'  BY DEF FloorHolds, DeviceIsTheConsoles
<1> QED  BY <1>2, <1>3, <1>4, <1>5

\* What the rule compiles to.
LEMMA CompileStep ==
  ASSUME LayersInv, Compile
  PROVE  LayersInv'
<1> USE DEF LayersInv
<1>1. /\ compiled'.present = (rule.enabled /\ ~ FloorOff) /\ compiled'.whole = Whole(rule)
      /\ compiled'.action = rule.action /\ compiled'.mode = Mode(rule)
      /\ compiled' = [present |-> rule.enabled /\ ~ FloorOff, whole |-> Whole(rule),
                      action |-> rule.action, mode |-> Mode(rule)]
      /\ pc' = "done" /\ UNCHANGED <<kind, shipped, off, site, rule, settings, meta>>
  BY DEF Compile
<1>2. rule \in RuleType /\ settings \in SettingsType  BY DEF LayersTypeOK
<1>3. Mode(rule) \in Modes
  BY <1>2 DEF Mode, Modes, Wins, RuleType, SettingsType, Maybe
<1>4. rule.enabled \in BOOLEAN /\ FloorOff \in BOOLEAN /\ Whole(rule) \in BOOLEAN /\ rule.action \in {"block", "warn"}
  BY <1>2 DEF RuleType, FloorOff, Whole
<1>5. LayersTypeOK'
  BY <1>1, <1>3, <1>4 DEF LayersTypeOK
<1>6. FloorHolds'
  <2> SUFFICES ASSUME kind \in Listed PROVE FloorHolds'  BY <1>1 DEF FloorHolds
  <2>1. Floor(rule)  BY DEF Floor
  <2>2. Whole(rule)  BY <2>1 DEF Whole
  <2>3. FloorOff => (kind # "self" /\ ~ site.managed /\ off)  BY DEF FloorOff
  <2>4. kind = "self" => Mode(rule) = "enforce"  BY DEF Mode
  <2>5. shipped = "block" => (Mode(rule) = "enforce" \/ (kind # "self" /\ ~ site.managed /\ settings.selection = "explicit"))
    BY <2>1 DEF Mode, Explicit
  <2> QED  BY <1>1, <2>2, <2>3, <2>4, <2>5 DEF FloorHolds
<1>7. DeviceIsTheConsoles'
  <2> SUFFICES ASSUME ~ meta, rule.mode = "enforce" PROVE Mode(rule) = "enforce"
    BY <1>1 DEF DeviceIsTheConsoles
  <2>1. settings.device \in {"absent", "enforce"}  BY <1>2 DEF SettingsType, Maybe, Modes
  <2> QED  BY <2>1 DEF Mode
<1> QED  BY <1>1, <1>5, <1>6, <1>7

-----------------------------------------------------------------------------
\* The initial states.
LEMMA InitLemma == ConstantsAssumption /\ Init => LayersInv
<1> SUFFICES ASSUME ConstantsAssumption, Init PROVE LayersInv  OBVIOUS
<1>1. LayersTypeOK
  BY DEF Init, LayersTypeOK, RuleType, SettingsType, Maybe, Modes, ShippedCategory
<1>2. FloorHolds /\ DeviceIsTheConsoles  BY DEF Init, FloorHolds, DeviceIsTheConsoles
<1> QED  BY <1>1, <1>2 DEF Init, LayersInv

\* Every step.
LEMMA NextLemma == ConstantsAssumption /\ LayersInv /\ [Next]_vars => LayersInv'
<1> SUFFICES ASSUME ConstantsAssumption, LayersInv, [Next]_vars PROVE LayersInv'  OBVIOUS
<1>0. meta \in BOOLEAN  BY DEF LayersInv, LayersTypeOK
<1>1. CASE LoadUser
  <2>1. \E s \in {"system", "user"} : UNCHANGED <<rule, settings>> \/ \E l \in Layers : ApplyOverride(l, s)
    BY <1>1 DEF LoadUser, Skip
  <2>2. pc = "user" /\ pc' = "project" /\ UNCHANGED <<kind, shipped, off, site, meta, compiled>>
    BY <1>1 DEF LoadUser, Skip
  <2> QED  BY <1>0, <2>1, <2>2, LayerStep
<1>2. CASE LoadProject
  <2>1. UNCHANGED <<rule, settings>> \/ \E l \in Layers : ApplyOverride(l, "project")
    BY <1>2 DEF LoadProject, Skip
  <2>2. pc = "project" /\ pc' = "remote" /\ UNCHANGED <<kind, shipped, off, site, meta, compiled>>
    BY <1>2 DEF LoadProject, Skip
  <2> QED  BY <1>0, <2>1, <2>2, LayerStep, SMTT(30)
<1>3. CASE LoadRemote
  <2>1. CASE Skip("exemption")
    <3>1. pc = "remote" /\ pc' = "exemption" /\ UNCHANGED <<kind, shipped, off, site, rule, settings, meta, compiled>>
      BY <1>3, <2>1 DEF LoadRemote, Skip
    <3> QED  BY <1>0, <3>1, LayerStep
  <2>2. CASE ~ Skip("exemption")
    <3>1. /\ pc = "remote" /\ pc' = "exemption" /\ meta' = TRUE /\ UNCHANGED <<kind, shipped, off, site, compiled>>
          /\ \E l \in Layers : ApplyOverride(l, "remote")
      BY <1>3, <2>2 DEF LoadRemote
    <3> QED  BY <1>0, <3>1, LayerStep
  <2> QED  BY <2>1, <2>2
<1>4. CASE LoadExemption
  <2>1. UNCHANGED <<rule, settings>> \/ \E l \in Layers : ApplyOverride(l, "exemption")
    BY <1>4 DEF LoadExemption, Skip
  <2>2. pc = "exemption" /\ pc' = "compile" /\ UNCHANGED <<kind, shipped, off, site, meta, compiled>>
    BY <1>4 DEF LoadExemption, Skip
  <2> QED  BY <1>0, <2>1, <2>2, LayerStep
<1>5. CASE Compile  BY <1>5, CompileStep
<1>6. CASE UNCHANGED vars
  BY <1>6 DEF vars, LayersInv, LayersTypeOK, FloorHolds, DeviceIsTheConsoles, FloorOff
<1> QED  BY <1>1, <1>2, <1>3, <1>4, <1>5, <1>6 DEF Next

\* The invariant, for every set of layers and sites.
THEOREM LayersInvariant == Spec => []LayersInv
<1>1. Init => LayersInv  BY InitLemma, ConstantsAssumption
<1>2. LayersInv /\ [Next]_vars => LayersInv'  BY NextLemma, ConstantsAssumption
<1> QED  BY <1>1, <1>2, PTL DEF Spec

\* A policy under construction keeps its types.
THEOREM LayersTypeCorrect == Spec => []LayersTypeOK
<1>1. LayersInv => LayersTypeOK  BY DEF LayersInv
<1> QED  BY <1>1, LayersInvariant, PTL

\* No layer, local or signed, disables or weakens a rule of the floor
\* (_apply_override, explain_mode, floor_off).
THEOREM FloorIsKept == Spec => []FloorHolds
<1>1. LayersInv => FloorHolds  BY DEF LayersInv
<1> QED  BY <1>1, LayersInvariant, PTL

\* No local file sets the device to observe (_apply_override, device_mode).
THEOREM OnlyTheConsoleObserves == Spec => []DeviceIsTheConsoles
<1>1. LayersInv => DeviceIsTheConsoles  BY DEF LayersInv
<1> QED  BY <1>1, LayersInvariant, PTL

-----------------------------------------------------------------------------
(* Session: the rows are the first events of the log.                      *)

SessionPcs == {"start", "read", "lock", "analyse", "analyse_record", "save", "judge", "record", "persist", "done", "dead"}

\* Up to here the log goes.
N == Len(log)
Begun == {h \in SessionCalls : spc[h] # "start"}

\* What a hook has read, analysed and found is in the log.
HookInv(h) ==
  /\ view[h] \in 0 .. N /\ at[h] \in 0 .. N /\ found[h] \subseteq 1 .. N
  /\ spc[h] \in {"lock", "analyse", "analyse_record", "save", "judge", "record", "persist"} => view[h] >= 1
  /\ spc[h] \in {"analyse", "analyse_record"} => at[h] <= view[h]
  /\ spc[h] = "analyse_record" => at[h] < view[h]
  /\ spc[h] \in {"read", "start"} => view[h] = 0

\* A call is in the log once; so are the events of the ledger, the sidecar and
\* the findings, and the rows are its beginning.
SessionInv ==
  /\ policy \in TagPolicies /\ lock \in SessionCalls \cup {None}
  /\ log \in Seq(SessionCalls) /\ Cardinality(Begun) = N
  /\ spc \in [SessionCalls -> SessionPcs]
  /\ view \in [SessionCalls -> Nat] /\ at \in [SessionCalls -> Nat] /\ found \in [SessionCalls -> SUBSET Nat]
  /\ done \in [SessionCalls -> BOOLEAN]
  /\ outcome \in [SessionCalls -> {"none", "ran", "rewritten", "blocked"}]
  /\ \A h \in SessionCalls : HookInv(h)
  /\ ledger.hist \in [Tags -> SUBSET Nat] /\ (\A t \in Tags : ledger.hist[t] \subseteq 1 .. N) /\ ledger.fired \in 0 .. N
  /\ sidecar.events \in 0 .. N /\ sidecar.found \subseteq 1 .. N
  /\ \A f \in findings : f \in [event : 1 .. N, call : SessionCalls, runtime : BOOLEAN]
  /\ rows \in Seq(SessionCalls) /\ Len(rows) <= N /\ \A i \in 1 .. Len(rows) : rows[i] = log[i]

LEMMA SameCardinality == \A S : Se!Cardinality(S) = Cardinality(S) /\ (Se!IsFiniteSet(S) <=> IsFiniteSet(S))
BY DEF Se!Cardinality, Cardinality, Se!IsFiniteSet, IsFiniteSet

\* No more events than calls.
LEMMA LogFits == SessionInv => N \in Nat /\ N <= Se!Cardinality(SessionCalls) /\ Se!Cardinality(SessionCalls) \in Nat
<1> SUFFICES ASSUME SessionInv PROVE N \in Nat /\ N <= Cardinality(SessionCalls) /\ Cardinality(SessionCalls) \in Nat
  BY SameCardinality
<1>1. IsFiniteSet(SessionCalls)
  BY PartsAssumption, SameCardinality DEF Se!ConstantsOK
<1>2. Begun \subseteq SessionCalls
  BY DEF Begun
<1>3. Cardinality(Begun) <= Cardinality(SessionCalls)
  BY <1>1, <1>2, FS_Subset
<1> QED  BY <1>1, <1>3, FS_CardinalityType DEF SessionInv, N

LEMMA SessionTypes == SessionInv => Se!TypeOK
<1> SUFFICES ASSUME SessionInv PROVE Se!TypeOK
  OBVIOUS
<1> DEFINE m == Se!Cardinality(SessionCalls)
<1>1. N \in Nat /\ m \in Nat /\ N <= m
  BY LogFits
<1> HIDE DEF m
<1>2. 1 .. N \subseteq 1 .. m /\ 0 .. N \subseteq (1 .. m) \cup {0}
  BY <1>1
<1>3. log \in [1 .. N -> SessionCalls] /\ Len(rows) \in Nat /\ rows \in [1 .. Len(rows) -> SessionCalls]
  BY DEF SessionInv, N
<1>4. N \in 0 .. m /\ Len(rows) \in 0 .. m
  BY <1>1, <1>3 DEF SessionInv
<1>5. log \in Se!SeqOf(SessionCalls, m) /\ rows \in Se!SeqOf(SessionCalls, m)
  BY <1>3, <1>4 DEF Se!SeqOf
<1>6. /\ view \in [SessionCalls -> (1 .. m) \cup {0}] /\ at \in [SessionCalls -> (1 .. m) \cup {0}]
      /\ found \in [SessionCalls -> SUBSET (1 .. m)]
  BY <1>2 DEF SessionInv, HookInv
<1>7. ledger.hist \in [Tags -> SUBSET (1 .. m)] /\ ledger.fired \in (1 .. m) \cup {0}
  BY <1>2 DEF SessionInv
<1>8. sidecar.events \in (1 .. m) \cup {0} /\ sidecar.found \subseteq 1 .. m
  BY <1>2 DEF SessionInv
<1>9. findings \subseteq [event : 1 .. m, call : SessionCalls, runtime : BOOLEAN]
  BY <1>2 DEF SessionInv
<1>10. /\ policy \in TagPolicies /\ lock \in SessionCalls \cup {None} /\ done \in [SessionCalls -> BOOLEAN]
       /\ outcome \in [SessionCalls -> {"none", "ran", "rewritten", "blocked"}]
  BY DEF SessionInv
<1> QED  BY <1>5, <1>6, <1>7, <1>8, <1>9, <1>10 DEF Se!TypeOK, Se!Events, Se!Row, m

\* Se!IsPrefix is SequencesExt's.
LEMMA RowsArePrefix == SessionInv => Se!StoredIsPrefix
<1> SUFFICES ASSUME SessionInv PROVE Se!StoredIsPrefix
  OBVIOUS
<1>1. rows \in Seq(SessionCalls) /\ log \in Seq(SessionCalls) /\ Len(rows) <= Len(log)
      /\ \A i \in 1 .. Len(rows) : rows[i] = log[i]
  BY DEF SessionInv, N
<1>2. SubSeq(rows, 1, Len(rows)) = SubSeq(log, 1, Len(rows))
  BY <1>1
<1> QED  BY <1>1, <1>2 DEF Se!StoredIsPrefix, Se!IsPrefix

LEMMA SessionBegin == Se!Init => SessionInv
<1> SUFFICES ASSUME Se!Init PROVE SessionInv
  OBVIOUS
<1>1. Begun = {} /\ N = 0
  BY DEF Se!Init, Begun, N
<1>2. Cardinality(Begun) = N
  BY <1>1, FS_EmptySet
<1> QED  BY <1>1, <1>2, PartsAssumption DEF Se!Init, SessionInv, HookInv, SessionPcs

\* The walk over the ledger says yes or no.
LEMMA Verdicts == \A new, e : Se!Completes(new, e) \in BOOLEAN
BY Zenon DEF Se!Completes

\* What a step writes to the ledger are events of the log.
LEMMA RecordKept ==
  ASSUME SessionInv, NEW new, NEW e \in 1 .. N, NEW b \in BOOLEAN, Se!Record(new, e, b)
  PROVE  /\ ledger'.hist \in [Tags -> SUBSET Nat] /\ ledger'.fired \in 0 .. N
         /\ \A t \in Tags : ledger'.hist[t] \subseteq 1 .. N
<1> USE DEF N
<1>1. CASE UNCHANGED ledger
  BY <1>1 DEF SessionInv
<1>2. CASE \E fires \in BOOLEAN : Se!Commit(new, e, fires)
  <2> PICK fires \in BOOLEAN : Se!Commit(new, e, fires)
    BY <1>2
  <2>0. N \in Nat /\ ledger.fired \in 0 .. N /\ \A t \in Tags : ledger.hist[t] \subseteq 1 .. N
    BY DEF SessionInv
  <2>1. ledger'.fired \in 0 .. N
    BY <2>0 DEF Se!Commit
  <2>2. \A t \in Tags : Se!Noted(ledger.hist[t], e) \subseteq 1 .. N
    BY <2>0 DEF Se!Noted
  <2>3. ledger'.hist = [t \in Tags |-> IF t \in new THEN Se!Noted(ledger.hist[t], e) ELSE ledger.hist[t]]
    BY DEF Se!Commit
  <2>4. \A t \in Tags : ledger'.hist[t] \subseteq 1 .. N
    BY <2>0, <2>2, <2>3
  <2>5. \A t \in Tags : Se!Noted(ledger.hist[t], e) \in SUBSET Nat
    <3>1. 1 .. N \subseteq Nat
      BY <2>0
    <3> QED  BY <2>2, <3>1
  <2>6. [t \in Tags |-> IF t \in new THEN Se!Noted(ledger.hist[t], e) ELSE ledger.hist[t]] \in [Tags -> SUBSET Nat]
    BY <2>5 DEF SessionInv
  <2> QED  BY <2>1, <2>3, <2>4, <2>6
<1>3. (b /\ Se!rule.action = "warn") \in BOOLEAN
  OBVIOUS
<1> QED  BY <1>1, <1>2, <1>3 DEF Se!Record

\* A step that leaves the log and the rows alone.
LEMMA SessionQuiet ==
  ASSUME SessionInv, UNCHANGED <<policy, log, rows>>, NEW h \in SessionCalls,
         spc[h] # "start", NEW l \in SessionPcs \ {"start"}, spc' = [spc EXCEPT ![h] = l],
         view' \in [SessionCalls -> Nat], at' \in [SessionCalls -> Nat], found' \in [SessionCalls -> SUBSET Nat],
         \A g \in SessionCalls \ {h} : view'[g] = view[g] /\ at'[g] = at[g] /\ found'[g] = found[g],
         HookInv(h)',
         done' \in [SessionCalls -> BOOLEAN],
         outcome' \in [SessionCalls -> {"none", "ran", "rewritten", "blocked"}],
         lock' \in SessionCalls \cup {None},
         ledger'.hist \in [Tags -> SUBSET Nat], \A t \in Tags : ledger'.hist[t] \subseteq 1 .. N,
         ledger'.fired \in 0 .. N,
         sidecar'.events \in 0 .. N, sidecar'.found \subseteq 1 .. N,
         \A f \in findings' : f \in [event : 1 .. N, call : SessionCalls, runtime : BOOLEAN]
  PROVE  SessionInv'
<1>1. N' = N
  BY DEF N
<1>2. Begun' = Begun
  BY DEF Begun, SessionInv
<1>3. \A g \in SessionCalls : HookInv(g)'
  <2> SUFFICES ASSUME NEW g \in SessionCalls, g # h PROVE HookInv(g)'
    OBVIOUS
  <2>1. HookInv(g)
    BY DEF SessionInv
  <2>2. spc'[g] = spc[g]
    BY DEF SessionInv
  <2> QED  BY <1>1, <2>1, <2>2 DEF HookInv
<1>4. spc' \in [SessionCalls -> SessionPcs]
  BY DEF SessionInv
<1> QED  BY <1>1, <1>2, <1>3, <1>4 DEF SessionInv

\* What a hook's own part amounts to.
LEMMA HookAt ==
  ASSUME SessionInv, NEW h \in SessionCalls
  PROVE  /\ N \in Nat /\ view[h] \in 0 .. N /\ at[h] \in 0 .. N /\ found[h] \subseteq 1 .. N /\ HookInv(h)
         /\ spc[h] \in SessionPcs /\ done[h] \in BOOLEAN
BY DEF SessionInv, HookInv, N

LEMMA SessionReads == ASSUME SessionInv, NEW h \in SessionCalls, Se!ReadEvents(h) PROVE SessionInv'
<1>0. N \in Nat /\ N >= 1
  <2>1. IsFiniteSet(SessionCalls)
    BY PartsAssumption, SameCardinality DEF Se!ConstantsOK
  <2>2. IsFiniteSet(Begun) /\ h \in Begun
    BY <2>1, FS_Subset DEF Begun, Se!ReadEvents
  <2> QED  BY <2>2, FS_EmptySet, FS_CardinalityType DEF SessionInv, N
<1>1. /\ spc' = [spc EXCEPT ![h] = "lock"] /\ view' = [view EXCEPT ![h] = N] /\ spc[h] = "read"
      /\ UNCHANGED <<policy, log, ledger, sidecar, lock, rows, findings, at, found, done, outcome>>
  BY DEF Se!ReadEvents, Se!Goto, Se!filev, N
<1>2. HookInv(h)'
  BY <1>0, <1>1, HookAt DEF SessionInv, HookInv, N
<1> QED  BY <1>0, <1>1, <1>2, SessionQuiet DEF SessionInv, SessionPcs

LEMMA SessionAnalyse == ASSUME SessionInv, NEW h \in SessionCalls, Se!Analyse(h) PROVE SessionInv'
<1>1. /\ spc' = [spc EXCEPT ![h] = "analyse"] /\ spc[h] = "lock" /\ lock' = h
      /\ UNCHANGED <<policy, log, ledger, sidecar, rows, findings, view, done, outcome>>
  BY DEF Se!Analyse, Se!Goto
<1>2. /\ at' = [at EXCEPT ![h] = IF sidecar.events <= view[h] THEN sidecar.events ELSE 0]
      /\ found' = [found EXCEPT ![h] = IF sidecar.events <= view[h] THEN sidecar.found ELSE {}]
  BY DEF Se!Analyse
<1>3. sidecar.events \in 0 .. N /\ sidecar.found \subseteq 1 .. N /\ N \in Nat
  BY DEF SessionInv, N
<1>4. at' \in [SessionCalls -> Nat] /\ at'[h] \in 0 .. N /\ at'[h] <= view[h]
  BY <1>2, <1>3, HookAt DEF SessionInv
<1>5. found' \in [SessionCalls -> SUBSET Nat] /\ found'[h] \subseteq 1 .. N
  BY <1>2, <1>3 DEF SessionInv
<1>6. HookInv(h)'
  BY <1>1, <1>4, <1>5, HookAt DEF SessionInv, HookInv, N
<1> QED  BY <1>1, <1>2, <1>3, <1>4, <1>5, <1>6, SessionQuiet DEF SessionInv, SessionPcs

LEMMA SessionAnalyseJudge == ASSUME SessionInv, NEW h \in SessionCalls, Se!AnalyseJudge(h) PROVE SessionInv'
<1>1. /\ spc' = [spc EXCEPT ![h] = "analyse_record"] /\ spc[h] = "analyse" /\ at[h] < view[h]
      /\ UNCHANGED <<policy, log, ledger, sidecar, lock, rows, findings, view, at, found, outcome>>
  BY DEF Se!AnalyseJudge, Se!Goto, Se!filev
<1>2. PICK b \in BOOLEAN : done' = [done EXCEPT ![h] = b]
  BY Verdicts DEF Se!AnalyseJudge
<1>3. HookInv(h)'
  BY <1>1, HookAt DEF SessionInv, HookInv, N
<1> QED  BY <1>1, <1>2, <1>3, SessionQuiet DEF SessionInv, SessionPcs

LEMMA SessionAnalyseRecord == ASSUME SessionInv, NEW h \in SessionCalls, Se!AnalyseRecord(h) PROVE SessionInv'
<1>1. /\ spc' = [spc EXCEPT ![h] = "analyse"] /\ spc[h] = "analyse_record" /\ at' = [at EXCEPT ![h] = at[h] + 1]
      /\ UNCHANGED <<policy, log, sidecar, lock, rows, findings, view, done, outcome>>
  BY DEF Se!AnalyseRecord, Se!Goto
<1>2. PICK e : e = at[h] + 1
  OBVIOUS
<1>3. e \in 1 .. N /\ at[h] < view[h] /\ N \in Nat /\ view[h] \in 0 .. N /\ at[h] \in 0 .. N
  BY <1>1, <1>2, HookAt DEF HookInv
<1>4. PICK new : Se!Record(new, e, done[h])
  BY <1>2 DEF Se!AnalyseRecord
<1>5. found' = [found EXCEPT ![h] = IF done[h] THEN found[h] \cup {e} ELSE found[h]]
  BY <1>2 DEF Se!AnalyseRecord, SessionInv
<1>6. /\ ledger'.hist \in [Tags -> SUBSET Nat] /\ ledger'.fired \in 0 .. N
      /\ \A t \in Tags : ledger'.hist[t] \subseteq 1 .. N
  BY <1>3, <1>4, HookAt, RecordKept
<1>7. found' \in [SessionCalls -> SUBSET Nat] /\ found'[h] \subseteq 1 .. N
  BY <1>3, <1>5, HookAt DEF SessionInv
<1>8. at' \in [SessionCalls -> Nat] /\ at'[h] = e /\ \A g \in SessionCalls \ {h} : at'[g] = at[g]
  BY <1>1, <1>2, <1>3 DEF SessionInv
<1>9. HookInv(h)'
  <2>1. spc'[h] = "analyse" /\ view'[h] = view[h] /\ N' = N
    BY <1>1 DEF SessionInv, N
  <2> QED  BY <1>2, <1>3, <1>7, <1>8, <2>1 DEF HookInv
<1> QED  BY <1>1, <1>3, <1>5, <1>6, <1>7, <1>8, <1>9, SessionQuiet DEF SessionInv, SessionPcs

LEMMA SessionAnalyseEnd == ASSUME SessionInv, NEW h \in SessionCalls, Se!AnalyseEnd(h) PROVE SessionInv'
<1>1. /\ spc' = [spc EXCEPT ![h] = "save"] /\ spc[h] = "analyse" /\ at' = [at EXCEPT ![h] = 0]
      /\ done' = [done EXCEPT ![h] = FALSE] /\ lock' = None
      /\ UNCHANGED <<policy, log, ledger, rows, findings, view, found, outcome>>
  BY DEF Se!AnalyseEnd, Se!Goto
<1>2. sidecar'.events = view[h] /\ sidecar'.found = found[h]
  BY DEF Se!AnalyseEnd
<1>3. view[h] >= 1
  BY <1>1, HookAt DEF HookInv
<1>4. HookInv(h)'
  BY <1>1, <1>3, HookAt DEF SessionInv, HookInv, N
<1> QED  BY <1>1, <1>2, <1>4, HookAt, SessionQuiet DEF SessionInv, SessionPcs

LEMMA SessionJudge == ASSUME SessionInv, NEW h \in SessionCalls, Se!Judge(h) PROVE SessionInv'
<1>1. /\ spc' = [spc EXCEPT ![h] = "record"] /\ spc[h] = "judge"
      /\ UNCHANGED <<policy, log, ledger, sidecar, lock, rows, findings, view, at, found, outcome>>
  BY DEF Se!Judge, Se!Goto, Se!filev
<1>2. PICK b \in BOOLEAN : done' = [done EXCEPT ![h] = b]
  BY Verdicts DEF Se!Judge
<1>3. HookInv(h)'
  BY <1>1, HookAt DEF SessionInv, HookInv, N
<1> QED  BY <1>1, <1>2, <1>3, SessionQuiet DEF SessionInv, SessionPcs

LEMMA SessionJudgeRecord == ASSUME SessionInv, NEW h \in SessionCalls, Se!JudgeRecord(h) PROVE SessionInv'
<1>1. /\ spc[h] = "record"
      /\ UNCHANGED <<policy, log, sidecar, lock, rows, findings, view, at, found, done>>
  BY DEF Se!JudgeRecord
<1>2. PICK l \in {"persist", "done"} : spc' = [spc EXCEPT ![h] = l]
  BY DEF Se!JudgeRecord, Se!Goto
<1>3. PICK o \in {"none", "ran"} : outcome' = [outcome EXCEPT ![h] = o]
  BY DEF Se!JudgeRecord
<1>4. PICK e : e = view[h]
  OBVIOUS
<1>5. e \in 1 .. N
  BY <1>1, <1>4, HookAt DEF HookInv
<1>6. PICK new : Se!Record(new, e, done[h])
  BY <1>4 DEF Se!JudgeRecord
<1>7. /\ ledger'.hist \in [Tags -> SUBSET Nat] /\ ledger'.fired \in 0 .. N
      /\ \A t \in Tags : ledger'.hist[t] \subseteq 1 .. N
  BY <1>5, <1>6, HookAt, RecordKept
<1>8. HookInv(h)'
  BY <1>1, <1>2, HookAt DEF SessionInv, HookInv, N
<1> QED  BY <1>1, <1>2, <1>3, <1>7, <1>8, SessionQuiet DEF SessionInv, SessionPcs

LEMMA SessionPersist == ASSUME SessionInv, NEW h \in SessionCalls, Se!Persist(h) PROVE SessionInv'
<1>1. /\ spc[h] = "persist" /\ spc' = [spc EXCEPT ![h] = "done"]
      /\ UNCHANGED <<policy, log, ledger, sidecar, lock, rows, view, at, found, done>>
  BY DEF Se!Persist, Se!Goto
<1>2. PICK o \in {"ran", "rewritten", "blocked"} : outcome' = [outcome EXCEPT ![h] = o]
  BY DEF Se!Persist
<1>3. view[h] \in 1 .. N
  BY <1>1, HookAt DEF HookInv
<1>4. \A f \in findings' : f \in [event : 1 .. N, call : SessionCalls, runtime : BOOLEAN]
  <2>1. \A f \in findings : f \in [event : 1 .. N, call : SessionCalls, runtime : BOOLEAN]
    BY DEF SessionInv
  <2>2. [event |-> view[h], call |-> h, runtime |-> TRUE] \in [event : 1 .. N, call : SessionCalls, runtime : BOOLEAN]
    BY <1>3
  <2> QED  BY <2>1, <2>2 DEF Se!Persist
<1>5. HookInv(h)'
  BY <1>1, HookAt DEF SessionInv, HookInv, N
<1> QED  BY <1>1, <1>2, <1>4, <1>5, SessionQuiet DEF SessionInv, SessionPcs

LEMMA SessionDies == ASSUME SessionInv, NEW h \in SessionCalls, Se!Die(h) PROVE SessionInv'
<1>1. /\ spc[h] # "start" /\ spc' = [spc EXCEPT ![h] = "dead"]
      /\ view' = [view EXCEPT ![h] = 0] /\ at' = [at EXCEPT ![h] = 0] /\ found' = [found EXCEPT ![h] = {}]
      /\ done' = [done EXCEPT ![h] = FALSE] /\ lock' \in {lock, None}
      /\ UNCHANGED <<policy, log, ledger, sidecar, rows, findings, outcome>>
  BY DEF Se!Die, Se!Goto
<1>2. HookInv(h)'
  BY <1>1, HookAt DEF SessionInv, HookInv, N
<1> QED  BY <1>1, <1>2, SessionQuiet DEF SessionInv, SessionPcs

LEMMA SessionAppends == ASSUME SessionInv, NEW h \in SessionCalls, Se!AppendEvent(h) PROVE SessionInv'
<1>1. /\ spc[h] = "start" /\ spc' = [spc EXCEPT ![h] = "read"] /\ log' = Append(log, h)
      /\ UNCHANGED <<policy, ledger, sidecar, lock, rows, findings, view, at, found, done, outcome>>
  BY DEF Se!AppendEvent, Se!Goto
<1>2. /\ N \in Nat /\ N' = N + 1 /\ log' \in Seq(SessionCalls) /\ \A i \in 1 .. N : log'[i] = log[i]
  BY <1>1 DEF SessionInv, N
<1>3. 0 .. N \subseteq 0 .. N' /\ 1 .. N \subseteq 1 .. N'
  BY <1>2
<1>4. spc' \in [SessionCalls -> SessionPcs]
  BY <1>1 DEF SessionInv, SessionPcs
<1>5. Cardinality(Begun') = N'
  <2>1. Begun' = Begun \cup {h} /\ h \notin Begun /\ Begun \subseteq SessionCalls
    BY <1>1 DEF Begun, SessionInv
  <2>2. IsFiniteSet(Begun)
    BY <2>1, PartsAssumption, SameCardinality, FS_Subset DEF Se!ConstantsOK
  <2> QED  BY <1>2, <2>1, <2>2, FS_AddElement DEF SessionInv
<1>6. \A g \in SessionCalls : HookInv(g)'
  <2> SUFFICES ASSUME NEW g \in SessionCalls PROVE HookInv(g)'
    OBVIOUS
  <2>1. HookInv(g) /\ UNCHANGED <<view[g], at[g], found[g]>>
    BY <1>1 DEF SessionInv
  <2>2. spc'[g] = spc[g] \/ (spc[g] = "start" /\ spc'[g] = "read")
    BY <1>1 DEF SessionInv
  <2> QED  BY <1>3, <2>1, <2>2 DEF HookInv
<1>7. \A f \in findings' : f \in [event : 1 .. N', call : SessionCalls, runtime : BOOLEAN]
  <2> SUFFICES ASSUME NEW f \in findings PROVE f \in [event : 1 .. N', call : SessionCalls, runtime : BOOLEAN]
    BY <1>1
  <2>1. f \in [event : 1 .. N, call : SessionCalls, runtime : BOOLEAN]
    BY DEF SessionInv
  <2> QED  BY <1>3, <2>1
<1>8. /\ rows' \in Seq(SessionCalls) /\ Len(rows') <= N' /\ \A i \in 1 .. Len(rows') : rows'[i] = log'[i]
  <2>1. /\ rows' = rows /\ rows \in Seq(SessionCalls) /\ Len(rows) \in Nat /\ Len(rows) <= N
        /\ \A i \in 1 .. Len(rows) : rows[i] = log[i]
    BY <1>1 DEF SessionInv
  <2>2. \A i \in 1 .. Len(rows) : i \in 1 .. N
    BY <1>2, <2>1
  <2> QED  BY <1>2, <2>1, <2>2
<1>9. /\ ledger'.hist \in [Tags -> SUBSET Nat] /\ (\A t \in Tags : ledger'.hist[t] \subseteq 1 .. N')
      /\ ledger'.fired \in 0 .. N' /\ sidecar'.events \in 0 .. N' /\ sidecar'.found \subseteq 1 .. N'
  BY <1>1, <1>3 DEF SessionInv
<1> QED  BY <1>1, <1>2, <1>4, <1>5, <1>6, <1>7, <1>8, <1>9 DEF SessionInv

\* Whatever is stored, the rows saved are the beginning of the log.
LEMMA RowsSaved ==
  ASSUME SessionInv, NEW v \in 0 .. N
  PROVE  /\ Se!SaveRows(SubSeq(log, 1, v)) \in Seq(SessionCalls) /\ Len(Se!SaveRows(SubSeq(log, 1, v))) <= N
         /\ \A i \in 1 .. Len(Se!SaveRows(SubSeq(log, 1, v))) : Se!SaveRows(SubSeq(log, 1, v))[i] = log[i]
<1> DEFINE events == SubSeq(log, 1, v)
           more == SubSeq(events, Len(rows) + 1, Len(events))
<1>1. /\ log \in Seq(SessionCalls) /\ rows \in Seq(SessionCalls) /\ Len(rows) \in Nat /\ Len(rows) <= N /\ N = Len(log)
      /\ N \in Nat /\ v \in Nat /\ v <= N /\ \A i \in 1 .. Len(rows) : rows[i] = log[i]
  BY DEF SessionInv, N
<1>2. events \in Seq(SessionCalls) /\ Len(events) = v /\ \A i \in 1 .. v : events[i] = log[i]
  BY <1>1
<1> HIDE DEF events
<1>3. CASE Len(rows) > Len(events)
  BY <1>1, <1>2, <1>3 DEF Se!SaveRows, events
<1>4. CASE ~ Len(rows) > Len(events)
  <2>1. Len(rows) <= v
    BY <1>1, <1>2, <1>4
  <2>2. more \in Seq(SessionCalls) /\ Len(more) = v - Len(rows) /\ \A i \in 1 .. Len(more) : more[i] = log[Len(rows) + i]
    BY <1>1, <1>2, <2>1
  <2> HIDE DEF more
  <2>3. /\ rows \o more \in Seq(SessionCalls) /\ Len(rows \o more) = v
        /\ \A i \in 1 .. Len(rows) : (rows \o more)[i] = rows[i]
        /\ \A i \in Len(rows) + 1 .. v : (rows \o more)[i] = more[i - Len(rows)]
    BY <1>1, <2>1, <2>2
  <2>4. \A i \in 1 .. v : (rows \o more)[i] = log[i]
    <3> SUFFICES ASSUME NEW i \in 1 .. v PROVE (rows \o more)[i] = log[i]
      OBVIOUS
    <3>1. CASE i <= Len(rows)
      BY <1>1, <2>3, <3>1
    <3>2. CASE i > Len(rows)
      <4>1. i - Len(rows) \in 1 .. Len(more) /\ Len(rows) + (i - Len(rows)) = i
        BY <1>1, <2>2, <3>2
      <4> QED  BY <1>1, <2>2, <2>3, <3>2, <4>1
    <3> QED
      <4>1. i <= Len(rows) \/ i > Len(rows)
        BY <1>1
      <4> QED  BY <3>1, <3>2, <4>1, Zenon
  <2>5. Se!SaveRows(events) = rows \o more
    BY <1>4 DEF Se!SaveRows, more
  <2> QED  BY <1>1, <2>3, <2>4, <2>5 DEF events
<1> QED  BY <1>3, <1>4

LEMMA SessionSaves == ASSUME SessionInv, NEW h \in SessionCalls, Se!Save(h) PROVE SessionInv'
<1>1. /\ spc[h] = "save" /\ spc' = [spc EXCEPT ![h] = "judge"] /\ found' = [found EXCEPT ![h] = {}]
      /\ UNCHANGED <<policy, log, ledger, sidecar, lock, view, at, done, outcome>>
  BY DEF Se!Save, Se!Goto
<1>2. PICK v : v = view[h]
  OBVIOUS
<1>3. v \in 0 .. N /\ N' = N /\ N = Len(log) /\ log \in Seq(SessionCalls)
  BY <1>1, <1>2, HookAt DEF N, SessionInv
<1>4. rows' \in Seq(SessionCalls) /\ Len(rows') <= N /\ \A i \in 1 .. Len(rows') : rows'[i] = log[i]
  <2>1. rows' = Se!SaveRows(SubSeq(log, 1, v))
    BY <1>2 DEF Se!Save
  <2> QED  BY <1>3, <2>1, RowsSaved
<1>5. \A f \in findings' : f \in [event : 1 .. N, call : SessionCalls, runtime : BOOLEAN]
  <2> SUFFICES ASSUME NEW f \in findings' PROVE f \in [event : 1 .. N, call : SessionCalls, runtime : BOOLEAN]
    OBVIOUS
  <2>1. f \in findings \/ \E e \in found[h] : f = [event |-> e, call |-> log[e], runtime |-> FALSE]
    BY DEF Se!Save
  <2>2. \A e \in found[h] : e \in 1 .. N /\ log[e] \in SessionCalls
    BY <1>3, HookAt
  <2>3. CASE f \in findings
    BY <2>3 DEF SessionInv
  <2>4. CASE \E e \in found[h] : f = [event |-> e, call |-> log[e], runtime |-> FALSE]
    BY <2>2, <2>4
  <2> QED  BY <2>1, <2>3, <2>4
<1>6. Begun' = Begun /\ spc' \in [SessionCalls -> SessionPcs]
  BY <1>1 DEF Begun, SessionInv, SessionPcs
<1>7. found' \in [SessionCalls -> SUBSET Nat]
  BY <1>1 DEF SessionInv
<1>8. \A g \in SessionCalls : HookInv(g)'
  <2> SUFFICES ASSUME NEW g \in SessionCalls PROVE HookInv(g)'
    OBVIOUS
  <2>1. HookInv(g) /\ UNCHANGED <<view[g], at[g]>> /\ found'[g] \in {found[g], {}}
    BY <1>1 DEF SessionInv
  <2>2. spc'[g] = spc[g] \/ (spc[g] = "save" /\ spc'[g] = "judge")
    BY <1>1 DEF SessionInv
  <2> QED  BY <1>3, <2>1, <2>2 DEF HookInv
<1>9. /\ policy' = policy /\ lock' = lock /\ log' = log /\ view' = view /\ at' = at /\ done' = done /\ outcome' = outcome
      /\ ledger' = ledger /\ sidecar' = sidecar
  BY <1>1
<1> QED  BY <1>3, <1>4, <1>5, <1>6, <1>7, <1>8, <1>9 DEF SessionInv

LEMMA SessionKept == SessionInv /\ [Se!Next]_sessionVars => SessionInv'
<1> SUFFICES ASSUME SessionInv, [Se!Next]_sessionVars PROVE SessionInv'
  OBVIOUS
<1>1. CASE UNCHANGED sessionVars
  BY <1>1 DEF sessionVars, SessionInv, HookInv, Begun, N
<1>2. CASE Se!Next
  BY <1>2, SessionAppends, SessionReads, SessionAnalyse, SessionAnalyseJudge, SessionAnalyseRecord, SessionAnalyseEnd,
     SessionSaves, SessionJudge, SessionJudgeRecord, SessionPersist, SessionDies DEF Se!Next
<1> QED  BY <1>1, <1>2

-----------------------------------------------------------------------------
(* Heartbeat: the counter of module Counter.                               *)

Hp == INSTANCE Heartbeat_proofs WITH MaxFaults <- MaxStops, lock <- hlock, pc <- hpc

LEMMA CountsConstants == Hp!ConstantsOK
BY PartsAssumption DEF He!ConstantsOK, Hp!ConstantsOK

\* The definitions of Heartbeat_proofs are those of Heartbeat.
LEMMA SameCardinal == \A S : He!Cardinality(S) = Hp!Cardinality(S)
BY DEF He!Cardinality, Hp!Cardinality

LEMMA SamePending ==
  /\ He!Pending = Hp!Pending /\ He!NoCount = Hp!NoCount /\ He!Load = Hp!Load
  /\ \A f : He!Counted(f) = Hp!Counted(f) /\ He!Range(f) = Hp!Range(f)
BY DEF He!Pending, Hp!Pending, He!InFile, Hp!InFile, He!Counted, Hp!Counted, He!Range, Hp!Range, He!NoCount, Hp!NoCount,
       He!Load, Hp!Load

LEMMA SameHeartbeat ==
  /\ He!Init <=> Hp!Init
  /\ [He!Next]_heartbeatVars => [Hp!Next]_(Hp!vars)
<1>1. He!Init <=> Hp!Init
  BY SamePending DEF He!Init, Hp!Init
<1>2. \A f, c : He!Plus(f, c) = Hp!Plus(f, c)
  BY SameCardinal DEF He!Plus, Hp!Plus, He!KeyOf, Hp!KeyOf
<1>3. He!Next <=> Hp!Next
  BY SamePending, <1>2
  DEF He!Next, Hp!Next, He!RecordCall, Hp!RecordCall, He!StatusOnce, Hp!StatusOnce, He!Flush, Hp!Flush, He!Read, Hp!Read,
      He!NotDue, Hp!NotDue, He!Truncate, Hp!Truncate, He!Finish, Hp!Finish, He!Upload, Hp!Upload, He!Stop, Hp!Stop,
      He!Begin, Hp!Begin, He!LockAndLoad, Hp!LockAndLoad, He!Goto, Hp!Goto, He!Written, Hp!Written
<1> QED  BY <1>1, <1>3 DEF heartbeatVars, Hp!vars

HeartbeatInv == Hp!HeartbeatInv /\ Hp!KeysInv

LEMMA HeartbeatBegin == He!Init => HeartbeatInv /\ He!CountsOnce!Init
<1> SUFFICES ASSUME He!Init PROVE HeartbeatInv /\ He!CountsOnce!Init
  OBVIOUS
<1>1. Hp!HeartbeatInv /\ Hp!CountsOnce!Init /\ Hp!KeysInv
  BY SameHeartbeat, CountsConstants, Hp!InitLemma, Hp!KeysInit
<1>2. He!CountsOnce!Init
  BY <1>1, SamePending DEF He!CountsOnce!Init, Hp!CountsOnce!Init
<1> QED  BY <1>1, <1>2 DEF HeartbeatInv

LEMMA HeartbeatKept ==
  HeartbeatInv /\ [He!Next]_heartbeatVars => HeartbeatInv' /\ [He!CountsOnce!Next]_(He!CountsOnce!vars)
<1> SUFFICES ASSUME HeartbeatInv, [He!Next]_heartbeatVars
             PROVE HeartbeatInv' /\ [He!CountsOnce!Next]_(He!CountsOnce!vars)
  OBVIOUS
<1>1. [Hp!Next]_(Hp!vars)
  BY SameHeartbeat
<1>2. Hp!HeartbeatInv' /\ [Hp!CountsOnce!Next]_(Hp!CountsOnce!vars) /\ Hp!KeysInv'
  BY <1>1, CountsConstants, Hp!NextLemma, Hp!KeysNext DEF HeartbeatInv
<1>3. He!Pending = Hp!Pending /\ He!Pending' = Hp!Pending'
  BY SamePending DEF He!Pending, Hp!Pending, He!InFile, Hp!InFile, He!Counted, Hp!Counted, He!Range, Hp!Range
<1>4. [He!CountsOnce!Next]_(He!CountsOnce!vars)
  BY <1>2, <1>3 DEF He!CountsOnce!Next, Hp!CountsOnce!Next, He!CountsOnce!vars, Hp!CountsOnce!vars,
     He!CountsOnce!Count, Hp!CountsOnce!Count, He!CountsOnce!Report, Hp!CountsOnce!Report,
     He!CountsOnce!Fault, Hp!CountsOnce!Fault
<1> QED  BY <1>2, <1>4 DEF HeartbeatInv

LEMMA HeartbeatTypes == HeartbeatInv => He!TypeOK
<1> SUFFICES ASSUME HeartbeatInv PROVE He!TypeOK
  OBVIOUS
<1>1. Hp!TypeOK
  BY CountsConstants, Hp!TypesLemma DEF HeartbeatInv
<1>2. He!Counters = Hp!Counters
  BY DEF He!Counters, Hp!Counters, He!Keys, Hp!Keys, He!Frameworks, Hp!Frameworks
<1> QED  BY <1>1, <1>2, SameCardinal DEF He!TypeOK, Hp!TypeOK, He!Frameworks, Hp!Frameworks

-----------------------------------------------------------------------------
(* PolicyCache: no crash leaves a stale policy that passes for current.    *)

LEMMA FileOrder ==
  /\ Pc!Order[1] = "yaml" /\ Pc!Order[2] = "sig" /\ Pc!Order[3] = "meta"
  /\ \A i, j \in 1 .. 3 : Pc!Order[i] \in Pc!Names /\ (Pc!Order[i] = Pc!Order[j] => i = j)
BY DEF Pc!Order, Pc!Names

Writers == {h \in Hooks : ppc[h] \in {"open", "write"}}

\* The three files are of one release ...
OneRelease == \E r \in Pc!Ids : files = [n \in Pc!Names |-> r]
\* ... or the metadata tells of a version that no release has from now on.
Behind == \A r \in Pc!Ids : release <= r => Pc!CurrentVersion # Releases[r].version

\* The i-th file is of release r, or is being rewritten with it.
Filled(i, r) ==
  \/ files[Pc!Order[i]] = r
  \/ files[Pc!Order[i]] = Pc!Torn /\ \E k \in Writers : ppc[k] = "write" /\ wrote[k] + 1 = i

\* Processes that write at once write one release, each behind the others' back;
\* with nobody writing, the files are of one release or known to be old.
CacheInv ==
  /\ Pc!TypeOK
  /\ \A h \in Writers : got[h] \in Pc!Ids /\ got[h] <= release
  /\ \A h \in Hooks : /\ h \notin Writers => wrote[h] = 0
                      /\ ppc[h] = "compare" => got[h] \in Pc!Ids
  /\ ~ spoiled =>
       /\ \A h, k \in Writers : got[h] = got[k]
       /\ \A h \in Writers, r \in Pc!Ids : got[h] = r => \A i \in 1 .. wrote[h] : Filled(i, r)
       /\ Writers = {} => OneRelease \/ Behind

LEMMA Ids == Pc!Ids \subseteq Nat \ {0} /\ None \notin Nat /\ 1 \in Pc!Ids /\ Pc!Torn \notin Pc!Ids /\ None \notin Pc!Ids
BY PartsAssumption DEF Pc!ConstantsOK, Pc!Ids, Pc!Torn

LEMMA CacheBegin == Pc!Init => CacheInv
<1> SUFFICES ASSUME Pc!Init PROVE CacheInv
  OBVIOUS
<1>1. Pc!CurrentVersion = None
  BY Ids DEF Pc!Init, Pc!CurrentVersion, Pc!Names
<1>2. Behind
  BY <1>1, Ids, PartsAssumption DEF Behind, Pc!ConstantsOK, Pc!Ids
<1>3. Pc!TypeOK
  <2>1. linked \in BOOLEAN /\ revoked \in BOOLEAN /\ spoiled \in BOOLEAN
    BY DEF Pc!Init
  <2>2. flips \in 0 .. MaxFlips /\ kills \in 0 .. MaxKills
    BY PartsAssumption DEF Pc!Init, Pc!ConstantsOK
  <2>3. /\ files \in [Pc!Names -> Pc!Ids \cup {None, Pc!Torn}] /\ release \in Pc!Ids
        /\ ppc \in [Hooks -> {"idle", "ask", "compare", "fetch", "open", "write"}]
        /\ got \in [Hooks -> Pc!Ids \cup {None}] /\ wrote \in [Hooks -> 0 .. 2]
    BY Ids DEF Pc!Init
  <2> QED  BY <2>1, <2>2, <2>3 DEF Pc!TypeOK
<1>4. Writers = {}
  BY DEF Pc!Init, Writers
<1> QED  BY <1>2, <1>3, <1>4, Ids DEF Pc!Init, CacheInv

\* A step that leaves the files and the writers alone.
LEMMA CacheQuiet ==
  ASSUME CacheInv, Pc!TypeOK', files' = files, wrote' = wrote, Writers' = Writers, spoiled' = spoiled,
         release <= release', \A h \in Writers : got'[h] = got[h] /\ ppc'[h] = ppc[h],
         \A h \in Hooks : ppc'[h] = "compare" => got'[h] \in Pc!Ids
  PROVE  CacheInv'
<1>1. \A i, r : Filled(i, r)' <=> Filled(i, r)
  BY DEF Filled
<1>2. (OneRelease' <=> OneRelease) /\ (Behind => Behind')
  BY Ids DEF OneRelease, Behind, Pc!CurrentVersion, CacheInv, Pc!TypeOK
<1>3. release \in Nat /\ release' \in Nat
  BY Ids DEF CacheInv, Pc!TypeOK
<1>4. \A h \in Writers' : got'[h] \in Pc!Ids /\ got'[h] <= release'
  <2>1. \A h \in Writers : got[h] \in Nat /\ got[h] <= release
    BY Ids DEF CacheInv
  <2> QED  BY <1>3, <2>1 DEF CacheInv
<1> QED  BY <1>1, <1>2, <1>4 DEF CacheInv

LEMMA CacheStep ==
  ASSUME CacheInv, NEW h \in Hooks,
         Pc!Check(h) \/ Pc!Sync(h) \/ Pc!Fail(h) \/ Pc!Reject(h) \/ Pc!Answer(h) \/ Pc!Compare(h)
  PROVE  CacheInv'
<1>1. Pc!TypeOK'
  <2>1. revoked' \in BOOLEAN
    BY Zenon DEF CacheInv, Pc!TypeOK, Pc!Check, Pc!Sync, Pc!Fail, Pc!Reject, Pc!Answer, Pc!Compare
  <2>2. UNCHANGED <<release, linked, flips, files, wrote, kills, spoiled>>
    BY DEF Pc!Check, Pc!Sync, Pc!Fail, Pc!Reject, Pc!Answer, Pc!Compare
  <2>3. /\ ppc' \in [Hooks -> {"idle", "ask", "compare", "fetch", "open", "write"}]
        /\ got' \in [Hooks -> Pc!Ids \cup {None}]
    BY DEF CacheInv, Pc!TypeOK, Pc!Goto, Pc!Check, Pc!Sync, Pc!Fail, Pc!Reject, Pc!Answer, Pc!Compare
  <2> QED  BY <2>1, <2>2, <2>3 DEF CacheInv, Pc!TypeOK
<1>2. PICK l \in {"idle", "ask", "fetch", "compare"} :
        /\ ppc' = [ppc EXCEPT ![h] = l] /\ ppc[h] \notin {"open", "write"}
        /\ UNCHANGED <<files, wrote, spoiled, release>>
  BY DEF Pc!Goto, Pc!Check, Pc!Sync, Pc!Fail, Pc!Reject, Pc!Answer, Pc!Compare
<1>3. \A k \in Hooks : k # h => got'[k] = got[k] /\ ppc'[k] = ppc[k]
  BY <1>2 DEF CacheInv, Pc!TypeOK, Pc!Check, Pc!Sync, Pc!Fail, Pc!Reject, Pc!Answer, Pc!Compare
<1>4. ppc'[h] = l
  BY <1>2 DEF CacheInv, Pc!TypeOK
<1>5. Writers' = Writers
  BY <1>2, <1>3, <1>4 DEF Writers
<1>6. ppc'[h] = "compare" => got'[h] \in Pc!Ids
  BY DEF CacheInv, Pc!TypeOK, Pc!Goto,
            Pc!Check, Pc!Sync, Pc!Fail, Pc!Reject, Pc!Answer, Pc!Compare
<1>7. release <= release'
  BY <1>2, Ids DEF CacheInv, Pc!TypeOK
<1>8. \A k \in Writers : got'[k] = got[k] /\ ppc'[k] = ppc[k]
  BY <1>2, <1>3 DEF Writers
<1>9. \A k \in Hooks : ppc'[k] = "compare" => got'[k] \in Pc!Ids
  BY <1>3, <1>6 DEF CacheInv
<1> QED  BY <1>1, <1>2, <1>5, <1>7, <1>8, <1>9, CacheQuiet

LEMMA CacheFetch ==
  ASSUME CacheInv, NEW h \in Hooks, Pc!Fetch(h)
  PROVE  CacheInv'
<1>1. /\ ppc[h] = "fetch" /\ got' = [got EXCEPT ![h] = release] /\ ppc' = [ppc EXCEPT ![h] = "open"]
      /\ spoiled' = (spoiled \/ \E k \in Hooks : ppc[k] \in {"open", "write"} /\ got[k] # release)
      /\ UNCHANGED <<files, wrote, release, linked, flips, cur, kills>> /\ revoked' = FALSE
  BY DEF Pc!Fetch, Pc!Goto, Pc!Writing
<1>2. Pc!TypeOK'
  BY <1>1 DEF CacheInv, Pc!TypeOK
<1>3. release \in Pc!Ids /\ release \in Nat /\ wrote[h] = 0 /\ h \notin Writers
  BY <1>1, Ids DEF CacheInv, Pc!TypeOK, Writers
<1>4. /\ ppc'[h] = "open" /\ got'[h] = release
      /\ \A k \in Hooks : k # h => got'[k] = got[k] /\ ppc'[k] = ppc[k]
  BY <1>1 DEF CacheInv, Pc!TypeOK
<1>5. Writers' = Writers \cup {h}
  BY <1>4 DEF Writers
<1>6. \A i, r : Filled(i, r) => Filled(i, r)'
  BY <1>1, <1>3, <1>4, <1>5 DEF Filled, Writers
<1>7. \A k \in Writers' : got'[k] \in Pc!Ids /\ got'[k] <= release'
  BY <1>1, <1>3, <1>4, <1>5 DEF CacheInv, Writers
<1>8. \A k \in Hooks : /\ k \notin Writers' => wrote'[k] = 0
                       /\ ppc'[k] = "compare" => got'[k] \in Pc!Ids
  BY <1>1, <1>3, <1>4, <1>5 DEF CacheInv
<1>9. ASSUME ~ spoiled'
      PROVE  /\ \A i, k \in Writers' : got'[i] = got'[k]
             /\ \A k \in Writers', r \in Pc!Ids : got'[k] = r => \A i \in 1 .. wrote'[k] : Filled(i, r)'
             /\ Writers' # {}
  <2>1. ~ spoiled /\ \A k \in Writers' : got'[k] = release
    BY <1>1, <1>4, <1>5, <1>9 DEF Writers
  <2>0. PICK w \in Pc!Ids : w = release
    BY <1>3
  <2>2. ASSUME NEW k \in Writers', NEW i \in 1 .. wrote'[k]  PROVE Filled(i, w)'
    <3>1. k \in Writers /\ k # h /\ got[k] = release /\ i \in 1 .. wrote[k]
      BY <1>1, <1>3, <1>4, <1>5, <2>1
    <3> QED  BY <1>6, <2>0, <2>1, <3>1 DEF CacheInv
  <2> QED  BY <1>3, <1>5, <2>0, <2>1, <2>2
<1> QED  BY <1>2, <1>7, <1>8, <1>9 DEF CacheInv

\* A file is emptied.
LEMMA CacheTruncate ==
  ASSUME CacheInv, NEW h \in Hooks, Pc!Truncate(h)
  PROVE  CacheInv'
<1> DEFINE p == wrote[h] + 1
<1>1. /\ ppc[h] = "open" /\ ppc' = [ppc EXCEPT ![h] = "write"]
      /\ files' = [files EXCEPT ![Pc!Order[p]] = Pc!Torn]
      /\ UNCHANGED <<release, linked, flips, revoked, cur, got, wrote, kills, spoiled>>
  BY DEF Pc!Truncate, Pc!Goto
<1>2. wrote[h] \in 0 .. 2 /\ p \in 1 .. 3 /\ Pc!Order[p] \in Pc!Names
  BY FileOrder DEF CacheInv, Pc!TypeOK
<1> HIDE DEF p
<1>3. Pc!TypeOK'
  BY <1>1 DEF CacheInv, Pc!TypeOK
<1>4. ppc'[h] = "write" /\ \A k \in Hooks : k # h => ppc'[k] = ppc[k]
  BY <1>1 DEF CacheInv, Pc!TypeOK
<1>5. Writers' = Writers /\ h \in Writers
  BY <1>1, <1>4 DEF Writers
<1>6. /\ files'[Pc!Order[p]] = Pc!Torn
      /\ \A i \in 1 .. 3 : i # p => files'[Pc!Order[i]] = files[Pc!Order[i]]
  BY <1>1, <1>2, FileOrder DEF CacheInv, Pc!TypeOK
<1>7. \A i \in 1 .. 3 : \A r : Filled(i, r) => Filled(i, r)'
  <2> SUFFICES ASSUME NEW i \in 1 .. 3, NEW r, Filled(i, r)  PROVE Filled(i, r)'
    OBVIOUS
  <2>1. CASE i = p
    BY <1>1, <1>4, <1>5, <1>6, <2>1 DEF Filled, p
  <2>2. CASE i # p
    BY <1>1, <1>4, <1>5, <1>6, <2>2 DEF Filled
  <2> QED  BY <2>1, <2>2
<1>8. \A k \in Writers : \A i \in 1 .. wrote[k] : i \in 1 .. 3
  BY DEF CacheInv, Pc!TypeOK, Writers
<1>9. \A k \in Hooks : ppc'[k] = "compare" => got'[k] \in Pc!Ids
  BY <1>1, <1>4 DEF CacheInv
<1>10. ~ spoiled' => \A k \in Writers', r \in Pc!Ids : got'[k] = r => \A i \in 1 .. wrote'[k] : Filled(i, r)'
  BY <1>1, <1>5, <1>7, <1>8 DEF CacheInv
<1> QED  BY <1>1, <1>3, <1>5, <1>9, <1>10 DEF CacheInv

\* ... and filled.
LEMMA CacheWrite ==
  ASSUME CacheInv, NEW h \in Hooks, Pc!Write(h)
  PROVE  CacheInv'
<1> DEFINE p == wrote[h] + 1
           last == wrote[h] = 2
<1>1. /\ ppc[h] = "write" /\ ppc' = [ppc EXCEPT ![h] = IF last THEN "idle" ELSE "open"]
      /\ files' = [files EXCEPT ![Pc!Order[p]] = got[h]]
      /\ wrote' = [wrote EXCEPT ![h] = IF last THEN 0 ELSE wrote[h] + 1]
      /\ got' = [got EXCEPT ![h] = IF last THEN None ELSE got[h]]
      /\ UNCHANGED <<release, linked, flips, revoked, cur, kills, spoiled>>
  BY DEF Pc!Write, Pc!Goto
<1>2. wrote[h] \in 0 .. 2 /\ p \in 1 .. 3 /\ Pc!Order[p] \in Pc!Names /\ h \in Writers /\ got[h] \in Pc!Ids
  BY <1>1, FileOrder DEF CacheInv, Pc!TypeOK, Writers
<1>3. /\ ppc'[h] = (IF last THEN "idle" ELSE "open") /\ wrote'[h] = (IF last THEN 0 ELSE p)
      /\ got'[h] = (IF last THEN None ELSE got[h])
      /\ \A k \in Hooks : k # h => ppc'[k] = ppc[k] /\ wrote'[k] = wrote[k] /\ got'[k] = got[k]
  BY <1>1 DEF CacheInv, Pc!TypeOK
<1>4. Pc!TypeOK'
  <2>1. got' \in [Hooks -> Pc!Ids \cup {None}] /\ wrote' \in [Hooks -> 0 .. 2]
    BY <1>1, <1>2 DEF CacheInv, Pc!TypeOK
  <2>2. files' \in [Pc!Names -> Pc!Ids \cup {None, Pc!Torn}]
    BY <1>1, <1>2 DEF CacheInv, Pc!TypeOK
  <2>3. ppc' \in [Hooks -> {"idle", "ask", "compare", "fetch", "open", "write"}]
    BY <1>1 DEF CacheInv, Pc!TypeOK
  <2> QED  BY <1>1, <2>1, <2>2, <2>3 DEF CacheInv, Pc!TypeOK
<1>5. /\ files'[Pc!Order[p]] = got[h]
      /\ \A i \in 1 .. 3 : i # p => files'[Pc!Order[i]] = files[Pc!Order[i]]
  BY <1>1, <1>2, FileOrder DEF CacheInv, Pc!TypeOK
<1>6. Writers' = IF last THEN Writers \ {h} ELSE Writers
  BY <1>2, <1>3 DEF Writers
<1>7. \A k \in Writers' : got'[k] = got[k] /\ got[k] \in Pc!Ids /\ got'[k] <= release' /\ k \in Writers
  BY <1>1, <1>3, <1>6 DEF CacheInv, Writers
<1>8. \A k \in Hooks : /\ k \notin Writers' => wrote'[k] = 0
                       /\ ppc'[k] = "compare" => got'[k] \in Pc!Ids
  BY <1>3, <1>6 DEF CacheInv, Writers
<1>9. ASSUME ~ spoiled
      PROVE  /\ \A i, k \in Writers' : got'[i] = got'[k]
             /\ \A k \in Writers', r \in Pc!Ids : got'[k] = r => \A i \in 1 .. wrote'[k] : Filled(i, r)'
             /\ Writers' = {} => OneRelease'
  <2>0. PICK w \in Pc!Ids : w = got[h]
    BY <1>2
  <2>1. \A k \in Writers : got[k] = w
    BY <1>2, <1>9, <2>0 DEF CacheInv
  <2>2. \A i \in 1 .. 3 : Filled(i, w) => Filled(i, w)'
    <3> SUFFICES ASSUME NEW i \in 1 .. 3, Filled(i, w)
                 PROVE  \/ files'[Pc!Order[i]] = w
                        \/ /\ files'[Pc!Order[i]] = Pc!Torn
                           /\ \E k \in Writers' : ppc'[k] = "write" /\ wrote'[k] + 1 = i
      BY DEF Filled
    <3>1. CASE i = p
      BY <1>5, <2>0, <3>1
    <3>2. CASE i # p /\ files[Pc!Order[i]] = w
      BY <1>5, <3>2
    <3>3. CASE i # p /\ files[Pc!Order[i]] # w
      <4>1. PICK k \in Writers : ppc[k] = "write" /\ wrote[k] + 1 = i
        BY <3>3 DEF Filled
      <4>2. k # h
        BY <3>3, <4>1
      <4>3. k \in Writers' /\ ppc'[k] = "write" /\ wrote'[k] + 1 = i
        BY <1>3, <1>6, <4>1, <4>2 DEF Writers
      <4> QED  BY <1>5, <3>3, <4>3 DEF Filled
    <3> QED  BY <3>1, <3>2, <3>3
  <2>3. \A k \in Writers' : \A i \in 1 .. wrote'[k] : i \in 1 .. 3 /\ Filled(i, w)'
    <3> SUFFICES ASSUME NEW k \in Writers', NEW i \in 1 .. wrote'[k]
                 PROVE  i \in 1 .. 3 /\ Filled(i, w)'
      OBVIOUS
    <3>1. i \in 1 .. 3
      BY <1>4 DEF Pc!TypeOK, Writers
    <3>2. CASE k = h /\ i = p
      BY <1>5, <2>0, <3>1, <3>2 DEF Filled
    <3>3. CASE k # h \/ i # p
      <4>1. i \in 1 .. wrote[k] /\ k \in Writers
        BY <1>2, <1>3, <1>6, <3>3 DEF CacheInv, Pc!TypeOK, Writers
      <4> QED  BY <1>9, <2>1, <2>2, <3>1, <4>1 DEF CacheInv
    <3> QED  BY <3>1, <3>2, <3>3
  <2>4. ASSUME Writers' = {}  PROVE OneRelease'
    <3>1. last /\ Writers = {h} /\ p = 3
      BY <1>2, <1>6, <2>4
    <3>2. \A i \in 1 .. 2 : files[Pc!Order[i]] = w
      <4> SUFFICES ASSUME NEW i \in 1 .. 2  PROVE files[Pc!Order[i]] = w
        OBVIOUS
      <4>1. Filled(i, w)
        BY <1>2, <1>9, <2>0, <3>1 DEF CacheInv
      <4> QED  BY <3>1, <4>1 DEF Filled
    <3>3. \A i \in 1 .. 3 : files'[Pc!Order[i]] = w
      BY <1>5, <2>0, <3>1, <3>2
    <3>4. files'["yaml"] = w /\ files'["sig"] = w /\ files'["meta"] = w
      BY <3>3, FileOrder
    <3>5. files' = [n \in Pc!Names |-> w]
      BY <1>4, <3>4 DEF Pc!TypeOK, Pc!Names
    <3> QED  BY <3>5 DEF OneRelease
  <2> QED  BY <1>7, <2>0, <2>1, <2>3, <2>4
<1> QED  BY <1>1, <1>4, <1>7, <1>8, <1>9 DEF CacheInv

\* A process is killed: what a single writer leaves is known to be old.
LEMMA CacheDie ==
  ASSUME CacheInv, NEW h \in Hooks, Pc!Die(h)
  PROVE  CacheInv'
<1>1. /\ ppc' = [ppc EXCEPT ![h] = "idle"] /\ got' = [got EXCEPT ![h] = None] /\ wrote' = [wrote EXCEPT ![h] = 0]
      /\ UNCHANGED <<release, linked, flips, files, revoked>>
  BY DEF Pc!Die, Pc!Goto
<1>2. kills' \in 0 .. MaxKills /\ cur' = [cur EXCEPT ![h] = None]
  BY PartsAssumption DEF Pc!Die, Pc!ConstantsOK, CacheInv, Pc!TypeOK
<1>3. spoiled' = \/ spoiled
                 \/ /\ h \in Writers
                    /\ \/ /\ \E r \in Pc!Ids : got[h] <= r /\ Pc!CurrentVersion = Releases[r].version
                          /\ \A k \in 1 .. wrote[h] : Pc!Order[k] # "meta"
                       \/ \E k \in Hooks \ {h} : k \in Writers
  BY DEF Pc!Die, Pc!Writing, Writers
<1>4. \A k \in 1 .. wrote[h] : Pc!Order[k] # "meta"
  <2>1. \A k \in 1 .. wrote[h] : k \in 1 .. 3 /\ k # 3
    BY DEF CacheInv, Pc!TypeOK
  <2> QED  BY <2>1, FileOrder
<1>5. Pc!TypeOK'
  BY <1>1, <1>2, <1>3 DEF CacheInv, Pc!TypeOK
<1>6. /\ ppc'[h] = "idle" /\ wrote'[h] = 0
      /\ \A k \in Hooks : k # h => ppc'[k] = ppc[k] /\ wrote'[k] = wrote[k] /\ got'[k] = got[k]
  BY <1>1 DEF CacheInv, Pc!TypeOK
<1>7. Writers' = Writers \ {h}
  BY <1>6 DEF Writers
<1>8. \A k \in Writers' : got'[k] = got[k] /\ got[k] \in Pc!Ids /\ got'[k] <= release' /\ k \in Writers
  BY <1>1, <1>6, <1>7 DEF CacheInv, Writers
<1>9. \A k \in Hooks : /\ k \notin Writers' => wrote'[k] = 0
                       /\ ppc'[k] = "compare" => got'[k] \in Pc!Ids
  BY <1>6, <1>7 DEF CacheInv, Writers
<1>10. ASSUME ~ spoiled'
       PROVE  /\ \A i, k \in Writers' : got'[i] = got'[k]
              /\ \A k \in Writers', r \in Pc!Ids : got'[k] = r => \A i \in 1 .. wrote'[k] : Filled(i, r)'
              /\ Writers' = {} => OneRelease' \/ Behind'
  <2>1. ~ spoiled
    BY <1>3, <1>10
  <2>2. CASE h \in Writers
    <3>1. Writers' = {}
      BY <1>3, <1>7, <1>10, <2>2 DEF Writers
    <3>2. \A r \in Pc!Ids : got[h] <= r => Pc!CurrentVersion # Releases[r].version
      BY <1>3, <1>4, <1>10, <2>2
    <3>3. got[h] \in Nat /\ got[h] <= release /\ release \in Nat
      BY <2>2, Ids DEF CacheInv, Pc!TypeOK
    <3>4. Pc!CurrentVersion' = Pc!CurrentVersion
      BY <1>1 DEF Pc!CurrentVersion
    <3>5. Behind'
      BY <1>1, <3>2, <3>3, <3>4, Ids DEF Behind
    <3> QED  BY <3>1, <3>5
  <2>3. CASE h \notin Writers
    <3>1. Writers' = Writers
      BY <1>7, <2>3
    <3>2. \A i, r : Filled(i, r) => Filled(i, r)'
      BY <1>1, <1>6, <2>3, <3>1 DEF Filled, Writers
    <3>3. \A k \in Writers : k # h /\ wrote'[k] = wrote[k]
      BY <1>6, <2>3 DEF Writers
    <3>4. (OneRelease => OneRelease') /\ (Behind => Behind')
      BY <1>1 DEF OneRelease, Behind, Pc!CurrentVersion
    <3>5. \A k \in Writers', r \in Pc!Ids : got'[k] = r => \A i \in 1 .. wrote'[k] : Filled(i, r)'
      BY <1>8, <2>1, <3>2, <3>3 DEF CacheInv
    <3> QED  BY <1>8, <2>1, <3>1, <3>4, <3>5 DEF CacheInv
  <2> QED  BY <2>2, <2>3
<1> QED  BY <1>5, <1>8, <1>9, <1>10 DEF CacheInv

LEMMA CacheKept == CacheInv /\ [Pc!Next]_cacheVars => CacheInv'
<1> SUFFICES ASSUME CacheInv, [Pc!Next]_cacheVars PROVE CacheInv'
  OBVIOUS
<1>1. ASSUME Pc!Publish \/ Pc!Flip \/ UNCHANGED cacheVars  PROVE CacheInv'
  <2>1. UNCHANGED <<files, revoked, ppc, cur, got, wrote, kills, spoiled>>
    BY <1>1 DEF Pc!Publish, Pc!Flip, cacheVars
  <2>2. release' \in Pc!Ids /\ release <= release'
    BY <1>1, Ids DEF Pc!Publish, Pc!Flip, cacheVars, CacheInv, Pc!TypeOK
  <2>3. linked' \in BOOLEAN
    BY <1>1, Zenon DEF Pc!Publish, Pc!Flip, cacheVars, CacheInv, Pc!TypeOK
  <2>4. flips' \in 0 .. MaxFlips
    BY <1>1, PartsAssumption DEF Pc!Publish, Pc!Flip, cacheVars, CacheInv, Pc!TypeOK, Pc!ConstantsOK
  <2>5. Pc!TypeOK'
    BY <2>1, <2>2, <2>3, <2>4 DEF CacheInv, Pc!TypeOK
  <2>6. Writers' = Writers
    BY <2>1 DEF Writers
  <2> QED  BY <2>1, <2>2, <2>5, <2>6, CacheQuiet DEF CacheInv
<1>2. ASSUME NEW h \in Hooks, Pc!Check(h) \/ Pc!Sync(h) \/ Pc!Fail(h) \/ Pc!Refresh(h) \/ Pc!Die(h)
      PROVE  CacheInv'
  BY <1>2, CacheStep, CacheFetch, CacheTruncate, CacheWrite, CacheDie DEF Pc!Refresh
<1> QED  BY <1>1, <1>2 DEF Pc!Next

\* What the invariant says of a cache at rest.
LEMMA CacheAtRest == CacheInv => Pc!NeverStuck
<1> SUFFICES ASSUME CacheInv, ~ revoked, ~ spoiled, \A h \in Hooks : ~ Pc!Writing(h),
                    ~ Pc!Changed(Pc!CurrentVersion, release)
             PROVE  Pc!UpToDate
  BY DEF Pc!NeverStuck
<1>1. release \in Pc!Ids /\ release \in Nat
  BY Ids DEF CacheInv, Pc!TypeOK
<1>2. ~ Behind
  BY <1>1 DEF Behind, Pc!Changed
<1>3. Writers = {}
  BY DEF Writers, Pc!Writing
<1>4. PICK r \in Pc!Ids : files = [n \in Pc!Names |-> r]
  BY <1>2, <1>3 DEF CacheInv, OneRelease
<1>5. Pc!Loaded = r /\ r # None /\ Pc!CurrentVersion = Releases[r].version /\ Pc!CurrentBlock = Releases[r].block
  BY <1>4, Ids DEF Pc!Loaded, Pc!CurrentVersion, Pc!CurrentBlock, Pc!Names
<1> QED  BY <1>5 DEF Pc!UpToDate, Pc!Changed

-----------------------------------------------------------------------------
(* OAuthTokens: each refresh token is spent once.                          *)

\* A thread posts and saves under the file lock, and what it has in hand is the
\* token in force, unless the sign-in has an outdated record.
InHand(q) ==
  /\ opc[q] \in {"post", "save"} <=> flock = q
  /\ opc[q] \in {"lock", "scope", "post", "save"} =>
       record[q] \in Oa!Record /\ record[q].signIn <= signIns
  /\ opc[q] \in {"post", "save"} /\ record[q].signIn \notin behind =>
       record[q].refresh = valid[record[q].signIn]

\* So is what is on disk, until a successor that was granted is saved.
OnDisk ==
  /\ disk # None => disk.signIn <= signIns
  /\ (/\ disk # None /\ disk.signIn \notin behind
      /\ \A q \in Requests : opc[q] = "save" => record[q].signIn # disk.signIn)
       => disk.refresh = valid[disk.signIn]

TokensInv == Oa!TypeOK /\ (\A q \in Requests : InHand(q)) /\ OnDisk /\ Oa!SpentOnce

LEMMA TokensBegin == Oa!Init => TokensInv
BY PartsAssumption
DEF Oa!Init, TokensInv, InHand, OnDisk, Oa!TypeOK, Oa!SpentOnce, Oa!ConstantsOK, Oa!Record, Oa!SignIns

ThreadTypes ==
  /\ opc \in [Requests -> {"idle", "retry", "send", "lock", "post", "save", "scope"}]
  /\ token \in [Requests -> Oa!Record \cup {None}] /\ record \in [Requests -> Oa!Record \cup {None}]
  /\ again \in [Requests -> BOOLEAN]

\* One thread goes on, to l, with this record.
Goes(q, l, rec) ==
  /\ ThreadTypes' /\ opc'[q] = l /\ record'[q] = rec
  /\ \A p \in Requests : p # q => opc'[p] = opc[p] /\ record'[p] = record[p]

\* ... and takes or leaves its gateway's lock.
LEMMA SessionLock ==
  ASSUME Oa!TypeOK, NEW q \in Requests, Oa!Enter(q) \/ Oa!Leave(q) \/ UNCHANGED slock
  PROVE  slock' \in [Gateways -> Requests \cup {None}]
BY PartsAssumption DEF Oa!Enter, Oa!Leave, Oa!TypeOK, Oa!ConstantsOK

\* How a refresh ends, for good or not: the thread holds nothing.
LEMMA RefreshEnds ==
  ASSUME Oa!TypeOK, NEW q \in Requests,
         Oa!NotRefreshed(q) \/ \E rec \in Oa!Record : Oa!Refreshed(q, rec)
  PROVE  /\ ThreadTypes' /\ opc'[q] \in {"idle", "send", "retry"}
         /\ \A p \in Requests : p # q => opc'[p] = opc[p] /\ record'[p] = record[p]
         /\ slock' \in [Gateways -> Requests \cup {None}]
<1>1. token[q] \in Oa!Record \cup {None} /\ again[q] \in BOOLEAN
  BY DEF Oa!TypeOK
<1>2. slock' \in [Gateways -> Requests \cup {None}]
  BY SessionLock DEF Oa!NotRefreshed, Oa!Refreshed
<1>3. \E l \in {"idle", "send", "retry"} : Goes(q, l, None)
  BY <1>1, ZenonT(40) DEF Oa!NotRefreshed, Oa!Refreshed, Oa!Done, Oa!At, Goes, ThreadTypes, Oa!TypeOK
<1> QED  BY <1>2, <1>3 DEF Goes

LEMMA TokensStep ==
  ASSUME TokensInv, NEW q \in Requests, Oa!Step(q)
  PROVE  TokensInv'
<1>0. /\ None \notin Requests
      /\ token[q] \in Oa!Record \cup {None} /\ disk \in Oa!Record \cup {None} /\ again[q] \in BOOLEAN
      /\ record[q] \in Oa!Record \cup {None}
  BY PartsAssumption DEF TokensInv, Oa!TypeOK, Oa!ConstantsOK
<1> USE DEF TokensInv, InHand, OnDisk, Oa!SpentOnce
\* Steps that leave the store and the server alone.
<1> DEFINE Still == UNCHANGED <<disk, signIns, signingOut, live, issued, valid, reused, behind, losses>>
<1>a. ASSUME Still, ThreadTypes', slock' \in [Gateways -> Requests \cup {None}],
             \A p \in Requests : p # q => opc'[p] = opc[p] /\ record'[p] = record[p],
             opc[q] # "save", flock' \in {flock, q, None}, opc'[q] # "save",
             \A p \in Requests : InHand(p)'
      PROVE  TokensInv'
  <2>1. Oa!TypeOK'
    BY <1>a DEF Oa!TypeOK, ThreadTypes
  <2>2. OnDisk'
    BY <1>a
  <2> QED  BY <1>a, <2>1, <2>2
<1> HIDE DEF Still
<1>1. CASE Oa!Authorize(q)
  <2>1. Goes(q, "send", None) \/ (disk # None /\ Goes(q, "lock", disk))
    BY <1>0, <1>1 DEF Oa!Authorize, Oa!At, Goes, ThreadTypes, Oa!TypeOK
  <2>2. opc[q] \in {"idle", "retry"} /\ UNCHANGED flock /\ Still /\ slock' \in [Gateways -> Requests \cup {None}]
    BY <1>1, SessionLock DEF Oa!Authorize, Still, Oa!person, Oa!server
  <2> QED  BY <1>0, <1>a, <2>1, <2>2 DEF Still, Goes
<1>2. CASE Oa!Answered(q)
  <2>2. opc[q] = "send" /\ UNCHANGED flock /\ Still /\ slock' \in [Gateways -> Requests \cup {None}]
    BY <1>2, SessionLock DEF Oa!Answered, Still, Oa!person, Oa!server
  <2>1. Goes(q, "idle", None)
    BY <1>0, <1>2 DEF Oa!Answered, Oa!Done, Oa!At, Goes, ThreadTypes, Oa!TypeOK
  <2> QED  BY <1>0, <1>a, <2>1, <2>2 DEF Still, Goes
<1>3. CASE Oa!Unauthorized(q)
  <2>1. Goes(q, "retry", None) \/ (disk # None /\ Goes(q, "lock", disk))
    <3>1. CASE Oa!AccessToken(disk) # Oa!AccessToken(token[q])
      BY <1>0, <1>3, <3>1, ZenonT(40) DEF Oa!Unauthorized, Oa!At, Goes, ThreadTypes, Oa!TypeOK
    <3>2. CASE Oa!AccessToken(disk) = Oa!AccessToken(token[q])
      <4>1. disk # None /\ Oa!At(q, "lock", None, disk, FALSE)
        BY <1>3, <3>2, Zenon DEF Oa!Unauthorized
      <4> QED  BY <1>0, <4>1 DEF Oa!At, Goes, ThreadTypes, Oa!TypeOK
    <3> QED  BY <3>1, <3>2
  <2>2. opc[q] = "send" /\ UNCHANGED flock /\ Still /\ slock' \in [Gateways -> Requests \cup {None}]
    BY <1>3, SessionLock DEF Oa!Unauthorized, Still, Oa!person, Oa!server
  <2> QED  BY <1>0, <1>a, <2>1, <2>2 DEF Still, Goes
<1>4. CASE Oa!ScopeRead(q)
  <2>1. Goes(q, "idle", None) \/ (disk # None /\ Goes(q, "scope", disk))
    <3>1. CASE disk = None
      BY <1>0, <1>4, <3>1, ZenonT(40) DEF Oa!ScopeRead, Oa!Done, Oa!At, Goes, ThreadTypes, Oa!TypeOK
    <3>2. CASE disk # None
      <4>1. Oa!At(q, "scope", None, disk, FALSE)
        BY <1>4, <3>2, Zenon DEF Oa!ScopeRead
      <4> QED  BY <1>0, <3>2, <4>1 DEF Oa!At, Goes, ThreadTypes, Oa!TypeOK
    <3> QED  BY <3>1, <3>2
  <2>2. opc[q] = "send" /\ UNCHANGED flock /\ Still /\ slock' \in [Gateways -> Requests \cup {None}]
    BY <1>4, SessionLock DEF Oa!ScopeRead, Still, Oa!person, Oa!server
  <2> QED  BY <1>0, <1>a, <2>1, <2>2 DEF Still, Goes
<1>5. CASE Oa!ScopeSave(q)
  <2>1. /\ opc[q] = "scope" /\ disk' = record[q] /\ record[q] \in Oa!Record /\ record[q].signIn <= signIns
        /\ behind' = IF record[q].refresh # valid[record[q].signIn] THEN behind \cup {record[q].signIn} ELSE behind
        /\ UNCHANGED <<flock, signIns, signingOut, live, issued, valid, reused, losses>>
        /\ slock' \in [Gateways -> Requests \cup {None}]
    BY <1>5, SessionLock DEF Oa!ScopeSave, Oa!person, Oa!server
  <2>2. Goes(q, "idle", None)
    BY <1>0, <1>5 DEF Oa!ScopeSave, Oa!Done, Oa!At, Goes, ThreadTypes, Oa!TypeOK
  <2>3. record[q].signIn \in Oa!SignIns /\ behind' \subseteq Oa!SignIns /\ behind \subseteq behind'
    BY <2>1 DEF Oa!Record, Oa!TypeOK
  <2>4. Oa!TypeOK'
    BY <2>1, <2>2, <2>3 DEF Oa!TypeOK, ThreadTypes, Goes
  <2>5. \A p \in Requests : InHand(p)'
    BY <2>1, <2>2, <2>3 DEF Goes
  <2>6. OnDisk'
    BY <2>1, <2>3 DEF Goes
  <2> QED  BY <2>1, <2>3, <2>4, <2>5, <2>6
<1>6. CASE Oa!Lock(q)
  <2>1. opc[q] = "lock" /\ flock = None /\ Still
    BY <1>6 DEF Oa!Lock, Still, Oa!person, Oa!server
  <2>2. CASE disk # None /\ Oa!At(q, "post", token[q], disk, again[q]) /\ flock' = q /\ UNCHANGED slock
    <3>1. Goes(q, "post", disk)
      BY <1>0, <2>2 DEF Oa!At, Goes, ThreadTypes, Oa!TypeOK
    <3>2. slock' \in [Gateways -> Requests \cup {None}]
      BY <2>2 DEF Oa!TypeOK
    <3>3. \A p \in Requests : opc[p] \notin {"post", "save"}
      BY <1>0, <2>1
    <3>4. disk \in Oa!Record /\ (disk.signIn \notin behind => disk.refresh = valid[disk.signIn])
      BY <1>0, <2>2, <3>3
    <3>5. \A p \in Requests : InHand(p)'
      BY <1>0, <2>1, <2>2, <3>1, <3>3, <3>4 DEF Still, Goes
    <3> QED  BY <1>a, <2>1, <2>2, <3>1, <3>2, <3>5 DEF Goes
  <2>3. CASE UNCHANGED flock /\ (Oa!NotRefreshed(q) \/ (disk # None /\ Oa!Refreshed(q, disk)))
    BY <1>0, <1>a, <2>1, <2>3, RefreshEnds DEF Still
  <2> QED  BY <1>6, <2>2, <2>3 DEF Oa!Lock
<1>7. CASE Oa!PostOk(q)
  <2>1. PICK new \in Oa!Record : Oa!Grant(record[q], new) /\ Oa!At(q, "save", token[q], new, again[q])
    BY <1>7 DEF Oa!PostOk
  <2> DEFINE s == record[q].signIn
  <2>2. /\ opc[q] = "post" /\ flock = q /\ record[q] \in Oa!Record /\ s \in Oa!SignIns
        /\ UNCHANGED <<disk, flock, slock, signIns, signingOut, live, reused, behind, losses>>
    BY <1>7 DEF Oa!PostOk, Oa!person, Oa!Record, Oa!Grant
  <2>3. /\ new.signIn = s /\ valid' = [valid EXCEPT ![s] = new.refresh] /\ issued' = [issued EXCEPT ![s] = new.access]
        /\ new.refresh \in 0 .. MaxTokens /\ new.access \in 0 .. MaxTokens
    BY <2>1 DEF Oa!Grant, Oa!Record
  <2>4. Goes(q, "save", new)
    BY <1>0, <2>1 DEF Oa!At, Goes, ThreadTypes, Oa!TypeOK
  <2> HIDE DEF s
  <2>5. /\ valid' \in [Oa!SignIns -> 0 .. MaxTokens] /\ issued' \in [Oa!SignIns -> 0 .. MaxTokens]
        /\ valid'[s] = new.refresh /\ \A t \in Oa!SignIns : t # s => valid'[t] = valid[t]
    BY <2>2, <2>3 DEF Oa!TypeOK
  <2>6. Oa!TypeOK'
    BY <2>2, <2>4, <2>5 DEF Oa!TypeOK, ThreadTypes, Goes
  <2>7. \A p \in Requests : InHand(p)'
    <3>1. \A p \in Requests : p # q => opc[p] \notin {"post", "save"}
      BY <2>2
    <3> QED  BY <2>2, <2>3, <2>4, <2>5, <3>1 DEF s, Goes
  <2>8. OnDisk'
    <3> SUFFICES ASSUME disk # None, disk.signIn \notin behind,
                        \A p \in Requests : opc'[p] = "save" => record'[p].signIn # disk.signIn
                 PROVE  disk.refresh = valid'[disk.signIn]
      BY <2>2
    <3>1. disk.signIn # s /\ disk.signIn \in Oa!SignIns
      BY <1>0, <2>3, <2>4 DEF Oa!Record, Goes
    <3>2. \A p \in Requests : opc[p] # "save"
      BY <2>2
    <3> QED  BY <2>5, <3>1, <3>2
  <2> QED  BY <2>2, <2>6, <2>7, <2>8
<1>8. CASE Oa!PostFails(q)
  <2>1. opc[q] = "post" /\ flock = q /\ flock' = None /\ Still
    BY <1>8 DEF Oa!PostFails, Still, Oa!person, Oa!server
  <2> QED  BY <1>0, <1>8, <1>a, <2>1, RefreshEnds DEF Still, Oa!PostFails
<1>9. CASE Oa!PostReused(q)
  <2>1. /\ opc[q] = "post" /\ flock = q /\ flock' = None /\ record[q] \in Oa!Record
        /\ record[q].signIn \in live /\ record[q].refresh # valid[record[q].signIn]
        /\ live' = live \ {record[q].signIn} /\ reused' = reused \cup {record[q].signIn}
        /\ UNCHANGED <<disk, signIns, signingOut, issued, valid, behind, losses>>
    BY <1>9 DEF Oa!PostReused, Oa!InForce, Oa!person
  <2>2. record[q].signIn \in behind
    BY <2>1
  <2>3. /\ ThreadTypes' /\ opc'[q] \in {"idle", "send", "retry"}
        /\ \A p \in Requests : p # q => opc'[p] = opc[p] /\ record'[p] = record[p]
        /\ slock' \in [Gateways -> Requests \cup {None}]
    BY <1>9, RefreshEnds DEF Oa!PostReused
  <2>4. Oa!TypeOK'
    BY <2>1, <2>2, <2>3 DEF Oa!TypeOK, ThreadTypes, Goes
  <2>5. \A p \in Requests : InHand(p)'
    BY <1>0, <2>1, <2>3
  <2>6. OnDisk'
    BY <2>1, <2>3
  <2> QED  BY <2>1, <2>2, <2>4, <2>5, <2>6
<1>10. CASE Oa!PostLost(q)
  <2>1. PICK new \in Oa!Record : Oa!Grant(record[q], new)
    BY <1>10 DEF Oa!PostLost
  <2> DEFINE s == record[q].signIn
  <2>9. losses' \in 0 .. MaxLosses
    BY <1>10, PartsAssumption DEF Oa!PostLost, Oa!TypeOK, Oa!ConstantsOK
  <2>2. /\ opc[q] = "post" /\ flock = q /\ flock' = None /\ record[q] \in Oa!Record /\ s \in Oa!SignIns
        /\ behind' = behind \cup {t \in Oa!SignIns : valid'[t] # valid[t]}
        /\ UNCHANGED <<disk, signIns, signingOut, live, reused>>
    BY <1>10, <2>1 DEF Oa!PostLost, Oa!person, Oa!Record, Oa!Grant
  <2>3. /\ valid' = [valid EXCEPT ![s] = new.refresh] /\ issued' = [issued EXCEPT ![s] = new.access]
        /\ new.refresh \in 0 .. MaxTokens /\ new.access \in 0 .. MaxTokens
    BY <2>1 DEF Oa!Grant, Oa!Record
  <2>4. /\ ThreadTypes' /\ opc'[q] \in {"idle", "send", "retry"}
        /\ \A p \in Requests : p # q => opc'[p] = opc[p] /\ record'[p] = record[p]
        /\ slock' \in [Gateways -> Requests \cup {None}]
    BY <1>10, RefreshEnds DEF Oa!PostLost
  <2> HIDE DEF s
  <2>5. /\ valid' \in [Oa!SignIns -> 0 .. MaxTokens] /\ issued' \in [Oa!SignIns -> 0 .. MaxTokens]
        /\ behind \subseteq behind' /\ behind' \subseteq Oa!SignIns
        /\ \A t \in Oa!SignIns : t \notin behind' => valid'[t] = valid[t]
    BY <2>2, <2>3 DEF Oa!TypeOK
  <2>6. Oa!TypeOK'
    BY <2>2, <2>4, <2>5, <2>9 DEF Oa!TypeOK, ThreadTypes
  <2>7. \A p \in Requests : InHand(p)'
    BY <1>0, <2>2, <2>4, <2>5
  <2>8. OnDisk'
    <3>1. disk # None => disk.signIn \in Oa!SignIns
      BY <1>0 DEF Oa!Record
    <3>2. \A p \in Requests : opc[p] # "save"
      BY <2>2
    <3> QED  BY <2>2, <2>5, <3>1, <3>2
  <2> QED  BY <2>2, <2>5, <2>6, <2>7, <2>8
<1>11. CASE Oa!Save(q)
  <2>1. /\ opc[q] = "save" /\ flock = q /\ flock' = None /\ disk' = record[q] /\ record[q] \in Oa!Record
        /\ record[q].signIn <= signIns
        /\ UNCHANGED <<signIns, signingOut, live, issued, valid, reused, behind, losses>>
    BY <1>11 DEF Oa!Save, Oa!person, Oa!server
  <2>2. /\ ThreadTypes' /\ opc'[q] \in {"idle", "send", "retry"}
        /\ \A p \in Requests : p # q => opc'[p] = opc[p] /\ record'[p] = record[p]
        /\ slock' \in [Gateways -> Requests \cup {None}]
    BY <1>11, <2>1, RefreshEnds DEF Oa!Save
  <2>3. Oa!TypeOK'
    BY <2>1, <2>2 DEF Oa!TypeOK, ThreadTypes
  <2>4. \A p \in Requests : InHand(p)'
    BY <1>0, <2>1, <2>2
  <2>5. OnDisk'
    BY <2>1
  <2> QED  BY <2>1, <2>3, <2>4, <2>5
<1> QED  BY <1>1, <1>2, <1>3, <1>4, <1>5, <1>6, <1>7, <1>8, <1>9, <1>10, <1>11 DEF Oa!Step

\* A gateway is killed with its threads: what was granted is lost, at worst.
LEMMA TokensDie ==
  ASSUME TokensInv, NEW g \in Gateways, Oa!Die(g)
  PROVE  TokensInv'
<1> DEFINE dead == {q \in Requests : GatewayOf[q] = g}
<1>1. /\ flock' = IF flock \in dead THEN None ELSE flock
      /\ opc' = [q \in Requests |-> IF q \in dead THEN "idle" ELSE opc[q]]
      /\ record' = [q \in Requests |-> IF q \in dead THEN None ELSE record[q]]
      /\ behind' = behind \cup {record[q].signIn : q \in {d \in dead : Oa!Unsaved(d)}}
      /\ UNCHANGED <<disk, signIns, signingOut, live, issued, valid, reused>>
  BY Zenon DEF Oa!Die, Oa!person, Oa!server
<1>7. losses' \in 0 .. MaxLosses
  BY PartsAssumption DEF Oa!Die, TokensInv, Oa!TypeOK, Oa!ConstantsOK
<1>2. ThreadTypes' /\ slock' \in [Gateways -> Requests \cup {None}]
  BY DEF Oa!Die, TokensInv, Oa!TypeOK, ThreadTypes
<1>3. behind \subseteq behind' /\ behind' \subseteq Oa!SignIns
  <2>1. \A q \in Requests : Oa!Unsaved(q) => record[q].signIn \in Oa!SignIns
    BY DEF Oa!Unsaved, TokensInv, InHand, Oa!Record
  <2> QED  BY <1>1, <2>1 DEF TokensInv, Oa!TypeOK
<1>4. Oa!TypeOK'
  BY <1>1, <1>2, <1>3, <1>7 DEF TokensInv, Oa!TypeOK, ThreadTypes
<1>5. \A q \in Requests : InHand(q)'
  BY <1>1, <1>3, PartsAssumption DEF TokensInv, InHand, Oa!ConstantsOK
<1>6. OnDisk'
  <2> SUFFICES ASSUME disk # None, disk.signIn \notin behind',
                      \A q \in Requests : opc'[q] = "save" => record'[q].signIn # disk.signIn
               PROVE  disk.refresh = valid[disk.signIn]
    BY <1>1 DEF TokensInv, OnDisk
  <2>1. CASE \E q \in Requests : opc[q] = "save" /\ record[q].signIn = disk.signIn
    <3>1. PICK q \in Requests : opc[q] = "save" /\ record[q].signIn = disk.signIn
      BY <2>1
    <3>2. q \in dead
      BY <1>1, <3>1
    <3>3. ~ Oa!Unsaved(q)
      BY <1>1, <3>1, <3>2
    <3>4. disk.refresh = record[q].refresh /\ record[q].signIn \notin behind
      BY <1>3, <3>1, <3>3 DEF Oa!Unsaved
    <3> QED  BY <3>1, <3>4 DEF TokensInv, InHand
  <2>2. CASE ~ \E q \in Requests : opc[q] = "save" /\ record[q].signIn = disk.signIn
    BY <1>3, <2>2 DEF TokensInv, OnDisk
  <2> QED  BY <2>1, <2>2
<1> QED  BY <1>1, <1>3, <1>4, <1>5, <1>6 DEF TokensInv, Oa!SpentOnce

LEMMA TokensLogin ==
  ASSUME TokensInv, Oa!Login
  PROVE  TokensInv'
<1> DEFINE s == signIns + 1
           rec == [signIn |-> s, access |-> 1, refresh |-> 1]
<1>1. /\ s \in Oa!SignIns /\ signIns' = s /\ live' = live \cup {s} /\ disk' = rec
      /\ issued' = [issued EXCEPT ![s] = 1] /\ valid' = [valid EXCEPT ![s] = 1]
      /\ UNCHANGED <<flock, slock, opc, token, record, again, signingOut, reused, behind, losses>>
  BY DEF Oa!Login, Oa!threadv
<1>2. signIns \in Nat /\ 1 \in 1 .. MaxTokens /\ MaxTokens \in Nat /\ MaxSignIns \in Nat /\ s = signIns + 1
  BY PartsAssumption DEF TokensInv, Oa!TypeOK, Oa!ConstantsOK
<1>3. rec \in Oa!Record /\ rec.signIn = s /\ rec.refresh = 1
  BY <1>1, <1>2 DEF Oa!Record
<1> HIDE DEF s, rec
<1>4. /\ issued' \in [Oa!SignIns -> 0 .. MaxTokens] /\ valid' \in [Oa!SignIns -> 0 .. MaxTokens]
      /\ valid'[s] = 1 /\ \A t \in Oa!SignIns : t # s => valid'[t] = valid[t]
  BY <1>1, <1>2 DEF TokensInv, Oa!TypeOK
<1>5. Oa!TypeOK'
  BY <1>1, <1>2, <1>3, <1>4 DEF TokensInv, Oa!TypeOK, Oa!SignIns
<1>6. \A q \in Requests : InHand(q)'
  <2> SUFFICES ASSUME NEW q \in Requests  PROVE InHand(q)'
    OBVIOUS
  <2>1. opc[q] \in {"lock", "scope", "post", "save"} =>
          record[q] \in Oa!Record /\ record[q].signIn \in Oa!SignIns /\ record[q].signIn <= signIns
          /\ record[q].signIn # s /\ record[q].signIn <= signIns'
    BY <1>1, <1>2 DEF TokensInv, InHand, Oa!Record, Oa!SignIns
  <2> QED  BY <1>1, <1>4, <2>1 DEF TokensInv, InHand
<1>7. OnDisk'
  BY <1>1, <1>2, <1>3, <1>4 DEF OnDisk
<1> QED  BY <1>1, <1>5, <1>6, <1>7 DEF TokensInv, Oa!SpentOnce

LEMMA TokensKept == TokensInv /\ [Oa!Next]_tokensVars => TokensInv'
<1> SUFFICES ASSUME TokensInv, [Oa!Next]_tokensVars PROVE TokensInv'
  OBVIOUS
<1>1. CASE \E q \in Requests : Oa!Step(q)
  BY <1>1, TokensStep
<1>2. CASE \E g \in Gateways : Oa!Die(g)
  BY <1>2, TokensDie
<1>3. CASE Oa!Login
  BY <1>3, TokensLogin
<1> USE DEF TokensInv, InHand, OnDisk, Oa!TypeOK, Oa!SpentOnce, Oa!server, Oa!threadv
<1>4. CASE Oa!LogoutRead       BY <1>4 DEF Oa!LogoutRead, Oa!Record
<1>5. CASE Oa!Logout           BY <1>5 DEF Oa!Logout
<1>6. CASE UNCHANGED tokensVars  BY <1>6 DEF tokensVars
<1> QED  BY <1>1, <1>2, <1>3, <1>4, <1>5, <1>6 DEF Oa!Next

-----------------------------------------------------------------------------
(* ToolPins: what an agent is shown was pinned on first use or approved.   *)

\* The pin is the definition of first use, or one that was approved; the first
\* pin comes once.
PinsInv ==
  /\ Tp!TypeOK
  /\ pin = None => first = None
  /\ pin # None /\ pin.reviewed => pin.def \in excused
  /\ pin # None /\ ~ pin.reviewed => pin.def = first /\ (first \in Poisoned => first \in excused)
  /\ Tp!TrustIsReviewed

LEMMA PinsBegin == Tp!Init => PinsInv
BY PartsAssumption DEF Tp!Init, PinsInv, Tp!TypeOK, Tp!TrustIsReviewed, Tp!ConstantsOK, Tp!Defs

\* The scan keeps its answers.
LEMMA ScanKept ==
  ASSUME Tp!TypeOK, NEW g \in Gateways, NEW flagged \in BOOLEAN, Tp!Scan(g, flagged)
  PROVE  scans' \in [Gateways -> [Poisoned -> {"unknown", "clean", "flagged"}]]
<1> DEFINE Answers == [Poisoned -> {"unknown", "clean", "flagged"}]
           a == IF flagged THEN "flagged" ELSE "clean"
<1>1. CASE def[g] \notin Poisoned
  BY <1>1 DEF Tp!Scan, Tp!TypeOK
<1>2. CASE def[g] \in Poisoned
  <2>1. scans[g] \in Answers /\ scans \in [Gateways -> Answers]
    BY DEF Tp!TypeOK
  <2>2. scans' = [scans EXCEPT ![g] = [scans[g] EXCEPT ![def[g]] = a]]
    BY <1>2 DEF Tp!Scan
  <2>3. [scans[g] EXCEPT ![def[g]] = a] \in Answers
    BY <2>1
  <2> HIDE DEF Answers, a
  <2>4. scans' \in [Gateways -> Answers]
    BY <2>1, <2>2, <2>3
  <2> QED  BY <2>4 DEF Answers
<1> QED  BY <1>1, <1>2

\* A tool is shown or held.
LEMMA ShowKept ==
  ASSUME Tp!TypeOK, NEW g \in Gateways, NEW d \in Definitions, NEW good \in BOOLEAN, Tp!Show(g, d, good)
  PROVE  /\ def' \in [Gateways -> Tp!Defs] /\ shown' \in [Gateways -> Tp!Defs]
         /\ shown'[g] = (IF good THEN d ELSE None) /\ \A k \in Gateways : k # g => shown'[k] = shown[k]
BY DEF Tp!Show, Tp!TypeOK, Tp!Defs

LEMMA PinsKept == PinsInv /\ [Tp!Next]_pinsVars => PinsInv'
<1> SUFFICES ASSUME PinsInv, [Tp!Next]_pinsVars PROVE PinsInv'
  OBVIOUS
<1>0. Poisoned \subseteq Definitions /\ None \notin Definitions /\ None \notin Tp!Pins
  BY PartsAssumption DEF Tp!ConstantsOK
<1> USE DEF PinsInv, Tp!TrustIsReviewed
<1>1. ASSUME NEW g \in Gateways, Tp!List(g)  PROVE PinsInv'
  <2>1. PICK d \in Definitions :
          IF pin # None /\ pin.def = d /\ pin.reviewed THEN Tp!Show(g, d, TRUE)
          ELSE def' = [def EXCEPT ![g] = d] /\ UNCHANGED shown
    BY <1>1 DEF Tp!List
  <2>2. UNCHANGED <<pin, pending, scans, printed, first, excused>>
    BY <1>1 DEF Tp!List, Tp!storev, Tp!histv
  <2>3. CASE pin # None /\ pin.def = d /\ pin.reviewed
    <3>1. Tp!Show(g, d, TRUE)
      BY <2>1, <2>3
    <3> QED  BY <1>0, <2>2, <2>3, <3>1, ShowKept DEF Tp!TypeOK
  <2>4. CASE ~ (pin # None /\ pin.def = d /\ pin.reviewed)
    <3>1. def' = [def EXCEPT ![g] = d] /\ UNCHANGED shown
      BY <2>1, <2>4
    <3> QED  BY <2>2, <3>1 DEF Tp!TypeOK, Tp!Defs
  <2> QED  BY <2>3, <2>4
<1>2. ASSUME NEW g \in Gateways, Tp!Check(g)  PROVE PinsInv'
  <2>1. PICK flagged \in BOOLEAN :
          /\ Tp!Scan(g, flagged) /\ (Tp!Same(g, flagged) \/ Tp!New(g, flagged) \/ Tp!Hold(g, flagged))
          /\ excused' = excused \cup Tp!Overlooked(g, flagged)
    BY <1>2 DEF Tp!Check
  <2>2. def[g] \in Definitions /\ UNCHANGED printed
    BY <1>2 DEF Tp!Check, Tp!TypeOK, Tp!Defs
  <2>3. scans' \in [Gateways -> [Poisoned -> {"unknown", "clean", "flagged"}]]
    BY <2>1, ScanKept
  <2>4. /\ excused \subseteq excused' /\ excused' \subseteq Definitions
        /\ ~ flagged /\ def[g] \in Poisoned => def[g] \in excused'
    BY <2>1, <2>2 DEF Tp!Overlooked, Tp!TypeOK
  <2>5. CASE Tp!Same(g, flagged)
    <3>1. pin # None /\ pin.def = def[g] /\ pending' = None /\ Tp!Show(g, def[g], ~ flagged) /\ UNCHANGED <<pin, first>>
      BY <2>5 DEF Tp!Same
    <3>2. /\ def' \in [Gateways -> Tp!Defs] /\ shown' \in [Gateways -> Tp!Defs]
          /\ shown'[g] = (IF flagged THEN None ELSE def[g]) /\ \A k \in Gateways : k # g => shown'[k] = shown[k]
      BY <2>2, <3>1, ShowKept
    <3> QED  BY <1>0, <2>2, <2>3, <2>4, <3>1, <3>2 DEF Tp!TypeOK, Tp!Defs
  <2>6. CASE Tp!New(g, flagged)
    <3>1. /\ pin = None /\ ~ flagged /\ pin' = [def |-> def[g], reviewed |-> FALSE] /\ pending' = None
          /\ first' = def[g] /\ Tp!Show(g, def[g], TRUE)
      BY <2>6 DEF Tp!New
    <3>2. /\ def' \in [Gateways -> Tp!Defs] /\ shown' \in [Gateways -> Tp!Defs]
          /\ shown'[g] = def[g] /\ \A k \in Gateways : k # g => shown'[k] = shown[k]
      BY <2>2, <3>1, ShowKept
    <3>3. pin' \in Tp!Pins /\ pin'.def = def[g] /\ ~ pin'.reviewed
      BY <2>2, <3>1 DEF Tp!Pins
    <3> QED  BY <1>0, <2>2, <2>3, <2>4, <3>1, <3>2, <3>3 DEF Tp!TypeOK, Tp!Defs
  <2>7. CASE Tp!Hold(g, flagged)
    <3>1. pending' = def[g] /\ Tp!Show(g, def[g], FALSE) /\ UNCHANGED <<pin, first>>
      BY <2>7 DEF Tp!Hold
    <3>2. /\ def' \in [Gateways -> Tp!Defs] /\ shown' \in [Gateways -> Tp!Defs]
          /\ shown'[g] = None /\ \A k \in Gateways : k # g => shown'[k] = shown[k]
      BY <2>2, <3>1, ShowKept
    <3> QED  BY <1>0, <2>2, <2>3, <2>4, <3>1, <3>2 DEF Tp!TypeOK, Tp!Defs
  <2> QED  BY <2>1, <2>5, <2>6, <2>7
<1>3. ASSUME NEW g \in Gateways, Tp!Unavailable(g)  PROVE PinsInv'
  <2>1. PICK flagged \in BOOLEAN :
          /\ Tp!Scan(g, flagged) /\ Tp!Show(g, def[g], ~ flagged)
          /\ excused' = IF flagged THEN excused ELSE excused \cup {def[g]}
    BY <1>3 DEF Tp!Unavailable
  <2>2. def[g] \in Definitions /\ UNCHANGED <<pin, pending, printed, first>>
    BY <1>3 DEF Tp!Unavailable, Tp!TypeOK, Tp!Defs, Tp!storev
  <2>3. scans' \in [Gateways -> [Poisoned -> {"unknown", "clean", "flagged"}]]
    BY <2>1, ScanKept
  <2>4. /\ def' \in [Gateways -> Tp!Defs] /\ shown' \in [Gateways -> Tp!Defs]
        /\ shown'[g] = (IF flagged THEN None ELSE def[g]) /\ \A k \in Gateways : k # g => shown'[k] = shown[k]
    BY <2>1, <2>2, ShowKept
  <2> QED  BY <1>0, <2>1, <2>2, <2>3, <2>4 DEF Tp!TypeOK, Tp!Defs
<1>4. CASE Tp!ReadHeld
  BY <1>4 DEF Tp!ReadHeld, Tp!TypeOK, Tp!storev, Tp!gatev, Tp!histv
<1>5. CASE Tp!ApproveHash \/ Tp!ApproveName
  <2>1. /\ pending \in Definitions /\ pin' = [def |-> pending, reviewed |-> TRUE] /\ pending' = None
        /\ excused' = excused \cup {pending} /\ UNCHANGED <<def, scans, shown, printed, first>>
    BY <1>5 DEF Tp!ApproveHash, Tp!ApproveName, Tp!Fresh, Tp!Pinned, Tp!gatev, Tp!TypeOK, Tp!Defs
  <2>2. pin' \in Tp!Pins /\ pin'.def = pending /\ pin'.reviewed
    BY <2>1 DEF Tp!Pins
  <2> QED  BY <1>0, <2>1, <2>2 DEF Tp!TypeOK, Tp!Defs
<1>6. CASE UNCHANGED pinsVars
  BY <1>6 DEF pinsVars, Tp!TypeOK
<1> QED  BY <1>1, <1>2, <1>3, <1>4, <1>5, <1>6 DEF Tp!Next

-----------------------------------------------------------------------------
(* Session: what is let through never amounts to what the rule forbids.    *)

\* The steps S are covered, one behind the other, by the occurrences H that are before
\* e; the last step by the new tags too, at least one of them.
Steady(S, H, p, e) ==
  \A k \in 1 .. Len(S) - 1 :
    /\ p[k - 1] <= p[k]
    /\ \A t \in S[k] : \E i \in H[t] : p[k - 1] < i /\ i <= p[k] /\ i < e
Covers(S, H, new, e) ==
  /\ S[Len(S)] \cap new # {}
  /\ \E p \in [0 .. Len(S) - 1 -> Nat] :
       /\ p[0] = 0 /\ Steady(S, H, p, e)
       /\ \A t \in S[Len(S)] \ new : \E i \in H[t] : p[Len(S) - 1] < i /\ i < e

LEMMA LeastNumber ==
  ASSUME NEW T \in SUBSET Nat, T # {} PROVE \E n \in T : \A m \in T : n <= m
<1>1. \E x \in T : \A y \in T : ~ (<<y, x>> \in OpToRel(<, Nat))
  BY NatLessThanWellFounded, WFMin
<1>2. \A x, y \in Nat : x < y => <<x, y>> \in OpToRel(<, Nat)
  BY DEF OpToRel
<1>3. PICK x \in T : \A y \in T : ~ (<<y, x>> \in OpToRel(<, Nat))
  BY <1>1
<1>4. \A y \in T : ~ (y < x)
  BY <1>2, <1>3
<1>5. \A y \in T : x <= y
  BY <1>4
<1> QED  BY <1>5

\* More occurrences, and a later event, cover no less.
LEMMA Growth ==
  ASSUME NEW S \in Seq(SUBSET Tags), S # << >>, NEW H, NEW G, NEW new, NEW e \in Nat, NEW f \in Nat, e <= f,
         \A t \in Tags : H[t] \subseteq Nat,
         \A t \in Tags : \A i \in H[t] : i < e => i \in G[t],
         Covers(S, H, new, e)
  PROVE  Covers(S, G, new, f)
<1>1. Len(S) \in Nat /\ Len(S) >= 1 /\ \A k \in 1 .. Len(S) : S[k] \subseteq Tags
  OBVIOUS
<1>2. PICK p \in [0 .. Len(S) - 1 -> Nat] :
        /\ p[0] = 0 /\ Steady(S, H, p, e)
        /\ \A t \in S[Len(S)] \ new : \E i \in H[t] : p[Len(S) - 1] < i /\ i < e
  BY DEF Covers
<1>3. ASSUME NEW k \in 1 .. Len(S) - 1
      PROVE  p[k - 1] <= p[k] /\ \A t \in S[k] : \E i \in G[t] : p[k - 1] < i /\ i <= p[k] /\ i < f
  <2>1. p[k - 1] <= p[k]
    BY <1>2 DEF Steady
  <2>2. ASSUME NEW t \in S[k] PROVE \E i \in G[t] : p[k - 1] < i /\ i <= p[k] /\ i < f
    <3>1. t \in Tags
      BY <1>1
    <3>2. PICK i \in H[t] : p[k - 1] < i /\ i <= p[k] /\ i < e
      BY <1>2 DEF Steady
    <3>3. i \in Nat /\ i \in G[t]
      BY <3>1, <3>2
    <3> QED  BY <3>2, <3>3
  <2> QED  BY <2>1, <2>2
<1>4. ASSUME NEW t \in S[Len(S)] \ new PROVE \E i \in G[t] : p[Len(S) - 1] < i /\ i < f
  <2>1. t \in Tags
    BY <1>1
  <2>2. PICK i \in H[t] : p[Len(S) - 1] < i /\ i < e
    BY <1>2
  <2>3. i \in Nat /\ i \in G[t]
    BY <2>1, <2>2
  <2> QED  BY <2>2, <2>3
<1>5. Steady(S, G, p, f)
  BY <1>3 DEF Steady
<1>6. S[Len(S)] \cap new # {}
  BY DEF Covers
<1> QED  BY <1>2, <1>4, <1>5, <1>6 DEF Covers

LEMMA Smallest ==
  ASSUME NEW T \in SUBSET Nat, T # {} PROVE Se!Min(T) \in T /\ \A m \in T : Se!Min(T) <= m
<1>1. \E n \in T : \A m \in T : n <= m
  BY LeastNumber
<1> QED  BY <1>1 DEF Se!Min

LEMMA Largest ==
  ASSUME NEW T \in SUBSET Nat, T # {}, NEW b \in Nat, \A m \in T : m <= b
  PROVE  Se!Max(T) \in T /\ \A m \in T : m <= Se!Max(T)
<1> DEFINE U == {b - m : m \in T}
<1>1. U \in SUBSET Nat /\ U # {}
  <2>1. \A m \in T : b - m \in Nat
    OBVIOUS
  <2> QED  BY <2>1
<1>2. PICK n \in U : \A u \in U : n <= u
  BY <1>1, LeastNumber
<1>3. PICK x \in T : n = b - x
  BY <1>2
<1>4. \A y \in T : x >= y
  <2> SUFFICES ASSUME NEW y \in T PROVE x >= y
    OBVIOUS
  <2>1. n <= b - y
    BY <1>2
  <2> QED  BY <1>3, <2>1
<1>5. Se!Max(T) \in T /\ \A y \in T : Se!Max(T) >= y
  BY <1>3, <1>4 DEF Se!Max
<1> QED  BY <1>5

\* One step of the walk: where it ends, each tag of the step has occurred, and it ends
\* no later than it must.
LEMMA OneWalk ==
  ASSUME ledger.hist \in [Tags -> SUBSET Nat], NEW step \in SUBSET Tags, NEW c \in Nat, NEW e \in Nat
  PROVE  LET w == Se!Walk(step, c, e)
         IN  /\ w # None => /\ w \in Nat /\ c <= w
                            /\ \A t \in step : \E i \in ledger.hist[t] : c < i /\ i <= w /\ i < e
             /\ \A q \in Nat :
                  c <= q /\ (\A t \in step : \E i \in ledger.hist[t] : c < i /\ i <= q /\ i < e)
                    => w \in Nat /\ w <= q
<1> DEFINE w == Se!Walk(step, c, e)
           O(t) == Se!Occurs(t, c, e)
           S == {c} \cup {Se!Min(O(t)) : t \in step}
<1>1. None \notin Nat
  BY Ids
<1>2. \A t \in step : O(t) \in SUBSET Nat /\ \A i : i \in O(t) <=> i \in ledger.hist[t] /\ c < i /\ i < e
  BY DEF Se!Occurs
<1> HIDE DEF O
<1>3. ASSUME \A t \in step : O(t) # {}
      PROVE  /\ w = Se!Max(S) /\ Se!Max(S) \in S /\ (\A m \in S : m <= Se!Max(S)) /\ S \subseteq Nat
             /\ \A t \in step : Se!Min(O(t)) \in O(t) /\ \A i \in O(t) : Se!Min(O(t)) <= i
  <2>1. \A t \in step : Se!Min(O(t)) \in O(t) /\ \A i \in O(t) : Se!Min(O(t)) <= i
    BY <1>2, <1>3, Smallest
  <2>2. S \in SUBSET Nat /\ S # {} /\ \A m \in S : m <= c + e
    BY <1>2, <2>1
  <2>3. Se!Max(S) \in S /\ \A m \in S : m <= Se!Max(S)
    <3>1. c + e \in Nat
      OBVIOUS
    <3> HIDE DEF S
    <3> QED  BY <2>2, <3>1, Largest
  <2>4. w = Se!Max(S)
    BY <1>1, <1>3 DEF Se!Walk, O
  <2> QED  BY <2>1, <2>2, <2>3, <2>4
<1>4. CASE \E t \in step : O(t) = {}
  <2>1. w = None
    BY <1>4 DEF Se!Walk, O
  <2>2. ASSUME NEW q \in Nat, \A t \in step : \E i \in ledger.hist[t] : c < i /\ i <= q /\ i < e PROVE FALSE
    BY <1>2, <1>4, <2>2
  <2> QED  BY <2>1, <2>2
<1>5. CASE \A t \in step : O(t) # {}
  <2>1. w \in Nat /\ c <= w
    BY <1>3, <1>5
  <2>2. \A t \in step : \E i \in ledger.hist[t] : c < i /\ i <= w /\ i < e
    <3> SUFFICES ASSUME NEW t \in step PROVE \E i \in ledger.hist[t] : c < i /\ i <= w /\ i < e
      OBVIOUS
    <3>1. Se!Min(O(t)) \in O(t) /\ Se!Min(O(t)) \in S
      BY <1>3, <1>5
    <3>2. Se!Min(O(t)) <= w
      BY <1>3, <1>5, <3>1
    <3> QED  BY <1>2, <3>1, <3>2
  <2>3. ASSUME NEW q \in Nat, c <= q, \A t \in step : \E i \in ledger.hist[t] : c < i /\ i <= q /\ i < e
        PROVE  w <= q
    <3>1. ASSUME NEW t \in step PROVE Se!Min(O(t)) <= q
      <4>1. PICK i \in ledger.hist[t] : c < i /\ i <= q /\ i < e
        BY <2>3
      <4>2. i \in O(t)
        BY <1>2, <4>1
      <4>3. Se!Min(O(t)) <= i /\ Se!Min(O(t)) \in Nat /\ i \in Nat
        BY <1>2, <1>3, <1>5, <4>2
      <4> QED  BY <4>1, <4>3
    <3>2. \A m \in S : m <= q
      BY <2>3, <3>1
    <3> QED  BY <1>3, <1>5, <3>2
  <2> QED  BY <2>1, <2>2, <2>3
<1> QED  BY <1>4, <1>5

\* The rule of the session.
LEMMA TheRule ==
  ASSUME SessionInv
  PROVE  LET S == Se!rule.steps
         IN  /\ S \in Seq(SUBSET Tags) /\ S # << >> /\ Len(S) \in Nat /\ Len(S) >= 1
             /\ \A k \in 1 .. Len(S) : S[k] \in SUBSET Tags /\ S[k] # {}
             /\ Se!Last(S) = S[Len(S)] /\ Se!tags \in [SessionCalls -> SUBSET Tags]
<1> DEFINE S == Se!rule.steps
<1>1. S \in Seq((SUBSET Tags) \ {{}}) /\ S # << >> /\ Se!tags \in [SessionCalls -> SUBSET Tags]
  BY PartsAssumption DEF SessionInv, Se!ConstantsOK, Se!rule, Se!tags
<1> HIDE DEF S
<1>2. Len(S) \in Nat /\ Len(S) >= 1 /\ \A k \in 1 .. Len(S) : S[k] \in (SUBSET Tags) \ {{}}
  BY <1>1
<1>3. S \in Seq(SUBSET Tags)
  BY <1>1, <1>2
<1> QED  BY <1>1, <1>2, <1>3 DEF S, Se!Last

\* A walk exists: each place follows from the one before.
LEMMA WalkExists ==
  ASSUME NEW C, NEW a \in C, NEW n \in Nat, NEW W \in [1 .. n -> [C -> C]]
  PROVE  \E g \in [0 .. n -> C] : g[0] = a /\ \A k \in 1 .. n : g[k] = W[k][g[k - 1]]
<1> DEFINE Is(g, m) == g[0] = a /\ \A k \in 1 .. m : g[k] = W[k][g[k - 1]]
           Some(m) == \E g \in [0 .. m -> C] : Is(g, m)
           T == {m \in 0 .. n : ~ Some(m)}
<1>a. SUFFICES ASSUME T # {} PROVE FALSE
  <2>1. ASSUME T = {} PROVE Some(n)
    <3> HIDE DEF Some
    <3> QED  BY <2>1
  <2> QED  BY <2>1
<1>1. PICK m \in T : \A y \in T : m <= y
  <2>1. T \in SUBSET Nat
    OBVIOUS
  <2> HIDE DEF T
  <2> QED  BY <1>a, <2>1, LeastNumber
<1>2. m # 0
  <2> DEFINE g == [k \in 0 .. 0 |-> a]
  <2>1. g \in [0 .. 0 -> C] /\ Is(g, 0)
    OBVIOUS
  <2>2. Some(0)
    <3> HIDE DEF g, Is
    <3> QED  BY <2>1
  <2> HIDE DEF Some
  <2> QED  BY <1>1, <2>2
<1>3. PICK g \in [0 .. m - 1 -> C] : Is(g, m - 1)
  <2> HIDE DEF Some
  <2>1. m \in Nat /\ m - 1 \in 0 .. n /\ m - 1 < m
    BY <1>2
  <2>2. Some(m - 1)
    BY <1>1, <2>1
  <2> USE DEF Some
  <2> HIDE DEF Is
  <2> QED  BY <2>2
<1> DEFINE f == [k \in 0 .. m |-> IF k < m THEN g[k] ELSE W[m][g[m - 1]]]
<1>4. f \in [0 .. m -> C]
  <2>1. m \in 1 .. n /\ m - 1 \in 0 .. m - 1 /\ g[m - 1] \in C
    BY <1>2
  <2>2. W[m][g[m - 1]] \in C
    BY <2>1
  <2> HIDE DEF T
  <2> QED  BY <2>1, <2>2
<1>5. f[0] = a
  BY <1>2, <1>3
<1>6. ASSUME NEW k \in 1 .. m PROVE f[k] = W[k][f[k - 1]]
  <2>1. k - 1 \in 0 .. m - 1 /\ f[k - 1] = g[k - 1]
    OBVIOUS
  <2>2. CASE k < m
    <3>1. k \in 1 .. m - 1 /\ f[k] = g[k]
      BY <2>2
    <3> QED  BY <1>3, <2>1, <3>1
  <2>3. CASE k = m
    BY <2>1, <2>3
  <2> QED  BY <2>2, <2>3, SMTT(30)
<1> HIDE DEF f
<1>7. Some(m)
  BY <1>4, <1>5, <1>6
<1> HIDE DEF Some
<1> QED  BY <1>1, <1>7

\* The cursors are that walk.
LEMMA CursorsWalk ==
  ASSUME SessionInv, NEW new, NEW e \in Nat, Se!Start(new, e) \in Nat
  PROVE  LET c == Se!Cursors(new, e)
             S == Se!rule.steps
         IN  /\ c \in [0 .. Len(S) - 1 -> Nat \cup {None}]
             /\ c[0] = Se!Start(new, e)
             /\ \A k \in 1 .. Len(S) - 1 : c[k] = Se!Walk(S[k], c[k - 1], e)
<1> DEFINE S == Se!rule.steps
           c == Se!Cursors(new, e)
           C == Nat \cup {None}
           a == Se!Start(new, e)
           n == Len(S) - 1
           W == [k \in 1 .. n |-> [x \in C |-> Se!Walk(S[k], x, e)]]
           Is(g) == g = [k \in 0 .. n |-> IF k = 0 THEN a ELSE Se!Walk(S[k], g[k - 1], e)]
<1>1. n \in Nat /\ \A k \in 1 .. n : S[k] \in SUBSET Tags
  BY TheRule
<1>2. W \in [1 .. n -> [C -> C]]
  <2>1. ASSUME NEW k \in 1 .. n, NEW x \in C PROVE Se!Walk(S[k], x, e) \in C
    <3>1. CASE x = None
      BY <3>1 DEF Se!Walk
    <3>2. CASE x \in Nat
      <4>1. ledger.hist \in [Tags -> SUBSET Nat]
        BY DEF SessionInv, N
      <4> HIDE DEF S
      <4> QED  BY <1>1, <3>2, <4>1, OneWalk
    <3> QED  BY <3>1, <3>2
  <2> QED  BY <2>1
<1>3. c = CHOOSE g : Is(g)
  BY DEF Se!Cursors
<1> HIDE DEF S, c, n
<1>4. PICK g \in [0 .. n -> C] : g[0] = a /\ \A k \in 1 .. n : g[k] = W[k][g[k - 1]]
  <2>1. a \in C
    OBVIOUS
  <2> HIDE DEF W, C, a
  <2>2. n \in Nat
    BY <1>1
  <2>3. W \in [1 .. n -> [C -> C]]
    BY <1>2
  <2> QED  BY <2>1, <2>2, <2>3, WalkExists
<1>5. Is(g)
  <2>1. \A k \in 0 .. n : g[k] = IF k = 0 THEN a ELSE Se!Walk(S[k], g[k - 1], e)
    <3> SUFFICES ASSUME NEW k \in 0 .. n, k # 0 PROVE g[k] = Se!Walk(S[k], g[k - 1], e)
      BY <1>4
    <3>1. k \in 1 .. n /\ k - 1 \in 0 .. n
      BY <1>1
    <3> QED  BY <1>4, <3>1
  <2>2. g = [k \in 0 .. n |-> g[k]]
    OBVIOUS
  <2> QED  BY <2>1, <2>2
<1>6. Is(c)
  <2> HIDE DEF Is
  <2> QED  BY <1>3, <1>5
<1>7. c[0] = a /\ \A k \in 1 .. n : c[k] = Se!Walk(S[k], c[k - 1], e)
  BY <1>1, <1>6
<1>8. \A k \in 1 .. n : c[k - 1] \in C => c[k] \in C
  <2> SUFFICES ASSUME NEW k \in 1 .. n, c[k - 1] \in C PROVE c[k] \in C
    OBVIOUS
  <2>1. W[k][c[k - 1]] = Se!Walk(S[k], c[k - 1], e)
    OBVIOUS
  <2> HIDE DEF W, C
  <2>2. W[k][c[k - 1]] \in C
    BY <1>2
  <2> QED  BY <1>7, <2>1, <2>2
<1> HIDE DEF W, C, Is
<1>9. ASSUME NEW k \in 0 .. n, c[k] \notin C PROVE FALSE
  <2> DEFINE T == {q \in 0 .. n : c[q] \notin C}
  <2>1. T \in SUBSET Nat /\ T # {}
    BY <1>1, <1>9
  <2>2. PICK q \in T : \A y \in T : q <= y
    <3> HIDE DEF T
    <3> QED  BY <2>1, LeastNumber
  <2>3. q # 0
    BY <1>7, <2>2 DEF C, a
  <2>4. q \in 1 .. n /\ q - 1 \in 0 .. n /\ q - 1 \notin T
    BY <1>1, <2>2, <2>3
  <2> QED  BY <1>8, <2>2, <2>4
<1>10. c = [k \in 0 .. n |-> c[k]]
  BY <1>6 DEF Is
<1>11. c \in [0 .. n -> C]
  BY <1>9, <1>10
<1> QED  BY <1>7, <1>11 DEF S, n, c, C, a

\* A rule that does not warn is completed exactly when its steps are covered: what the
\* walk over the ledger computes (completes_rules), said without the walk.
THEOREM CompletesIsCovers ==
  ASSUME SessionInv, Se!rule.action # "warn", NEW new, NEW e \in Nat
  PROVE  Se!Completes(new, e) <=> Covers(Se!rule.steps, ledger.hist, new, e)
<1> DEFINE S == Se!rule.steps
           H == ledger.hist
           c == Se!Cursors(new, e)
           n == Len(S) - 1
<1>1. n \in Nat /\ Len(S) - 1 = n /\ \A k \in 1 .. n : S[k] \in SUBSET Tags
  BY TheRule
<1>2. Se!Start(new, e) = 0
  BY DEF Se!Start
<1>3. H \in [Tags -> SUBSET Nat] /\ None \notin Nat
  BY Ids DEF SessionInv
<1>4. /\ c \in [0 .. n -> Nat \cup {None}] /\ c[0] = 0
      /\ \A k \in 1 .. n : c[k] = Se!Walk(S[k], c[k - 1], e)
  <2>1. Se!Start(new, e) \in Nat
    BY <1>2
  <2> QED  BY <1>2, <2>1, CursorsWalk
<1>5. \A k \in 1 .. n : c[k - 1] = None => c[k] = None
  BY <1>4 DEF Se!Walk
<1>6. Se!Completes(new, e) <=> /\ S[Len(S)] \cap new # {} /\ c[n] # None
                               /\ \A t \in S[Len(S)] \ new : \E i \in H[t] : c[n] < i /\ i < e
  BY TheRule DEF Se!Completes, Se!Occurs
<1>7. \A k \in 1 .. n : c[k - 1] \in Nat =>
        /\ c[k] # None => /\ c[k] \in Nat /\ c[k - 1] <= c[k]
                          /\ \A t \in S[k] : \E i \in H[t] : c[k - 1] < i /\ i <= c[k] /\ i < e
        /\ \A q \in Nat :
             c[k - 1] <= q /\ (\A t \in S[k] : \E i \in H[t] : c[k - 1] < i /\ i <= q /\ i < e)
               => c[k] \in Nat /\ c[k] <= q
  <2> SUFFICES ASSUME NEW k \in 1 .. n, c[k - 1] \in Nat
               PROVE  /\ c[k] # None => /\ c[k] \in Nat /\ c[k - 1] <= c[k]
                                        /\ \A t \in S[k] : \E i \in H[t] : c[k - 1] < i /\ i <= c[k] /\ i < e
                      /\ \A q \in Nat :
                           c[k - 1] <= q /\ (\A t \in S[k] : \E i \in H[t] : c[k - 1] < i /\ i <= q /\ i < e)
                             => c[k] \in Nat /\ c[k] <= q
    OBVIOUS
  <2> DEFINE x == c[k - 1]
             step == S[k]
             w == c[k]
  <2>1. x \in Nat /\ step \in SUBSET Tags /\ w = Se!Walk(step, x, e)
    BY <1>1, <1>4
  <2> HIDE DEF x, step, w
  <2>2. /\ w # None => /\ w \in Nat /\ x <= w /\ \A t \in step : \E i \in H[t] : x < i /\ i <= w /\ i < e
        /\ \A q \in Nat : x <= q /\ (\A t \in step : \E i \in H[t] : x < i /\ i <= q /\ i < e)
             => w \in Nat /\ w <= q
    BY <1>3, <2>1, OneWalk
  <2> QED  BY <2>2 DEF x, step, w
<1> HIDE DEF S, H, c, n
<1>8. ASSUME Se!Completes(new, e) PROVE Covers(S, H, new, e)
  <2>1. ASSUME NEW j \in 0 .. n, c[j] = None PROVE FALSE
    <3> DEFINE U == {u \in 0 .. n : c[n - u] = None}
    <3>1. U \in SUBSET Nat /\ U # {}
      <4>1. n - j \in 0 .. n /\ n - (n - j) = j
        BY <1>1, SMTT(30)
      <4>2. n - j \in U
        BY <2>1, <4>1
      <4>3. U \subseteq Nat
        BY <1>1
      <4> QED  BY <4>2, <4>3
    <3>2. PICK u \in U : \A y \in U : u <= y
      <4> HIDE DEF U
      <4> QED  BY <3>1, LeastNumber
    <3>3. u # 0
      BY <1>1, <1>6, <1>8, <3>2
    <3>4. n - u + 1 \in 1 .. n /\ u - 1 \in 0 .. n /\ n - (u - 1) = n - u + 1 /\ (n - u + 1) - 1 = n - u
      BY <1>1, <3>2, <3>3
    <3>5. c[n - (u - 1)] = None
      BY <1>5, <3>2, <3>4
    <3>6. u - 1 \in U /\ ~ (u <= u - 1)
      BY <3>4, <3>5
    <3> QED  BY <3>2, <3>6
  <2>2. c \in [0 .. n -> Nat]
    BY <1>4, <2>1
  <2>3. \A k \in 1 .. n : /\ c[k - 1] <= c[k]
                          /\ \A t \in S[k] : \E i \in H[t] : c[k - 1] < i /\ i <= c[k] /\ i < e
    <3> SUFFICES ASSUME NEW k \in 1 .. n
                 PROVE  /\ c[k - 1] <= c[k]
                        /\ \A t \in S[k] : \E i \in H[t] : c[k - 1] < i /\ i <= c[k] /\ i < e
      OBVIOUS
    <3>1. c[k - 1] \in Nat /\ c[k] # None
      BY <1>1, <1>3, <2>2
    <3> QED  BY <1>7, <3>1
  <2> QED  BY <1>1, <1>4, <1>6, <1>8, <2>2, <2>3 DEF Covers, Steady
<1>9. ASSUME Covers(S, H, new, e) PROVE Se!Completes(new, e)
  <2>1. PICK p \in [0 .. n -> Nat] :
          /\ p[0] = 0
          /\ \A k \in 1 .. n : /\ p[k - 1] <= p[k]
                               /\ \A t \in S[k] : \E i \in H[t] : p[k - 1] < i /\ i <= p[k] /\ i < e
          /\ \A t \in S[Len(S)] \ new : \E i \in H[t] : p[n] < i /\ i < e
    BY <1>1, <1>9 DEF Covers, Steady
  <2> DEFINE Below(k) == c[k] \in Nat /\ c[k] <= p[k]
  <2>2. \A k \in 1 .. n : Below(k - 1) => Below(k)
    <3> SUFFICES ASSUME NEW k \in 1 .. n, Below(k - 1) PROVE Below(k)
      OBVIOUS
    <3>1. k - 1 \in 0 .. n /\ k \in 0 .. n /\ p[k] \in Nat /\ p[k - 1] \in Nat /\ c[k - 1] \in Nat /\ c[k - 1] <= p[k]
      BY <1>1, <2>1
    <3>2. ASSUME NEW t \in S[k] PROVE \E i \in H[t] : c[k - 1] < i /\ i <= p[k] /\ i < e
      <4>1. PICK i \in H[t] : p[k - 1] < i /\ i <= p[k] /\ i < e
        BY <2>1
      <4>2. i \in Nat
        BY <1>1, <1>3, <4>1
      <4> QED  BY <3>1, <4>1, <4>2
    <3> QED  BY <1>7, <3>1, <3>2
  <2>3. Below(0)
    BY <1>1, <1>4, <2>1
  <2> HIDE DEF Below
  <2>4. ASSUME NEW j \in 0 .. n, ~ Below(j) PROVE FALSE
    <3> DEFINE U == {u \in 0 .. n : ~ Below(u)}
    <3>1. U \in SUBSET Nat /\ U # {}
      BY <1>1, <2>4
    <3>2. PICK u \in U : \A y \in U : u <= y
      <4> HIDE DEF U
      <4> QED  BY <3>1, LeastNumber
    <3>3. u \in 1 .. n /\ u - 1 \in 0 .. n /\ u - 1 \notin U
      BY <1>1, <2>3, <3>2
    <3> QED  BY <2>2, <3>2, <3>3
  <2>5. Below(n)
    BY <1>1, <2>4
  <2>6. c[n] \in Nat /\ c[n] <= p[n] /\ p[n] \in Nat /\ c[n] # None
    BY <1>1, <1>3, <2>1, <2>5 DEF Below
  <2>7. ASSUME NEW t \in S[Len(S)] \ new PROVE \E i \in H[t] : c[n] < i /\ i < e
    <3>1. PICK i \in H[t] : p[n] < i /\ i < e
      BY <2>1
    <3>2. t \in Tags /\ i \in Nat
      BY <1>3, <3>1, TheRule DEF S
    <3> QED  BY <2>6, <3>1, <3>2
  <2>8. S[Len(S)] \cap new # {}
    BY <1>9 DEF Covers
  <2> QED  BY <1>6, <2>6, <2>7, <2>8
<1> QED  BY <1>8, <1>9 DEF S, H

\* An enforced rule that blocks, and a ledger with room in the history of every tag.
Enforced == Se!mode = "enforce" /\ Se!rule.action = "block"
Room     == \A t \in Tags : Cardinality(ledger.hist[t]) < HistCap

\* What event i carries: its hook noted it, or would have been stopped by what is noted.
Given(i)    == Se!tags[log[i]]
Noted(i)    == \A t \in Given(i) : i \in ledger.hist[t]
Closes(i)   == Covers(Se!rule.steps, ledger.hist, Given(i), i)
Settled(n)  == \A i \in 1 .. n : Noted(i) \/ Closes(i)
\* A call that was let through, and one that may still be; the events of those.
Through(h)  == outcome[h] = "ran" \/ (spc[h] = "record" /\ ~ done[h])
Unjudged(h) == spc[h] \in {"read", "lock", "analyse", "analyse_record", "save", "judge"}
May(i)      == Through(log[i]) \/ (Unjudged(log[i]) /\ ~ Closes(i))
MayHist     == [t \in Tags |-> {i \in 1 .. N : May(i) /\ t \in Given(i)}]

\* A call is in the log once, where it read.
OrderInv ==
  /\ \A i, j \in 1 .. N : log[i] = log[j] => i = j
  /\ \A i \in 1 .. N : /\ spc[log[i]] # "start"
                       /\ spc[log[i]] \in {"lock", "analyse", "analyse_record", "save", "judge", "record", "persist"}
                            => i <= view[log[i]]
  /\ \A h \in SessionCalls : spc[h] \notin {"done", "dead"} => outcome[h] = "none"

\* What a hook has behind it is settled.
HookJudged(h) ==
  /\ spc[h] \in {"analyse", "analyse_record"} => Settled(at[h])
  /\ spc[h] = "analyse_record" /\ done[h] => Closes(at[h] + 1)
  /\ spc[h] \in {"save", "judge", "record", "persist"} => Settled(view[h])
  /\ spc[h] = "persist" => done[h]
\* No call let through closes the rule with others that are or may be let through.
Passed == \A i \in 1 .. N : Through(log[i]) => Noted(i) /\ ~ Covers(Se!rule.steps, MayHist, Given(i), i)

JudgedInv == Settled(sidecar.events) /\ (\A h \in SessionCalls : HookJudged(h)) /\ Passed

CombinationInv == OrderInv /\ (Enforced /\ Room => JudgedInv)

LEMMA EventFacts ==
  ASSUME SessionInv, NEW i \in 1 .. N
  PROVE  i \in Nat /\ log[i] \in SessionCalls /\ Given(i) \subseteq Tags
<1>1. log[i] \in SessionCalls /\ i \in Nat
  BY DEF SessionInv, N
<1> QED  BY <1>1, TheRule DEF Given

\* A later state: what was noted and what closed the rule still is, and does.
Grew ==
  /\ policy' = policy /\ N' \in Nat /\ N <= N' /\ \A i \in 1 .. N : log'[i] = log[i]
  /\ \A t \in Tags : ledger.hist[t] \subseteq ledger'.hist[t]

LEMMA Later ==
  ASSUME SessionInv, SessionInv', Grew, NEW i \in 1 .. N
  PROVE  /\ i \in 1 .. N' /\ log'[i] = log[i] /\ Given(i)' = Given(i) /\ (Se!rule.steps)' = Se!rule.steps
         /\ (Noted(i) => Noted(i)') /\ (Closes(i) => Closes(i)')
<1>1. /\ i \in Nat /\ Given(i) \subseteq Tags /\ N \in Nat /\ i \in 1 .. N'
  BY EventFacts, LogFits DEF Grew
<1>2. log'[i] = log[i] /\ Given(i)' = Given(i) /\ (Se!rule.steps)' = Se!rule.steps
  BY DEF Grew, Given, Se!tags, Se!rule
<1>3. \A t \in Tags : ledger.hist[t] \subseteq ledger'.hist[t] /\ ledger.hist[t] \subseteq Nat
  BY DEF Grew, SessionInv
<1>4. Noted(i) => Noted(i)'
  BY <1>1, <1>2, <1>3 DEF Noted
<1>5. ASSUME Closes(i) PROVE Closes(i)'
  <2> DEFINE S == Se!rule.steps
             H == ledger.hist
             G == ledger'.hist
             new == Given(i)
  <2>1. S \in Seq(SUBSET Tags) /\ S # << >>
    BY TheRule
  <2>2. Covers(S, H, new, i)
    BY <1>5 DEF Closes
  <2>3. (\A t \in Tags : H[t] \subseteq Nat) /\ \A t \in Tags : \A j \in H[t] : j < i => j \in G[t]
    BY <1>3
  <2> HIDE DEF S, H, G, new
  <2>4. Covers(S, G, new, i)
    BY <1>1, <2>1, <2>2, <2>3, Growth
  <2>5. Closes(i)' <=> Covers((Se!rule.steps)', ledger'.hist, Given(i)', i)
    BY DEF Closes
  <2> QED  BY <1>2, <2>4, <2>5 DEF S, G, new
<1> QED  BY <1>1, <1>2, <1>4, <1>5

LEMMA SettledLater ==
  ASSUME SessionInv, SessionInv', Grew, NEW n \in 0 .. N, Settled(n)
  PROVE  Settled(n)'
<1> SUFFICES ASSUME NEW i \in 1 .. n PROVE Noted(i)' \/ Closes(i)'
  BY DEF Settled
<1>1. i \in 1 .. N /\ (Noted(i) \/ Closes(i))
  BY LogFits DEF Settled
<1> QED  BY <1>1, Later

\* What is behind a hook stays so.
LEMMA OtherHook ==
  ASSUME SessionInv, SessionInv', Grew, NEW h \in SessionCalls, HookJudged(h),
         UNCHANGED <<spc[h], at[h], view[h], done[h]>>
  PROVE  HookJudged(h)'
<1>1. N \in Nat /\ view[h] \in 0 .. N /\ at[h] \in 0 .. N /\ HookInv(h)
  BY HookAt
<1>2. Settled(at[h]) => Settled(at[h])'
  <2> DEFINE n == at[h]
  <2> SUFFICES ASSUME Settled(n) PROVE Settled(n)'
    OBVIOUS
  <2>1. PICK m \in 0 .. N : m = n
    BY <1>1
  <2> HIDE DEF n
  <2>2. Settled(m)
    BY <2>1
  <2>3. Settled(m)' /\ n' = n
    BY <2>2, SettledLater DEF n
  <2> QED  BY <2>1, <2>3 DEF Settled
<1>3. Settled(view[h]) => Settled(view[h])'
  <2> DEFINE n == view[h]
  <2> SUFFICES ASSUME Settled(n) PROVE Settled(n)'
    OBVIOUS
  <2>1. PICK m \in 0 .. N : m = n
    BY <1>1
  <2> HIDE DEF n
  <2>2. Settled(m)
    BY <2>1
  <2>3. Settled(m)' /\ n' = n
    BY <2>2, SettledLater DEF n
  <2> QED  BY <2>1, <2>3 DEF Settled
<1>4. spc[h] = "analyse_record" /\ Closes(at[h] + 1) => Closes(at[h] + 1)'
  <2> SUFFICES ASSUME spc[h] = "analyse_record", Closes(at[h] + 1) PROVE Closes(at[h] + 1)'
    OBVIOUS
  <2>1. PICK e \in 1 .. N : e = at[h] + 1
    BY <1>1 DEF HookInv
  <2>2. Closes(e)
    BY <2>1
  <2>3. Closes(e)'
    BY <2>2, Later
  <2>4. at'[h] + 1 = e
    BY <2>1
  <2> QED  BY <2>3, <2>4 DEF Closes, Given
<1> QED  BY <1>2, <1>3, <1>4 DEF HookJudged

\* Nobody new is let through, and nobody else may be.
LEMMA PassedKept ==
  ASSUME SessionInv, SessionInv', Grew,
         \A i \in 1 .. N : May(i)' => May(i),
         \A i \in 1 .. N : Through(log[i])' => Noted(i) /\ ~ Covers(Se!rule.steps, MayHist, Given(i), i),
         \A i \in N + 1 .. N' : ~ Through(log[i])'
  PROVE  Passed'
<1> SUFFICES ASSUME NEW i \in 1 .. N', Through(log[i])'
             PROVE  Noted(i)' /\ ~ Covers((Se!rule.steps)', MayHist', Given(i)', i)
  BY DEF Passed
<1>1. N \in Nat /\ N' \in Nat /\ N <= N'
  BY LogFits DEF Grew
<1>2. i \in 1 .. N
  BY <1>1
<1>3. Noted(i) /\ ~ Covers(Se!rule.steps, MayHist, Given(i), i)
  BY <1>2
<1>4. ASSUME Covers((Se!rule.steps)', MayHist', Given(i)', i) PROVE FALSE
  <2> DEFINE S == Se!rule.steps
             H == MayHist'
             G == MayHist
             new == Given(i)
  <2>1. S \in Seq(SUBSET Tags) /\ S # << >> /\ i \in Nat
    BY <1>2, TheRule, EventFacts
  <2>2. Covers(S, H, new, i)
    BY <1>2, <1>4, Later
  <2>3. \A t \in Tags : H[t] \subseteq Nat
    BY <1>1 DEF MayHist
  <2>4. \A t \in Tags : \A j \in H[t] : j < i => j \in G[t]
    <3> SUFFICES ASSUME NEW t \in Tags, NEW j \in H[t], j < i PROVE j \in G[t]
      OBVIOUS
    <3>1. j \in 1 .. N' /\ May(j)' /\ t \in Given(j)'
      BY DEF MayHist
    <3>2. j \in 1 .. N
      BY <1>1, <1>2, <3>1
    <3>3. May(j) /\ t \in Given(j)
      BY <3>1, <3>2, Later
    <3> QED  BY <3>2, <3>3 DEF MayHist
  <2> HIDE DEF S, H, G, new
  <2>5. i <= i
    BY <2>1
  <2>6. Covers(S, G, new, i)
    BY <2>1, <2>2, <2>3, <2>4, <2>5, Growth
  <2> QED  BY <1>3, <2>6 DEF S, G, new
<1> QED  BY <1>2, <1>3, <1>4, Later

LEMMA Together ==
  ASSUME SessionInv, SessionInv', JudgedInv, Grew, NEW h \in SessionCalls,
         \A g \in SessionCalls \ {h} : UNCHANGED <<spc[g], at[g], view[g], done[g], outcome[g]>>,
         Settled(sidecar.events)', HookJudged(h)',
         \A i \in 1 .. N : log[i] = h => (Through(h)' => Through(h)) /\ (Unjudged(h)' => Unjudged(h)),
         \A i \in N + 1 .. N' : ~ Through(log[i])'
  PROVE  JudgedInv'
<1>1. ASSUME NEW g \in SessionCalls PROVE HookJudged(g)'
  <2>1. CASE g = h
    BY <2>1
  <2>2. CASE g # h
    <3>1. HookJudged(g) /\ UNCHANGED <<spc[g], at[g], view[g], done[g]>>
      BY <2>2 DEF JudgedInv
    <3> QED  BY <3>1, OtherHook
  <2> QED  BY <2>1, <2>2
<1>2. ASSUME NEW i \in 1 .. N
      PROVE  (Through(log[i])' => Through(log[i])) /\ (May(i)' => May(i))
  <2>1. log[i] \in SessionCalls /\ log'[i] = log[i] /\ (Closes(i) => Closes(i)')
    BY EventFacts, Later
  <2>2. CASE log[i] = h
    BY <2>1, <2>2 DEF May, Through, Unjudged
  <2>3. CASE log[i] # h
    <3>1. UNCHANGED <<spc[log[i]], done[log[i]], outcome[log[i]]>>
      BY <2>1, <2>3
    <3> QED  BY <2>1, <3>1 DEF May, Through, Unjudged
  <2> QED  BY <2>2, <2>3
<1>3. \A i \in 1 .. N : Through(log[i])' => Noted(i) /\ ~ Covers(Se!rule.steps, MayHist, Given(i), i)
  BY <1>2 DEF JudgedInv, Passed
<1>4. Passed'
  BY <1>2, <1>3, PassedKept
<1> QED  BY <1>1, <1>4 DEF JudgedInv

\* A step that leaves the ledger alone, or notes an event in it.
LEMMA RecordGrows ==
  ASSUME SessionInv, Enforced, NEW new \in SUBSET Tags, NEW e, NEW b \in BOOLEAN, Se!Record(new, e, b)
  PROVE  /\ \A t \in Tags : ledger.hist[t] \subseteq ledger'.hist[t]
         /\ Room /\ ~ b => \A t \in new : e \in ledger'.hist[t]
<1>1. CASE UNCHANGED ledger /\ b
  BY <1>1
<1>2. CASE Se!Commit(new, e, FALSE)
  <2>1. ledger'.hist = [t \in Tags |-> IF t \in new THEN Se!Noted(ledger.hist[t], e) ELSE ledger.hist[t]]
    BY <1>2 DEF Se!Commit
  <2>2. \A t \in Tags : ledger.hist[t] \subseteq Se!Noted(ledger.hist[t], e)
    BY DEF Se!Noted
  <2>3. ASSUME Room, NEW t \in Tags PROVE e \in Se!Noted(ledger.hist[t], e)
    <3>1. Cardinality(ledger.hist[t]) < HistCap /\ Cardinality(ledger.hist[t]) \in Nat /\ HistCap \in Nat
      <4>1. IsFiniteSet(ledger.hist[t])
        <5>1. N \in Nat /\ ledger.hist[t] \subseteq 1 .. N
          BY LogFits DEF SessionInv
        <5>2. IsFiniteSet(1 .. N)
          BY <5>1, FS_Interval
        <5> QED  BY <5>1, <5>2, FS_Subset
      <4> QED  BY <2>3, <4>1, FS_CardinalityType, PartsAssumption DEF Room, Se!ConstantsOK
    <3>2. ~ (Se!Cardinality(ledger.hist[t]) >= HistCap)
      BY <3>1, SameCardinality
    <3> QED  BY <3>2 DEF Se!Noted
  <2> QED  BY <2>1, <2>2, <2>3
<1>3. (b /\ UNCHANGED ledger) \/ Se!Commit(new, e, FALSE)
  BY DEF Se!Record, Se!Stops, Enforced
<1> QED  BY <1>1, <1>2, <1>3

\* Where there is room, there was.
LEMMA RoomBefore ==
  ASSUME SessionInv, SessionInv', \A t \in Tags : ledger.hist[t] \subseteq ledger'.hist[t], Room'
  PROVE  Room
<1> SUFFICES ASSUME NEW t \in Tags PROVE Cardinality(ledger.hist[t]) < HistCap
  BY DEF Room
<1>1. N' \in Nat /\ ledger'.hist[t] \subseteq 1 .. N'
  BY DEF SessionInv, N
<1>2. IsFiniteSet(ledger'.hist[t])
  BY <1>1, FS_Interval, FS_Subset
<1>3. IsFiniteSet(ledger.hist[t]) /\ Cardinality(ledger.hist[t]) <= Cardinality(ledger'.hist[t])
  BY <1>2, FS_Subset
<1>4. Cardinality(ledger'.hist[t]) < HistCap
  BY DEF Room
<1>5. HistCap \in Nat /\ Cardinality(ledger.hist[t]) \in Nat /\ Cardinality(ledger'.hist[t]) \in Nat
  BY <1>2, <1>3, FS_CardinalityType, PartsAssumption DEF Se!ConstantsOK
<1> QED  BY <1>3, <1>4, <1>5

LEMMA OrderBegin == Se!Init => OrderInv
BY DEF Se!Init, OrderInv, N

\* A hook goes on with its call, or dies.
LEMMA OrderStep ==
  ASSUME SessionInv, OrderInv, log' = log, NEW h \in SessionCalls, spc[h] # "start",
         NEW l \in SessionPcs \ {"start"}, spc' = [spc EXCEPT ![h] = l],
         \A g \in SessionCalls \ {h} : view'[g] = view[g] /\ outcome'[g] = outcome[g],
         l \notin {"read", "dead", "done"} => view'[h] = N \/ (view'[h] = view[h] /\ spc[h] \notin {"read", "dead", "done"}),
         l \notin {"done", "dead"} => outcome'[h] = "none"
  PROVE  OrderInv'
<1>1. N' = N /\ N \in Nat /\ spc'[h] = l /\ \A g \in SessionCalls \ {h} : spc'[g] = spc[g]
  BY LogFits DEF N, SessionInv
<1>2. \A i, j \in 1 .. N' : log'[i] = log'[j] => i = j
  BY <1>1 DEF OrderInv
<1>3. ASSUME NEW i \in 1 .. N
      PROVE  /\ spc'[log[i]] # "start"
             /\ spc'[log[i]] \in {"lock", "analyse", "analyse_record", "save", "judge", "record", "persist"}
                  => i <= view'[log[i]]
  <2>1. log[i] \in SessionCalls
    BY EventFacts
  <2>2. /\ spc[log[i]] # "start"
        /\ spc[log[i]] \in {"lock", "analyse", "analyse_record", "save", "judge", "record", "persist"}
             => i <= view[log[i]]
    BY DEF OrderInv
  <2>3. CASE log[i] = h
    BY <1>1, <2>2, <2>3 DEF SessionInv, SessionPcs
  <2>4. CASE log[i] # h
    BY <1>1, <2>1, <2>2, <2>4
  <2> QED  BY <2>3, <2>4
<1>4. \A g \in SessionCalls : spc'[g] \notin {"done", "dead"} => outcome'[g] = "none"
  BY <1>1 DEF OrderInv
<1> QED  BY <1>1, <1>2, <1>3, <1>4 DEF OrderInv

LEMMA OrderAppends == ASSUME SessionInv, OrderInv, NEW h \in SessionCalls, Se!AppendEvent(h) PROVE OrderInv'
<1>1. /\ spc[h] = "start" /\ spc' = [spc EXCEPT ![h] = "read"] /\ log' = Append(log, h) /\ UNCHANGED <<view, outcome>>
  BY DEF Se!AppendEvent, Se!Goto
<1>2. /\ N \in Nat /\ N' = N + 1 /\ log'[N + 1] = h /\ \A i \in 1 .. N : log'[i] = log[i] /\ log[i] \in SessionCalls
  BY <1>1 DEF SessionInv, N
<1>3. \A i \in 1 .. N : log[i] # h
  BY <1>1 DEF OrderInv
<1>4. spc'[h] = "read" /\ \A g \in SessionCalls \ {h} : spc'[g] = spc[g]
  BY <1>1 DEF SessionInv
<1>5. \A i, j \in 1 .. N' : log'[i] = log'[j] => i = j
  BY <1>2, <1>3 DEF OrderInv
<1>6. ASSUME NEW i \in 1 .. N'
      PROVE  /\ spc'[log'[i]] # "start"
             /\ spc'[log'[i]] \in {"lock", "analyse", "analyse_record", "save", "judge", "record", "persist"}
                  => i <= view'[log'[i]]
  <2>1. CASE i = N + 1
    BY <1>2, <1>4, <2>1
  <2>2. CASE i \in 1 .. N
    BY <1>1, <1>2, <1>3, <1>4, <2>2 DEF OrderInv
  <2> QED  BY <1>2, <2>1, <2>2
<1>7. \A g \in SessionCalls : spc'[g] \notin {"done", "dead"} => outcome'[g] = "none"
  BY <1>1, <1>4 DEF OrderInv
<1> QED  BY <1>5, <1>6, <1>7 DEF OrderInv

LEMMA OrderKept == ASSUME SessionInv, OrderInv, Se!Next PROVE OrderInv'
<1> PICK h \in SessionCalls :
      \/ Se!AppendEvent(h) \/ Se!ReadEvents(h)
      \/ Se!Analyse(h) \/ Se!AnalyseJudge(h) \/ Se!AnalyseRecord(h) \/ Se!AnalyseEnd(h) \/ Se!Save(h)
      \/ Se!Judge(h) \/ Se!JudgeRecord(h) \/ Se!Persist(h) \/ Se!Die(h)
  BY DEF Se!Next
<1>0. /\ spc[h] \notin {"done", "dead"} => outcome[h] = "none"
      /\ view \in [SessionCalls -> Nat] /\ outcome \in [SessionCalls -> {"none", "ran", "rewritten", "blocked"}]
  BY DEF OrderInv, SessionInv
<1>1. CASE Se!AppendEvent(h)
  BY <1>1, OrderAppends
<1>2. CASE Se!ReadEvents(h)
  <2>1. spc[h] = "read" /\ spc' = [spc EXCEPT ![h] = "lock"] /\ view' = [view EXCEPT ![h] = N] /\ UNCHANGED <<log, outcome>>
    BY <1>2 DEF Se!ReadEvents, Se!Goto, Se!filev, N
  <2> QED  BY <1>0, <2>1, OrderStep DEF SessionPcs
<1>3. CASE Se!Analyse(h)
  <2>1. spc[h] = "lock" /\ spc' = [spc EXCEPT ![h] = "analyse"] /\ UNCHANGED <<view, log, outcome>>
    BY <1>3 DEF Se!Analyse, Se!Goto
  <2> QED  BY <1>0, <2>1, OrderStep DEF SessionPcs
<1>4. CASE Se!AnalyseJudge(h)
  <2>1. spc[h] = "analyse" /\ spc' = [spc EXCEPT ![h] = "analyse_record"] /\ UNCHANGED <<view, log, outcome>>
    BY <1>4 DEF Se!AnalyseJudge, Se!Goto, Se!filev
  <2> QED  BY <1>0, <2>1, OrderStep DEF SessionPcs
<1>5. CASE Se!AnalyseRecord(h)
  <2>1. spc[h] = "analyse_record" /\ spc' = [spc EXCEPT ![h] = "analyse"] /\ UNCHANGED <<view, log, outcome>>
    BY <1>5 DEF Se!AnalyseRecord, Se!Goto
  <2> QED  BY <1>0, <2>1, OrderStep DEF SessionPcs
<1>6. CASE Se!AnalyseEnd(h)
  <2>1. spc[h] = "analyse" /\ spc' = [spc EXCEPT ![h] = "save"] /\ UNCHANGED <<view, log, outcome>>
    BY <1>6 DEF Se!AnalyseEnd, Se!Goto
  <2> QED  BY <1>0, <2>1, OrderStep DEF SessionPcs
<1>7. CASE Se!Save(h)
  <2>1. spc[h] = "save" /\ spc' = [spc EXCEPT ![h] = "judge"] /\ UNCHANGED <<view, log, outcome>>
    BY <1>7 DEF Se!Save, Se!Goto
  <2> QED  BY <1>0, <2>1, OrderStep DEF SessionPcs
<1>8. CASE Se!Judge(h)
  <2>1. spc[h] = "judge" /\ spc' = [spc EXCEPT ![h] = "record"] /\ UNCHANGED <<view, log, outcome>>
    BY <1>8 DEF Se!Judge, Se!Goto, Se!filev
  <2> QED  BY <1>0, <2>1, OrderStep DEF SessionPcs
<1>9. CASE Se!JudgeRecord(h)
  <2>1. /\ spc[h] = "record" /\ spc' = [spc EXCEPT ![h] = IF done[h] THEN "persist" ELSE "done"] /\ UNCHANGED <<view, log>>
        /\ outcome' = [outcome EXCEPT ![h] = IF done[h] THEN "none" ELSE "ran"]
    BY <1>9 DEF Se!JudgeRecord, Se!Goto
  <2>2. CASE done[h]
    BY <1>0, <2>1, <2>2, OrderStep DEF SessionPcs
  <2>3. CASE ~ done[h]
    BY <1>0, <2>1, <2>3, OrderStep DEF SessionPcs
  <2> QED  BY <2>2, <2>3
<1>10. CASE Se!Persist(h)
  <2>1. PICK o : /\ spc[h] = "persist" /\ spc' = [spc EXCEPT ![h] = "done"] /\ UNCHANGED <<view, log>>
                 /\ outcome' = [outcome EXCEPT ![h] = o]
    BY <1>10 DEF Se!Persist, Se!Goto
  <2> QED  BY <1>0, <2>1, OrderStep DEF SessionPcs
<1>11. CASE Se!Die(h)
  <2>1. spc[h] # "start" /\ spc' = [spc EXCEPT ![h] = "dead"] /\ view' = [view EXCEPT ![h] = 0] /\ UNCHANGED <<log, outcome>>
    BY <1>11 DEF Se!Die, Se!Goto
  <2> QED  BY <1>0, <2>1, OrderStep DEF SessionPcs
<1> QED  BY <1>1, <1>2, <1>3, <1>4, <1>5, <1>6, <1>7, <1>8, <1>9, <1>10, <1>11

LEMMA EnforcedSteps == ASSUME Enforced, NEW b \in BOOLEAN PROVE Se!rule.action # "warn" /\ (Se!Stops(b) <=> b)
BY DEF Enforced, Se!Stops

\* A hook whose call is let through, or may be, and the rule that its call closes.
LEMMA JudgedAppends ==
  ASSUME SessionInv, SessionInv', OrderInv, JudgedInv, NEW h \in SessionCalls, Se!AppendEvent(h)
  PROVE  JudgedInv'
<1>1. /\ spc[h] = "start" /\ spc' = [spc EXCEPT ![h] = "read"] /\ log' = Append(log, h)
      /\ UNCHANGED <<policy, ledger, sidecar, view, at, done, outcome>>
  BY DEF Se!AppendEvent, Se!Goto
<1>2. /\ N \in Nat /\ N' = N + 1 /\ log'[N + 1] = h /\ \A i \in 1 .. N : log'[i] = log[i]
  BY <1>1 DEF SessionInv, N
<1>3. Grew
  <2>1. N' \in Nat /\ N <= N' /\ policy' = policy /\ ledger' = ledger
    BY <1>1, <1>2
  <2> QED  BY <1>2, <2>1 DEF Grew
<1>4. \A i \in 1 .. N : log[i] # h
  BY <1>1 DEF OrderInv
<1>5. spc'[h] = "read" /\ outcome'[h] = "none" /\ \A g \in SessionCalls \ {h} : spc'[g] = spc[g]
  BY <1>1 DEF SessionInv, OrderInv
<1>6. Settled(sidecar.events)'
  <2>1. PICK n \in 0 .. N : n = sidecar.events
    BY DEF SessionInv
  <2>2. Settled(n)'
    BY <1>3, <2>1, SettledLater DEF JudgedInv
  <2> QED  BY <1>1, <2>1, <2>2
<1>7. \A i \in N + 1 .. N' : ~ Through(log[i])'
  BY <1>2, <1>5 DEF Through
<1>8. HookJudged(h)'
  BY <1>5 DEF HookJudged
<1> QED  BY <1>1, <1>3, <1>4, <1>5, <1>6, <1>7, <1>8, Together

\* What a step of a hook whose call is in the log has to show.
LEMMA JudgedStep ==
  ASSUME SessionInv, SessionInv', JudgedInv, NEW h \in SessionCalls,
         policy' = policy, log' = log, \A t \in Tags : ledger.hist[t] \subseteq ledger'.hist[t],
         NEW l \in SessionPcs, spc' = [spc EXCEPT ![h] = l],
         \A g \in SessionCalls \ {h} : UNCHANGED <<at[g], view[g], done[g], outcome[g]>>,
         sidecar'.events = sidecar.events \/ Settled(sidecar'.events),
         HookJudged(h)',
         Through(h)' => Through(h), Unjudged(h)' => Unjudged(h)
  PROVE  JudgedInv'
<1>1. N' = N /\ N \in Nat
  BY LogFits DEF N
<1>2. Grew
  BY <1>1 DEF Grew
<1>3. PICK n \in 0 .. N : n = sidecar'.events
  BY <1>1 DEF SessionInv
<1>4. Settled(n)
  BY <1>3 DEF JudgedInv
<1>5. Settled(n)'
  BY <1>2, <1>4, SettledLater
<1>6. Settled(sidecar.events)'
  BY <1>3, <1>5
<1>7. \A g \in SessionCalls \ {h} : UNCHANGED <<spc[g], at[g], view[g], done[g], outcome[g]>>
  BY DEF SessionInv
<1>8. \A i \in N + 1 .. N' : ~ Through(log[i])'
  BY <1>1
<1> QED  BY <1>2, <1>6, <1>7, <1>8, Together

\* Up to the judgement of its own call, and once it is answered, a hook only adds to
\* what is settled.
LEMMA JudgedOnTheWay ==
  ASSUME SessionInv, SessionInv', OrderInv, Enforced, Room, JudgedInv, NEW h \in SessionCalls,
         \/ Se!ReadEvents(h) \/ Se!Analyse(h) \/ Se!AnalyseJudge(h) \/ Se!AnalyseEnd(h) \/ Se!Save(h)
         \/ Se!Persist(h) \/ Se!Die(h)
  PROVE  JudgedInv'
<1>0. /\ HookInv(h) /\ HookJudged(h) /\ N \in Nat /\ view[h] \in 0 .. N /\ at[h] \in 0 .. N
      /\ spc \in [SessionCalls -> SessionPcs] /\ view \in [SessionCalls -> Nat] /\ at \in [SessionCalls -> Nat]
      /\ done \in [SessionCalls -> BOOLEAN] /\ outcome \in [SessionCalls -> {"none", "ran", "rewritten", "blocked"}]
      /\ spc[h] \notin {"done", "dead"} => outcome[h] = "none"
  BY HookAt DEF JudgedInv, SessionInv, OrderInv
<1>1. CASE Se!ReadEvents(h)
  <2>1. /\ spc[h] = "read" /\ spc' = [spc EXCEPT ![h] = "lock"] /\ view' = [view EXCEPT ![h] = N]
        /\ UNCHANGED <<policy, log, ledger, sidecar, at, done, outcome>>
    BY <1>1 DEF Se!ReadEvents, Se!Goto, Se!filev, N
  <2>2. HookJudged(h)' /\ (Through(h)' => Through(h)) /\ Unjudged(h)
    BY <1>0, <2>1 DEF HookJudged, Through, Unjudged
  <2> QED  BY <1>0, <2>1, <2>2, JudgedStep DEF SessionPcs
<1>2. CASE Se!Analyse(h)
  <2>1. /\ spc[h] = "lock" /\ spc' = [spc EXCEPT ![h] = "analyse"]
        /\ at' = [at EXCEPT ![h] = IF sidecar.events <= view[h] THEN sidecar.events ELSE 0]
        /\ UNCHANGED <<policy, log, ledger, sidecar, view, done, outcome>>
    BY <1>2 DEF Se!Analyse, Se!Goto
  <2>2. Settled(at'[h])
    <3>1. Settled(0)
      BY DEF Settled
    <3> QED  BY <1>0, <2>1, <3>1 DEF JudgedInv
  <2>3. Settled(at[h])'
    BY <1>0, <2>1, <2>2 DEF Settled, Noted, Closes, Given, Se!tags, Se!rule
  <2>4. HookJudged(h)' /\ (Through(h)' => Through(h)) /\ Unjudged(h)
    BY <1>0, <2>1, <2>3 DEF HookJudged, Through, Unjudged
  <2> QED  BY <1>0, <2>1, <2>4, JudgedStep DEF SessionPcs
<1>3. CASE Se!AnalyseJudge(h)
  <2>1. /\ spc[h] = "analyse" /\ spc' = [spc EXCEPT ![h] = "analyse_record"] /\ at[h] < view[h]
        /\ done' = [done EXCEPT ![h] = Se!Completes(Se!tags[log[at[h] + 1]], at[h] + 1)]
        /\ UNCHANGED <<policy, log, ledger, sidecar, view, at, outcome>>
    BY <1>3 DEF Se!AnalyseJudge, Se!Goto, Se!filev
  <2>2. PICK e \in 1 .. N : e = at[h] + 1
    BY <1>0, <2>1
  <2>3. done'[h] <=> Closes(e)
    <3>1. done'[h] = Se!Completes(Given(e), e)
      BY <1>0, <2>1, <2>2 DEF Given
    <3>2. Se!Completes(Given(e), e) <=> Covers(Se!rule.steps, ledger.hist, Given(e), e)
      <4>1. Se!rule.action # "warn" /\ e \in Nat
        BY EnforcedSteps, <1>0
      <4> QED  BY <4>1, CompletesIsCovers
    <3> QED  BY <3>1, <3>2 DEF Closes
  <2>4. done'[h] => Closes(at[h] + 1)'
    <3>1. Closes(e) => Closes(e)'
      BY <2>1 DEF Closes, Given, Se!tags, Se!rule
    <3>2. at'[h] + 1 = e
      BY <2>1, <2>2
    <3> QED  BY <2>3, <3>1, <3>2 DEF Closes, Given
  <2>5. Settled(at[h])'
    BY <1>0, <2>1 DEF HookJudged, Settled, Noted, Closes, Given, Se!tags, Se!rule
  <2>6. HookJudged(h)' /\ (Through(h)' => Through(h)) /\ Unjudged(h)
    BY <1>0, <2>1, <2>4, <2>5 DEF HookJudged, Through, Unjudged
  <2> QED  BY <1>0, <2>1, <2>6, JudgedStep DEF SessionPcs
<1>4. CASE Se!AnalyseEnd(h)
  <2>1. /\ spc[h] = "analyse" /\ spc' = [spc EXCEPT ![h] = "save"] /\ at[h] = view[h] /\ sidecar'.events = view[h]
        /\ at' = [at EXCEPT ![h] = 0] /\ done' = [done EXCEPT ![h] = FALSE]
        /\ UNCHANGED <<policy, log, ledger, view, outcome>>
    BY <1>4 DEF Se!AnalyseEnd, Se!Goto
  <2>2. Settled(sidecar'.events)
    BY <1>0, <2>1 DEF HookJudged
  <2>3. Settled(view[h])'
    BY <1>0, <2>1 DEF HookJudged, Settled, Noted, Closes, Given, Se!tags, Se!rule
  <2>4. HookJudged(h)' /\ (Through(h)' => Through(h)) /\ Unjudged(h)
    BY <1>0, <2>1, <2>3 DEF HookJudged, Through, Unjudged
  <2> QED  BY <1>0, <2>1, <2>2, <2>4, JudgedStep DEF SessionPcs
<1>5. CASE Se!Save(h)
  <2>1. /\ spc[h] = "save" /\ spc' = [spc EXCEPT ![h] = "judge"]
        /\ UNCHANGED <<policy, log, ledger, sidecar, view, at, done, outcome>>
    BY <1>5 DEF Se!Save, Se!Goto
  <2>2. Settled(view[h])'
    BY <1>0, <2>1 DEF HookJudged, Settled, Noted, Closes, Given, Se!tags, Se!rule
  <2>3. HookJudged(h)' /\ (Through(h)' => Through(h)) /\ Unjudged(h)
    BY <1>0, <2>1, <2>2 DEF HookJudged, Through, Unjudged
  <2> QED  BY <1>0, <2>1, <2>3, JudgedStep DEF SessionPcs
<1>6. CASE Se!Persist(h)
  <2>1. /\ spc[h] = "persist" /\ spc' = [spc EXCEPT ![h] = "done"]
        /\ UNCHANGED <<policy, log, ledger, sidecar, view, at, done>>
    BY <1>6 DEF Se!Persist, Se!Goto
  <2>2. done[h] /\ Se!Stops(done[h])
    BY <1>0, <2>1, EnforcedSteps DEF HookJudged
  <2>3. outcome' = [outcome EXCEPT ![h] = "blocked"]
    BY <1>6, <2>2 DEF Se!Persist, Enforced
  <2>4. HookJudged(h)' /\ ~ Through(h)' /\ ~ Unjudged(h)'
    BY <1>0, <2>1, <2>3 DEF HookJudged, Through, Unjudged
  <2> QED  BY <1>0, <2>1, <2>3, <2>4, JudgedStep DEF SessionPcs
<1>7. CASE Se!Die(h)
  <2>1. /\ spc' = [spc EXCEPT ![h] = "dead"] /\ view' = [view EXCEPT ![h] = 0] /\ at' = [at EXCEPT ![h] = 0]
        /\ done' = [done EXCEPT ![h] = FALSE] /\ UNCHANGED <<policy, log, ledger, sidecar, outcome>>
    BY <1>7 DEF Se!Die, Se!Goto
  <2>2. HookJudged(h)' /\ (Through(h)' => Through(h)) /\ ~ Unjudged(h)'
    BY <1>0, <2>1 DEF HookJudged, Through, Unjudged
  <2> QED  BY <1>0, <2>1, <2>2, JudgedStep DEF SessionPcs
<1> QED  BY <1>1, <1>2, <1>3, <1>4, <1>5, <1>6, <1>7

\* An event of the analysis is noted, or closes the rule.
LEMMA JudgedAnalyseRecord ==
  ASSUME SessionInv, SessionInv', OrderInv, Enforced, Room, JudgedInv, NEW h \in SessionCalls, Se!AnalyseRecord(h)
  PROVE  JudgedInv'
<1>0. /\ HookInv(h) /\ HookJudged(h) /\ N \in Nat /\ view[h] \in 0 .. N /\ at[h] \in 0 .. N
      /\ spc \in [SessionCalls -> SessionPcs] /\ at \in [SessionCalls -> Nat] /\ done[h] \in BOOLEAN
  BY HookAt DEF JudgedInv, SessionInv
<1>1. /\ spc[h] = "analyse_record" /\ spc' = [spc EXCEPT ![h] = "analyse"] /\ at' = [at EXCEPT ![h] = at[h] + 1]
      /\ Se!Record(Se!tags[log[at[h] + 1]], at[h] + 1, done[h])
      /\ UNCHANGED <<policy, log, sidecar, view, done, outcome>>
  BY DEF Se!AnalyseRecord, Se!Goto
<1>2. PICK e \in 1 .. N : e = at[h] + 1
  BY <1>0, <1>1 DEF HookInv
<1>3. Given(e) \in SUBSET Tags /\ Se!Record(Given(e), e, done[h])
  BY <1>1, <1>2, EventFacts DEF Given
<1>4. /\ \A t \in Tags : ledger.hist[t] \subseteq ledger'.hist[t]
      /\ ~ done[h] => \A t \in Given(e) : e \in ledger'.hist[t]
  BY <1>0, <1>3, RecordGrows, ZenonT(60)
<1>5. N' = N /\ Grew
  BY <1>0, <1>1, <1>4 DEF Grew, N
<1>6. Noted(e)' \/ Closes(e)'
  <2>1. CASE done[h]
    <3>1. Closes(e)
      BY <1>0, <1>1, <1>2, <2>1 DEF HookJudged
    <3> QED  BY <1>5, <3>1, Later
  <2>2. CASE ~ done[h]
    <3>1. Given(e)' = Given(e)
      BY <1>5, Later
    <3> QED  BY <1>4, <2>2, <3>1 DEF Noted
  <2> QED  BY <2>1, <2>2
<1>7. Settled(e)'
  <2>1. PICK n \in 0 .. N : n = at[h]
    BY <1>0
  <2>2. Settled(n)'
    BY <1>0, <1>1, <1>5, <2>1, SettledLater DEF HookJudged
  <2>3. \A i \in 1 .. e : i \in 1 .. n \/ i = e
    BY <1>2, <2>1
  <2> QED  BY <1>6, <2>2, <2>3 DEF Settled
<1>8. Settled(at[h])'
  <2>1. at'[h] = e
    BY <1>0, <1>1, <1>2
  <2> QED  BY <1>7, <2>1
<1>9. HookJudged(h)' /\ (Through(h)' => Through(h)) /\ Unjudged(h)
  BY <1>0, <1>1, <1>8 DEF HookJudged, Through, Unjudged
<1> QED  BY <1>0, <1>1, <1>4, <1>9, JudgedStep DEF SessionPcs

\* A call that is let through is noted.
LEMMA JudgedJudgeRecord ==
  ASSUME SessionInv, SessionInv', OrderInv, Enforced, Room, JudgedInv, NEW h \in SessionCalls, Se!JudgeRecord(h)
  PROVE  JudgedInv'
<1>0. /\ HookJudged(h) /\ N \in Nat /\ view[h] \in 0 .. N
      /\ spc \in [SessionCalls -> SessionPcs] /\ done[h] \in BOOLEAN
      /\ outcome \in [SessionCalls -> {"none", "ran", "rewritten", "blocked"}]
  BY HookAt DEF JudgedInv, SessionInv
<1>1. /\ spc[h] = "record" /\ spc' = [spc EXCEPT ![h] = IF done[h] THEN "persist" ELSE "done"]
      /\ outcome' = [outcome EXCEPT ![h] = IF done[h] THEN "none" ELSE "ran"]
      /\ Se!Record(Se!tags[h], view[h], done[h])
      /\ UNCHANGED <<policy, log, sidecar, view, at, done>>
  BY DEF Se!JudgeRecord, Se!Goto
<1>2. \A t \in Tags : ledger.hist[t] \subseteq ledger'.hist[t]
  <2>1. Se!tags[h] \in SUBSET Tags
    BY TheRule
  <2> QED  BY <1>0, <1>1, <2>1, RecordGrows
<1>3. Settled(view[h])'
  <2>1. PICK n \in 0 .. N : n = view[h]
    BY <1>0
  <2>2. Grew
    BY <1>0, <1>1, <1>2 DEF Grew, N
  <2>3. Settled(n)'
    BY <1>0, <1>1, <2>1, <2>2, SettledLater DEF HookJudged
  <2>4. view'[h] = n
    BY <1>1, <2>1
  <2> QED  BY <2>3, <2>4
<1>4. PICK l \in {"persist", "done"} : spc' = [spc EXCEPT ![h] = l] /\ (l = "persist" <=> done[h])
  BY <1>1
<1>5. HookJudged(h)' /\ (Through(h)' => Through(h)) /\ ~ Unjudged(h)'
  BY <1>0, <1>1, <1>3, <1>4 DEF HookJudged, Through, Unjudged
<1> QED  BY <1>0, <1>1, <1>2, <1>4, <1>5, JudgedStep DEF SessionPcs

\* Judged last of what was read, with everything before it noted that is or may be
\* let through, a call that is let through does not close the rule with those.
LEMMA JudgedJudge ==
  ASSUME SessionInv, SessionInv', OrderInv, Enforced, JudgedInv, NEW h \in SessionCalls, Se!Judge(h)
  PROVE  JudgedInv'
<1> DEFINE v == view[h]
           S == Se!rule.steps
           H == ledger.hist
<1>0. /\ HookJudged(h) /\ HookInv(h) /\ N \in Nat /\ v \in 0 .. N
      /\ spc \in [SessionCalls -> SessionPcs] /\ done \in [SessionCalls -> BOOLEAN] /\ outcome[h] = "none"
  BY HookAt DEF JudgedInv, SessionInv, OrderInv, Se!Judge
<1>1. /\ spc[h] = "judge" /\ spc' = [spc EXCEPT ![h] = "record"]
      /\ done' = [done EXCEPT ![h] = Se!Completes(Se!tags[h], v)]
      /\ UNCHANGED <<policy, log, ledger, sidecar, view, at, outcome>>
  BY DEF Se!Judge, Se!Goto, Se!filev
<1> HIDE DEF v
<1>2. done'[h] <=> Covers(S, H, Se!tags[h], v)
  <2>1. Se!rule.action # "warn" /\ v \in Nat
    BY <1>0, EnforcedSteps
  <2>2. Se!Completes(Se!tags[h], v) <=> Covers(S, H, Se!tags[h], v)
    BY <2>1, CompletesIsCovers
  <2>3. done'[h] = Se!Completes(Se!tags[h], v)
    BY <1>0, <1>1
  <2> QED  BY <2>2, <2>3
<1>3. S \in Seq(SUBSET Tags) /\ S # << >> /\ \A t \in Tags : H[t] \subseteq Nat
  BY TheRule DEF SessionInv
<1>4. Settled(v)
  BY <1>0, <1>1 DEF HookJudged, v
<1>5. N' = N /\ Grew
  BY <1>0, <1>1 DEF Grew, N
<1>6. Settled(view[h])' /\ HookJudged(h)'
  <2>1. PICK n \in 0 .. N : n = view[h]
    BY <1>0 DEF v
  <2>2. Settled(n)'
    BY <1>4, <1>5, <2>1, SettledLater DEF v
  <2>3. Settled(view[h])'
    BY <1>1, <2>1, <2>2
  <2> QED  BY <1>0, <1>1, <2>3 DEF HookJudged
<1> HIDE DEF S, H
<1>7. CASE done'[h]
  <2>1. (Through(h)' => Through(h)) /\ ~ Unjudged(h)'
    BY <1>0, <1>1, <1>7 DEF Through, Unjudged
  <2> QED  BY <1>0, <1>1, <1>6, <2>1, JudgedStep DEF SessionPcs
<1>8. CASE ~ done'[h]
  <2>1. ASSUME NEW i \in 1 .. N, log[i] = h
        PROVE  i \in Nat /\ i <= v /\ Given(i) = Se!tags[h] /\ ~ Closes(i) /\ May(i) /\ Noted(i)
    <3>1. i \in Nat /\ i <= v /\ Given(i) = Se!tags[h]
      BY <1>1, <2>1 DEF OrderInv, Given, v
    <3>2. ASSUME Closes(i) PROVE FALSE
      <4>1. Covers(S, H, Se!tags[h], i)
        BY <3>1, <3>2 DEF Closes, S, H
      <4>2. v \in Nat /\ \A t \in Tags : \A j \in H[t] : j < i => j \in H[t]
        BY <1>0
      <4>3. Covers(S, H, Se!tags[h], v)
        BY <1>3, <3>1, <4>1, <4>2, Growth
      <4> QED  BY <1>2, <1>8, <4>3
    <3>3. May(i)
      BY <1>1, <2>1, <3>2 DEF May, Unjudged
    <3>4. Noted(i)
      BY <1>0, <1>4, <3>1, <3>2 DEF Settled
    <3> QED  BY <3>1, <3>2, <3>3, <3>4
  <2>2. ASSUME NEW i \in 1 .. N, log[i] = h, Covers(S, MayHist, Given(i), i) PROVE FALSE
    <3>1. i \in Nat /\ i <= v /\ Given(i) = Se!tags[h] /\ v \in Nat
      BY <1>0, <2>1, <2>2
    <3>2. \A t \in Tags : MayHist[t] \subseteq Nat
      BY DEF MayHist
    <3>3. \A t \in Tags : \A j \in MayHist[t] : j < i => j \in H[t]
      <4> SUFFICES ASSUME NEW t \in Tags, NEW j \in MayHist[t], j < i PROVE j \in H[t]
        OBVIOUS
      <4>1. j \in 1 .. N /\ May(j) /\ t \in Given(j)
        BY DEF MayHist
      <4>2. j \in 1 .. v
        BY <1>0, <3>1, <4>1
      <4>3. Noted(j)
        BY <1>4, <4>1, <4>2 DEF May, Settled, JudgedInv, Passed
      <4> QED  BY <4>1, <4>3 DEF Noted, H
    <3> DEFINE G == MayHist
               new == Given(i)
    <3> HIDE DEF G, new
    <3>4. Covers(S, G, new, i) /\ (\A t \in Tags : G[t] \subseteq Nat) /\ \A t \in Tags : \A j \in G[t] : j < i => j \in H[t]
      BY <2>2, <3>2, <3>3 DEF G, new
    <3>5. Covers(S, H, new, v)
      BY <1>3, <3>1, <3>4, Growth
    <3> QED  BY <1>2, <1>8, <3>1, <3>5 DEF new
  <2>3. ASSUME NEW i \in 1 .. N
        PROVE  /\ May(i)' => May(i)
               /\ Through(log[i])' => Noted(i) /\ ~ Covers(Se!rule.steps, MayHist, Given(i), i)
    <3>1. log[i] \in SessionCalls /\ log'[i] = log[i] /\ (Closes(i) => Closes(i)')
      BY <1>5, EventFacts, Later
    <3>2. CASE log[i] = h
      <4>1. May(i) /\ Noted(i) /\ ~ Covers(S, MayHist, Given(i), i)
        BY <2>1, <2>2, <3>2
      <4> QED  BY <4>1 DEF S
    <3>3. CASE log[i] # h
      <4>1. UNCHANGED <<spc[log[i]], done[log[i]], outcome[log[i]]>>
        BY <1>0, <1>1, <3>1, <3>3
      <4>2. Through(log[i])' => Through(log[i])
        BY <3>1, <4>1 DEF Through
      <4>3. May(i)' => May(i)
        BY <3>1, <4>1 DEF May, Through, Unjudged
      <4> QED  BY <4>2, <4>3 DEF JudgedInv, Passed
    <3> QED  BY <3>2, <3>3
  <2>4. \A i \in N + 1 .. N' : ~ Through(log[i])'
    BY <1>0, <1>5
  <2>5. Passed'
    BY <1>5, <2>3, <2>4, PassedKept
  <2>6. ASSUME NEW g \in SessionCalls PROVE HookJudged(g)'
    <3>1. CASE g = h
      BY <1>6, <3>1
    <3>2. CASE g # h
      <4>1. HookJudged(g) /\ UNCHANGED <<spc[g], at[g], view[g], done[g]>>
        BY <1>0, <1>1, <3>2 DEF JudgedInv
      <4> QED  BY <1>5, <4>1, OtherHook
    <3> QED  BY <3>1, <3>2
  <2>7. Settled(sidecar.events)'
    <3>1. PICK n \in 0 .. N : n = sidecar.events
      BY DEF SessionInv
    <3>2. Settled(n)'
      BY <1>5, <3>1, SettledLater DEF JudgedInv
    <3> QED  BY <1>1, <3>1, <3>2
  <2> QED  BY <2>5, <2>6, <2>7 DEF JudgedInv
<1> QED  BY <1>7, <1>8

LEMMA CombinationBegin == Se!Init => CombinationInv
<1> SUFFICES ASSUME Se!Init PROVE JudgedInv
  BY OrderBegin DEF CombinationInv
<1>1. N = 0 /\ sidecar.events = 0 /\ \A h \in SessionCalls : spc[h] = "start"
  BY DEF Se!Init, N
<1> QED  BY <1>1 DEF JudgedInv, Settled, HookJudged, Passed

LEMMA CombinationKept ==
  SessionInv /\ SessionInv' /\ CombinationInv /\ [Se!Next]_sessionVars => CombinationInv'
<1> SUFFICES ASSUME SessionInv, SessionInv', CombinationInv, [Se!Next]_sessionVars PROVE CombinationInv'
  OBVIOUS
<1>1. CASE UNCHANGED sessionVars
  BY <1>1 DEF sessionVars, CombinationInv, OrderInv, JudgedInv, Settled, HookJudged, Passed, Noted, Closes, Given,
              Through, Unjudged, May, MayHist, Enforced, Room, N, Se!rule, Se!tags, Se!mode
<1>2. CASE Se!Next
  <2>1. OrderInv /\ OrderInv'
    BY <1>2, OrderKept DEF CombinationInv
  <2>2. ASSUME Enforced', Room' PROVE JudgedInv'
    <3> PICK h \in SessionCalls :
          \/ Se!AppendEvent(h) \/ Se!ReadEvents(h)
          \/ Se!Analyse(h) \/ Se!AnalyseJudge(h) \/ Se!AnalyseRecord(h) \/ Se!AnalyseEnd(h) \/ Se!Save(h)
          \/ Se!Judge(h) \/ Se!JudgeRecord(h) \/ Se!Persist(h) \/ Se!Die(h)
      BY <1>2 DEF Se!Next
    <3>1. policy' = policy
      BY DEF Se!AppendEvent, Se!ReadEvents, Se!Analyse, Se!AnalyseJudge, Se!AnalyseRecord, Se!AnalyseEnd, Se!Save,
             Se!Judge, Se!JudgeRecord, Se!Persist, Se!Die
    <3>2. Enforced
      BY <2>2, <3>1 DEF Enforced, Se!rule, Se!mode
    <3>3. \A t \in Tags : ledger.hist[t] \subseteq ledger'.hist[t]
      <4>1. CASE Se!AnalyseRecord(h) \/ Se!JudgeRecord(h)
        <5>1. done[h] \in BOOLEAN
          BY HookAt
        <5>2. \E new \in SUBSET Tags : \E e : Se!Record(new, e, done[h])
          <6>1. CASE Se!JudgeRecord(h)
            <7>1. Se!tags[h] \in SUBSET Tags /\ Se!Record(Se!tags[h], view[h], done[h])
              BY <6>1, TheRule DEF Se!JudgeRecord
            <7> QED  BY <7>1
          <6>2. CASE Se!AnalyseRecord(h)
            <7>1. spc[h] = "analyse_record" /\ Se!Record(Se!tags[log[at[h] + 1]], at[h] + 1, done[h])
              BY <6>2 DEF Se!AnalyseRecord
            <7>2. at[h] + 1 \in 1 .. N
              BY <7>1, HookAt DEF HookInv
            <7>3. Se!tags[log[at[h] + 1]] \in SUBSET Tags
              BY <7>2, EventFacts DEF Given
            <7> QED  BY <7>1, <7>3
          <6> QED  BY <4>1, <6>1, <6>2
        <5> QED  BY <3>2, <5>1, <5>2, RecordGrows
      <4>2. CASE ~ (Se!AnalyseRecord(h) \/ Se!JudgeRecord(h))
        <5>1. ledger' = ledger
          BY <4>2 DEF Se!AppendEvent, Se!ReadEvents, Se!Analyse, Se!AnalyseJudge, Se!AnalyseEnd, Se!Save,
                      Se!Judge, Se!Persist, Se!Die, Se!filev
        <5> QED  BY <5>1
      <4> QED  BY <4>1, <4>2
    <3>4. Room
      BY <2>2, <3>3, RoomBefore
    <3>5. JudgedInv
      BY <3>2, <3>4 DEF CombinationInv
    <3> QED
      BY <2>1, <3>2, <3>4, <3>5, JudgedAppends, JudgedOnTheWay, JudgedAnalyseRecord, JudgedJudge, JudgedJudgeRecord
  <2> QED  BY <2>1, <2>2 DEF CombinationInv
<1> QED  BY <1>1, <1>2

\* Of steps that are covered one behind the other, the last ends last.
LEMMA EndsLast ==
  ASSUME NEW n \in Nat, NEW p \in [0 .. n -> Nat], \A k \in 1 .. n : p[k - 1] <= p[k], NEW j \in 0 .. n
  PROVE  p[j] <= p[n]
<1> DEFINE U == {u \in 0 .. n : ~ p[n - u] <= p[n]}
<1>1. SUFFICES ASSUME ~ p[j] <= p[n] PROVE FALSE
  OBVIOUS
<1>2. U \in SUBSET Nat /\ U # {}
  <2>1. n - j \in 0 .. n /\ n - (n - j) = j
    OBVIOUS
  <2>2. n - j \in U
    BY <1>1, <2>1
  <2>3. U \subseteq Nat
    OBVIOUS
  <2> QED  BY <2>2, <2>3
<1>3. PICK u \in U : \A y \in U : u <= y
  <2> HIDE DEF U
  <2> QED  BY <1>2, LeastNumber
<1>4. u \in 0 .. n /\ u # 0
  BY <1>3
<1>5. n - u + 1 \in 1 .. n /\ u - 1 \in 0 .. n /\ n - (u - 1) = n - u + 1 /\ (n - u + 1) - 1 = n - u /\ n - u \in 0 .. n
  BY <1>4
<1>6. u - 1 \notin U
  <2>1. ~ (u <= u - 1)
    BY <1>4
  <2> HIDE DEF U
  <2> QED  BY <1>3, <2>1
<1>7. p[n - u + 1] <= p[n] /\ p[n - u] <= p[n - u + 1]
  BY <1>5, <1>6
<1>8. p[n - u] \in Nat /\ p[n - u + 1] \in Nat /\ p[n] \in Nat
  BY <1>5
<1> QED  BY <1>3, <1>7, <1>8

\* The first call with which those let through amount to the rule closes it.
LEMMA NothingAmounts == ASSUME SessionInv, JudgedInv PROVE Se!CombinationHeld
<1> DEFINE ran == {i \in DOMAIN log : outcome[log[i]] = "ran"}
           S == Se!rule.steps
           L == Len(S)
           F == S[L]
<1> SUFFICES ASSUME Se!CoveredBy(ran, ran) PROVE FALSE
  BY DEF Se!CombinationHeld
<1>1. /\ N \in Nat /\ L \in Nat /\ L >= 1 /\ L - 1 \in Nat /\ F # {}
      /\ ran = {i \in 1 .. N : outcome[log[i]] = "ran"}
      /\ \A k \in 1 .. L : S[k] \in SUBSET Tags
  <2>1. DOMAIN log = 1 .. N
    BY DEF SessionInv, N
  <2> QED  BY <2>1, LogFits, TheRule
<1>2. PICK p \in [0 .. L -> 0 .. N] :
        /\ p[0] = 0
        /\ \A k \in 1 .. L :
             /\ p[k - 1] <= p[k]
             /\ \A t \in S[k] : \E i \in ran : p[k - 1] < i /\ i <= p[k] /\ t \in Given(i)
  <2>1. PICK p \in [0 .. L -> 0 .. Len(log)] :
          /\ p[0] = 0
          /\ \A k \in 1 .. L : p[k - 1] <= p[k] /\ S[k] \subseteq Se!Carried(ran, p[k - 1], p[k])
    BY DEF Se!CoveredBy
  <2>2. ASSUME NEW k \in 1 .. L, NEW t \in S[k]
        PROVE  \E i \in ran : p[k - 1] < i /\ i <= p[k] /\ t \in Given(i)
    <3>1. t \in Se!Carried(ran, p[k - 1], p[k])
      BY <2>1
    <3> HIDE DEF ran
    <3> QED  BY <3>1 DEF Se!Carried, Given
  <2>3. \A k \in 1 .. L : p[k - 1] <= p[k]
    BY <2>1
  <2>4. p \in [0 .. L -> 0 .. N] /\ p[0] = 0
    BY <2>1 DEF N
  <2> HIDE DEF ran, S, L, F
  <2> QED  BY <2>2, <2>3, <2>4
<1> DEFINE a == p[L - 1]
           Full(j) == \A t \in F : \E i \in ran : a < i /\ i <= j /\ t \in Given(i)
<1>3. a \in 0 .. N /\ p[L] \in 0 .. N /\ Full(p[L])
  <2>1. L - 1 \in 0 .. L /\ L \in 1 .. L /\ L \in 0 .. L
    BY <1>1
  <2>2. p[L - 1] \in 0 .. N /\ p[L] \in 0 .. N
    BY <1>2, <2>1
  <2>3. \A t \in F : \E i \in ran : p[L - 1] < i /\ i <= p[L] /\ t \in Given(i)
    BY <1>2, <2>1
  <2> QED  BY <2>2, <2>3
<1>4. \A i \in ran : i \in 1 .. N /\ Through(log[i])
  BY <1>1 DEF Through
<1> HIDE DEF ran, S, L, F, a
<1>5. PICK j \in Nat : j <= N /\ Full(j) /\ \A m \in Nat : m < j => ~ Full(m)
  <2> DEFINE T == {m \in 0 .. N : Full(m)}
  <2>1. T \in SUBSET Nat /\ T # {}
    BY <1>1, <1>3
  <2>2. PICK j \in T : \A m \in T : j <= m
    <3> HIDE DEF T
    <3> QED  BY <2>1, LeastNumber
  <2>3. ASSUME NEW m \in Nat, m < j PROVE m \notin T /\ m \in 0 .. N
    <3>1. j \in Nat /\ j <= N
      BY <1>1, <2>2
    <3>2. m \in 0 .. N
      BY <1>1, <2>3, <3>1
    <3> HIDE DEF T
    <3>3. m \notin T
      BY <2>2, <2>3, <3>1
    <3> QED  BY <3>2, <3>3
  <2> HIDE DEF Full
  <2> QED  BY <1>1, <2>2, <2>3
<1>6. \E t \in F : j \in ran /\ a < j /\ t \in Given(j)
  <2> SUFFICES ASSUME \A t \in F : ~ (j \in ran /\ a < j /\ t \in Given(j)) PROVE FALSE
    OBVIOUS
  <2>1. ASSUME NEW t \in F PROVE \E i \in ran : a < i /\ i <= j - 1 /\ t \in Given(i) /\ 1 <= i
    <3>1. PICK i \in ran : a < i /\ i <= j /\ t \in Given(i)
      BY <1>5
    <3>2. i # j /\ i \in 1 .. N
      BY <1>4, <3>1
    <3>3. i <= j - 1 /\ 1 <= i
      BY <1>1, <1>5, <3>1, <3>2
    <3> QED  BY <3>1, <3>3
  <2>2. j - 1 \in Nat
    <3>1. PICK t \in F : TRUE
      BY <1>1
    <3>2. PICK i \in ran : 1 <= i /\ i <= j - 1
      BY <2>1
    <3>3. i \in Nat
      BY <1>4, <3>2
    <3> QED  BY <1>5, <3>2, <3>3
  <2>3. Full(j - 1) /\ j - 1 < j
    BY <1>5, <2>1
  <2> HIDE DEF Full
  <2> QED  BY <1>5, <2>2, <2>3
<1>7. j \in ran /\ a < j /\ F \cap Given(j) # {} /\ j \in 1 .. N /\ Through(log[j])
  BY <1>4, <1>6
<1>8. ASSUME NEW t \in Tags, NEW i \in ran, t \in Given(i) PROVE i \in MayHist[t] /\ i \in Nat
  BY <1>1, <1>4, <1>8 DEF MayHist, May
<1> DEFINE q == [k \in 0 .. L - 1 |-> p[k]]
<1>9. q \in [0 .. L - 1 -> Nat] /\ q[0] = 0 /\ q[L - 1] = a /\ \A k \in 0 .. L - 1 : q[k] = p[k]
  BY <1>1, <1>2 DEF a
<1> HIDE DEF q
<1>10. ASSUME NEW k \in 1 .. L - 1
       PROVE  q[k - 1] <= q[k] /\ q[k] \in Nat /\ k \in 1 .. L /\ k - 1 \in 0 .. L - 1 /\ k \in 0 .. L - 1
  <2>1. k \in 1 .. L /\ k - 1 \in 0 .. L - 1 /\ k \in 0 .. L - 1
    BY <1>1
  <2>2. q[k - 1] = p[k - 1] /\ q[k] = p[k] /\ p[k - 1] <= p[k] /\ q[k] \in Nat
    BY <1>2, <1>9, <2>1
  <2> QED  BY <2>1, <2>2
<1>11. Steady(S, MayHist, q, j)
  <2> SUFFICES ASSUME NEW k \in 1 .. L - 1, NEW t \in S[k]
               PROVE  \E i \in MayHist[t] : q[k - 1] < i /\ i <= q[k] /\ i < j
    BY <1>10 DEF Steady, L
  <2>1. PICK i \in ran : p[k - 1] < i /\ i <= p[k] /\ t \in Given(i)
    BY <1>2, <1>10
  <2>2. i \in MayHist[t] /\ i \in Nat
    BY <1>1, <1>8, <1>10, <2>1
  <2>3. q[k - 1] < i /\ i <= q[k]
    BY <1>9, <1>10, <2>1
  <2>4. q[k] <= a
    <3>1. L - 1 \in Nat /\ \A x \in 1 .. L - 1 : q[x - 1] <= q[x]
      BY <1>1, <1>10
    <3>2. k \in 0 .. L - 1
      BY <1>10
    <3>3. q[k] <= q[L - 1]
      BY <1>9, <3>1, <3>2, EndsLast
    <3> QED  BY <1>9, <3>3
  <2>5. i < j
    <3>1. q[k] \in Nat /\ a \in Nat /\ j \in Nat
      BY <1>3, <1>5, <1>10
    <3> QED  BY <1>7, <2>2, <2>3, <2>4, <3>1
  <2> QED  BY <2>2, <2>3, <2>5
<1>12. ASSUME NEW t \in F \ Given(j) PROVE \E i \in MayHist[t] : q[L - 1] < i /\ i < j
  <2>1. PICK i \in ran : a < i /\ i <= j /\ t \in Given(i)
    BY <1>5
  <2>2. t \in Tags
    BY <1>1 DEF F
  <2>3. i \in MayHist[t] /\ i \in Nat /\ i # j
    BY <1>8, <1>12, <2>1, <2>2
  <2>4. i < j
    BY <1>5, <2>1, <2>3
  <2> QED  BY <1>9, <2>1, <2>3, <2>4
<1>13. Covers(S, MayHist, Given(j), j)
  BY <1>7, <1>9, <1>11, <1>12 DEF Covers, F, L
<1> QED  BY <1>7, <1>13 DEF JudgedInv, Passed, S

-----------------------------------------------------------------------------
(* The composition.                                                        *)

Parts == {"layers", "session", "heartbeat", "cache", "tokens", "pins"}

\* A step of the composition is one of each part or leaves it alone.
LEMMA StoresMove ==
  [StoresNext]_storesVars =>
    /\ [Next]_vars /\ [Se!Next]_sessionVars /\ [He!Next]_heartbeatVars
    /\ [Pc!Next]_cacheVars /\ [Oa!Next]_tokensVars /\ [Tp!Next]_pinsVars
    /\ UNCHANGED focus
BY DEF StoresNext, LayersNext, SessionNext, HeartbeatNext, CacheNext, TokensNext, PinsNext, storesVars

StoresInv ==
  /\ focus \in Parts
  /\ LayersInv /\ SessionInv /\ HeartbeatInv /\ CacheInv /\ TokensInv /\ PinsInv

LEMMA StoresBegin == StoresInit => StoresInv /\ He!CountsOnce!Init
<1> SUFFICES ASSUME StoresInit PROVE StoresInv /\ He!CountsOnce!Init
  OBVIOUS
<1>1. Init /\ Se!Init /\ He!Init /\ Pc!Init /\ Oa!Init /\ Tp!Init /\ focus \in Parts
  BY DEF StoresInit, LayersInit, SessionInit, RestInit, LayersIdle, SessionIdle, OthersInit, Parts
<1> QED
  BY <1>1, ConstantsAssumption, InitLemma, SessionBegin, HeartbeatBegin, CacheBegin, TokensBegin, PinsBegin DEF StoresInv

LEMMA StoresKept == StoresInv /\ [StoresNext]_storesVars => StoresInv'
<1> SUFFICES ASSUME StoresInv, [StoresNext]_storesVars PROVE StoresInv'
  OBVIOUS
<1>1. LayersInv' /\ SessionInv' /\ HeartbeatInv'
  BY StoresMove, ConstantsAssumption, NextLemma, SessionKept, HeartbeatKept DEF StoresInv
<1>2. CacheInv' /\ TokensInv' /\ PinsInv'
  BY StoresMove, CacheKept, TokensKept, PinsKept DEF StoresInv
<1> QED  BY <1>1, <1>2, StoresMove DEF StoresInv

LEMMA StoresInvariant == StoresSpec => []StoresInv
BY StoresBegin, StoresKept, PTL DEF StoresSpec

\* The variables of the part that moves keep their types: among them, no session's
\* rows outgrow its log, no hook goes beyond the events it read and the counter
\* file never beyond its keys.
THEOREM PartsTypeCorrect == StoresSpec => []PartsTypeOK
<1>1. LayersInv => LayersTypeOK
  BY DEF LayersInv
<1>2. CacheInv => Pc!TypeOK
  BY DEF CacheInv
<1>3. TokensInv => Oa!TypeOK
  BY DEF TokensInv
<1>4. PinsInv => Tp!TypeOK
  BY DEF PinsInv
<1>5. StoresInv => PartsTypeOK
  BY <1>1, <1>2, <1>3, <1>4, SessionTypes, HeartbeatTypes DEF StoresInv, PartsTypeOK, Parts
<1> QED  BY <1>5, StoresInvariant, PTL

\* However the hooks' snapshots are reordered and whoever dies in one: the rows
\* stored are the first events of the log (save_session_snapshot).
THEOREM RowsFollowTheLog == StoresSpec => []StoredIsPrefix
<1>1. StoresInv => StoredIsPrefix
  BY RowsArePrefix DEF StoresInv, StoredIsPrefix
<1> QED  BY <1>1, StoresInvariant, PTL

\* The calls that an enforced block rule lets through never amount to what the rule
\* forbids, in the order of the log, however their hooks interleave and whoever
\* dies: as long as no tag has filled its history, behind which nothing is noted
\* (completes_rules and _commit; HistCap is _HIST_CAP).
THEOREM CombinationsAreStopped == StoresSpec => [](Room => CombinationHeld)
<1>1. StoresInit => StoresInv /\ CombinationInv
  <2>1. StoresInit => Se!Init
    BY DEF StoresInit, LayersInit, SessionInit, RestInit, SessionIdle
  <2> QED  BY <2>1, StoresBegin, CombinationBegin
<1>2. (StoresInv /\ CombinationInv) /\ [StoresNext]_storesVars => (StoresInv /\ CombinationInv)'
  <2> SUFFICES ASSUME StoresInv, CombinationInv, [StoresNext]_storesVars PROVE StoresInv' /\ CombinationInv'
    OBVIOUS
  <2>1. StoresInv' /\ [Se!Next]_sessionVars
    BY StoresKept, StoresMove
  <2>2. SessionInv /\ SessionInv'
    BY <2>1 DEF StoresInv
  <2> QED  BY <2>1, <2>2, CombinationKept
<1>3. StoresInv /\ CombinationInv => (Room => CombinationHeld)
  <2> SUFFICES ASSUME StoresInv, CombinationInv, Room PROVE Se!CombinationHeld
    BY DEF CombinationHeld
  <2>1. CASE Enforced
    BY <2>1, NothingAmounts DEF StoresInv, CombinationInv
  <2>2. CASE ~ Enforced
    BY <2>2 DEF Enforced, Se!CombinationHeld
  <2> QED  BY <2>1, <2>2
<1> QED  BY <1>1, <1>2, <1>3, PTL DEF StoresSpec

\* In a session of fewer calls than a history holds there is always room: nothing
\* forbidden is let through at all (_HIST_CAP).
THEOREM ShortSessionsAreStopped ==
  ASSUME Cardinality(SessionCalls) < HistCap PROVE StoresSpec => []CombinationHeld
<1>1. StoresInv => Room
  <2> SUFFICES ASSUME SessionInv, NEW t \in Tags PROVE Cardinality(ledger.hist[t]) < HistCap
    BY DEF StoresInv, Room
  <2>1. N \in Nat /\ N <= Cardinality(SessionCalls) /\ Cardinality(SessionCalls) \in Nat
    BY LogFits, SameCardinality
  <2>2. ledger.hist[t] \subseteq 1 .. N
    BY DEF SessionInv
  <2>3. IsFiniteSet(1 .. N) /\ Cardinality(1 .. N) = N
    BY <2>1, FS_Interval
  <2>4. Cardinality(ledger.hist[t]) <= N /\ Cardinality(ledger.hist[t]) \in Nat
    BY <2>2, <2>3, FS_Subset, FS_CardinalityType
  <2>5. HistCap \in Nat
    BY PartsAssumption DEF Se!ConstantsOK
  <2> QED  BY <2>1, <2>4, <2>5
<1> QED  BY <1>1, StoresInvariant, CombinationsAreStopped, PTL

\* Counts are lost to faults only and never sent twice: the counter file, its lock
\* and the uploads implement the counter (heartbeat.py).
THEOREM CountsOnceOnly == StoresSpec => CountedOnce
<1>1. StoresInv /\ [StoresNext]_storesVars => [focus = "heartbeat" => [He!CountsOnce!Next]_(He!CountsOnce!vars)]_storesVars
  BY StoresMove, HeartbeatKept DEF StoresInv
<1>2. StoresInit => He!CountsOnce!Init
  BY StoresBegin
<1> QED  BY <1>1, <1>2, StoresInvariant, PTL DEF StoresSpec, CountedOnce

\* No hook is left with an old policy that passes for the organization's current
\* one, whatever is killed between the three files (policy_sync.py).
THEOREM CacheIsNeverStuck == StoresSpec => []NeverStuck
<1>1. StoresInv => NeverStuck
  BY CacheAtRest DEF StoresInv, NeverStuck
<1> QED  BY <1>1, StoresInvariant, PTL

\* Gateways and their threads, whoever is killed: a refresh token is spent once,
\* but for a sign-in whose answer was lost (mcp_oauth.py).
THEOREM RefreshSpentOnce == StoresSpec => []SpentOnce
<1>1. StoresInv => SpentOnce
  BY DEF StoresInv, TokensInv, SpentOnce, Oa!SpentOnce
<1> QED  BY <1>1, StoresInvariant, PTL

\* What an agent is shown of a tool was pinned on first use or approved, whatever
\* the server changes between the scan and the list (mcp_gateway.py).
THEOREM ShownIsReviewed == StoresSpec => []TrustIsReviewed
<1>1. StoresInv => TrustIsReviewed
  BY DEF StoresInv, PinsInv, TrustIsReviewed, Tp!TrustIsReviewed
<1> QED  BY <1>1, StoresInvariant, PTL

=============================================================================
