----------------------------- MODULE PolicyLayers -----------------------------
(***************************************************************************)
(* Loading a policy (prismor/runtime/policy_engine.py): the layers that    *)
(* override the shipped rules, one after the other, and what becomes of    *)
(* one shipped rule.                                                       *)
(*                                                                         *)
(* What a file says is read anew by every load and anybody may write it,   *)
(* so a layer is any of Layers.  An invalid user or project file falls     *)
(* back to the last version that parsed, which is another of Layers, or to *)
(* nothing.                                                                *)
(***************************************************************************)
EXTENDS Naturals

CONSTANTS
  Layers,        \* what a layer may say
  Sites          \* [system, allowProject, managed] of the workspace

Maybe(S) == S \cup {"absent"}
Modes    == {"observe", "enforce"}

\* What a layer says of the rule (disables: it has disable_patterns; narrows: a
\* `when` or a `condition`) and the settings that bear on it.
EntryType == [enabled : Maybe({"on", "off"}), action : Maybe({"block", "warn"}), mode : Maybe(Modes),
              category : Maybe({"core", "other"}), patterns : Maybe({"replaced"}),
              disables : BOOLEAN, narrows : BOOLEAN]
SettingsType == [selection : Maybe({"explicit", "other"}), device : Maybe(Modes), default : Maybe(Modes)]
LayerType == [rule : EntryType, settings : SettingsType, badRate : BOOLEAN]

ASSUME ConstantsAssumption ==
  /\ Layers \subseteq LayerType
  /\ Sites \subseteq [system : BOOLEAN, allowProject : BOOLEAN, managed : BOOLEAN]

VARIABLES
  kind,          \* why the shipped rule is protected, if it is
  shipped,       \* its shipped action
  off,           \* it is in floor-off.json
  site,
  pc,            \* the layer to be merged next
  rule,          \* rules_by_id[id]
  settings,
  meta,          \* an organization's layer was merged (remote_policy_meta, which may
                 \* be empty, is looked at only where there is no such layer)
  compiled       \* the CompiledRule and its mode

vars == <<kind, shipped, off, site, pc, rule, settings, meta, compiled>>

\* self: in _SELF_PROTECTION_RULE_IDS; listed: only in _NON_OVERRIDABLE_RULE_IDS;
\* core: by its category only.
Kinds  == {"self", "listed", "core", "plain"}
Listed == {"self", "listed"}
\* The shipped categories: security_bypass for the self-protection rules.
ShippedCategory(k) == IF k \in {"listed", "core"} THEN "core" ELSE "other"

Init ==
  /\ kind \in Kinds /\ shipped \in {"block", "warn"} /\ off \in BOOLEAN /\ site \in Sites
  /\ pc = "user"
  /\ rule = [enabled |-> TRUE, action |-> shipped, mode |-> "absent", category |-> ShippedCategory(kind),
             patterns |-> "shipped", disables |-> FALSE, narrows |-> FALSE]
  /\ settings = [selection |-> "absent", device |-> "absent", default |-> "absent"]
  /\ meta = FALSE
  /\ compiled = [present |-> FALSE, whole |-> FALSE, action |-> shipped, mode |-> "observe"]

-----------------------------------------------------------------------------
(* _apply_override().                                                      *)

Wins(new, old) == IF new = "absent" THEN old ELSE new

\* is_floor_protected_rule(), of the rule as merged so far.
\* Mutant: only the core categories protect.
FloorByCategory(r) == r.category = "core"
Floor(r) == kind \in Listed \/ r.category = "core"

MergeEntry(r, e) ==
  [enabled  |-> IF e.enabled = "absent" THEN r.enabled ELSE e.enabled = "on",
   action   |-> Wins(e.action, r.action),
   mode     |-> Wins(e.mode, r.mode),
   category |-> Wins(e.category, r.category),
   patterns |-> Wins(e.patterns, r.patterns),
   disables |-> r.disables \/ e.disables,
   narrows  |-> r.narrows \/ e.narrows]

\* A floor rule that is to be disabled is left alone; what else is said of it
\* keeps it enabled, its patterns and its action.
MergeFloor(r, e) ==
  IF e.enabled = "off" THEN r
  ELSE [enabled |-> TRUE, action |-> r.action, mode |-> Wins(e.mode, r.mode),
        category |-> Wins(e.category, r.category), patterns |-> r.patterns,
        disables |-> FALSE, narrows |-> r.narrows \/ e.narrows]

MergeRule(r, e) == IF Floor(r) THEN MergeFloor(r, e) ELSE MergeEntry(r, e)

\* selection counts from local layers only, device_mode: observe from the org's.
MergeDevice(old, new, source) == IF new = "observe" /\ source # "remote" THEN old ELSE Wins(new, old)
MergeSettings(old, new, source) ==
  [selection |-> IF source \in {"project", "user", "system"} THEN Wins(new.selection, old.selection)
                 ELSE old.selection,
   device    |-> MergeDevice(old.device, new.device, source),
   default   |-> Wins(new.default, old.default)]

\* A layer with an invalid rate_limit is rejected whole.
ApplyOverride(l, source) ==
  /\ rule'     = IF l.badRate THEN rule ELSE MergeRule(rule, l.rule)
  /\ settings' = IF l.badRate THEN settings ELSE MergeSettings(settings, l.settings, source)

-----------------------------------------------------------------------------
(* _load(): one action for each layer.                                     *)

Skip(next) == pc' = next /\ UNCHANGED <<kind, shipped, off, site, rule, settings, meta, compiled>>

\* ~/.prismor/policy.yaml, or /etc/prismor's on a system install.
LoadUser ==
  /\ pc = "user"
  /\ \/ Skip("project")
     \/ \E l \in Layers :
          /\ ~ l.badRate
          /\ ApplyOverride(l, IF site.system THEN "system" ELSE "user")
          /\ pc' = "project" /\ UNCHANGED <<kind, shipped, off, site, meta, compiled>>

\* The workspace's .prismor/policy.yaml; a system install may not admit it.
LoadProject ==
  /\ pc = "project"
  /\ \/ Skip("remote")
     \/ /\ site.system => site.allowProject
        /\ \E l \in Layers :
             /\ ~ l.badRate
             /\ ApplyOverride(l, "project")
             /\ pc' = "remote" /\ UNCHANGED <<kind, shipped, off, site, meta, compiled>>

\* The organization's policy, in a managed workspace and if it verifies.
LoadRemote ==
  /\ pc = "remote"
  /\ \/ Skip("exemption")
     \/ /\ site.managed
        /\ \E l \in Layers : ApplyOverride(l, "remote")
        /\ meta' = TRUE
        /\ pc' = "exemption" /\ UNCHANGED <<kind, shipped, off, site, compiled>>

\* The overlay of an exemption the settings grant this repository.
LoadExemption ==
  /\ pc = "exemption"
  /\ \/ Skip("compile")
     \/ /\ site.managed
        /\ \E l \in Layers : ApplyOverride(l, "exemption")
        /\ pc' = "compile" /\ UNCHANGED <<kind, shipped, off, site, meta, compiled>>

Explicit == settings.selection = "explicit" /\ ~ site.managed /\ ~ meta

\* CompiledRule: a core rule is narrowed by no `when` and no `condition`.
Whole(r) == r.patterns = "shipped" /\ ~ r.disables /\ (r.narrows => Floor(r))

\* explain_mode(); a shipped rule is never warn_only.
Mode(r) ==
  IF kind = "self" \/ (r.action = "block" /\ Floor(r) /\ ~ Explicit) THEN "enforce"
  ELSE IF settings.device # "absent" THEN settings.device
  ELSE IF r.mode # "absent" THEN r.mode
  ELSE Wins(settings.default, "observe")

\* floor_off is the user's own, never the organization's rules or Prismor's own
\* protection.
FloorOff == off /\ kind # "self" /\ ~ site.managed /\ ~ meta

Compile ==
  /\ pc = "compile" /\ pc' = "done"
  /\ compiled' = [present |-> rule.enabled /\ ~ FloorOff, whole |-> Whole(rule),
                  action |-> rule.action, mode |-> Mode(rule)]
  /\ UNCHANGED <<kind, shipped, off, site, rule, settings, meta>>

Next == LoadUser \/ LoadProject \/ LoadRemote \/ LoadExemption \/ Compile

Spec == Init /\ [][Next]_vars

-----------------------------------------------------------------------------
RuleType == [enabled : BOOLEAN, action : {"block", "warn"}, mode : Maybe(Modes), category : {"core", "other"},
             patterns : {"shipped", "replaced"}, disables : BOOLEAN, narrows : BOOLEAN]

\* Types of a policy under construction.
LayersTypeOK ==
  /\ kind \in Kinds /\ shipped \in {"block", "warn"} /\ off \in BOOLEAN /\ site \in Sites
  /\ pc \in {"user", "project", "remote", "exemption", "compile", "done"}
  /\ rule \in RuleType /\ settings \in SettingsType /\ meta \in BOOLEAN
  /\ compiled \in [present : BOOLEAN, whole : BOOLEAN, action : {"block", "warn"}, mode : Modes]

\* "no override -- local project *or* signed remote -- may disable or weaken a
\* core rule" (policy_engine.py:1559): whatever every layer says, a hand-listed
\* rule compiles, with its shipped patterns and action, and blocks; a rule of
\* the floor that does not protect Prismor itself gives way only to the
\* operator's own selection or password, where no organization is in charge.
FloorHolds ==
  (pc = "done" /\ kind \in Listed) =>
     LET own == kind # "self" /\ ~ site.managed
     IN  \/ own /\ off
         \/ /\ compiled.present /\ compiled.whole /\ compiled.action = shipped
            /\ (shipped = "block" => (compiled.mode = "enforce" \/ (own /\ settings.selection = "explicit")))
            /\ (kind = "self" => compiled.mode = "enforce")

\* Only the organization sets a device to observe: without its layer a rule
\* whose own mode is to enforce does so, whatever the files of the repository
\* say of the device.
DeviceIsTheConsoles ==
  (pc = "done" /\ ~ meta /\ rule.mode = "enforce") => compiled.mode = "enforce"

=============================================================================
