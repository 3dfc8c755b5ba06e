-------------------------------- MODULE MCStores --------------------------------
(***************************************************************************)
(* Stores for TLC.                                                         *)
(***************************************************************************)
EXTENDS Stores, TLC

CONSTANTS
  h1, h2,                      \* processes of this device
  e1, e2, e3, u, c, x,         \* calls of a session, tags
  n1, n2, f1, f2, r1, r2, r3,    \* agent instances, frameworks, inspected calls
  b1,                          \* what a release carries besides its version
  d1, d2, d3                   \* definitions of a tool

MCHooks    == {h1, h2}
HooksAlike == Permutations(MCHooks)

-----------------------------------------------------------------------------
(* Layers: what one file says of the rule, and of the settings.            *)

NoEntry    == [enabled |-> "absent", action |-> "absent", mode |-> "absent", category |-> "absent",
               patterns |-> "absent", disables |-> FALSE, narrows |-> FALSE]
NoSettings == [selection |-> "absent", device |-> "absent", default |-> "absent"]
MCEntries  ==
  { NoEntry, [NoEntry EXCEPT !.enabled = "off"], [NoEntry EXCEPT !.enabled = "on"],
    [NoEntry EXCEPT !.action = "warn", !.mode = "observe"], [NoEntry EXCEPT !.mode = "enforce", !.category = "core"],
    [NoEntry EXCEPT !.category = "other", !.narrows = TRUE], [NoEntry EXCEPT !.patterns = "replaced"],
    [NoEntry EXCEPT !.disables = TRUE, !.enabled = "on"] }
MCSettings ==
  { NoSettings, [NoSettings EXCEPT !.selection = "explicit", !.default = "observe"],
    [NoSettings EXCEPT !.device = "observe"], [NoSettings EXCEPT !.device = "enforce"],
    [NoSettings EXCEPT !.default = "enforce"] }
MCLayers == [rule : MCEntries, settings : MCSettings, badRate : {FALSE}]
              \cup {[rule |-> NoEntry, settings |-> NoSettings, badRate |-> TRUE]}
MCSites  == [system : BOOLEAN, allowProject : BOOLEAN, managed : BOOLEAN]

-----------------------------------------------------------------------------
(* Tag rules: their steps and action, their mode, and the tags of e1 to e3. *)

MCPolicy(steps, action, m, t1, t2, t3) ==
  [rule |-> [steps |-> steps, action |-> action], mode |-> m, tags |-> (e1 :> t1 @@ e2 :> t2 @@ e3 :> t3)]
MCPolicies ==
  { MCPolicy(<<{u, c}>>, "block", "enforce", {u}, {c}, {c}),
    MCPolicy(<<{u, c}>>, "block", "enforce", {u}, {u, c}, {}),
    MCPolicy(<<{u}, {c}>>, "block", "enforce", {u}, {u}, {c}),
    MCPolicy(<<{u}, {c}>>, "block", "enforce", {u}, {u, c}, {c}),
    MCPolicy(<<{u}, {x}, {c}>>, "block", "enforce", {u}, {x}, {x, c}),
    MCPolicy(<<{u}, {c}>>, "warn", "enforce", {u}, {c}, {c}),
    MCPolicy(<<{u, c}>>, "redact", "enforce", {u}, {c}, {}),
    MCPolicy(<<{u, c}>>, "block", "observe", {u}, {c}, {}) }

MCSessionCalls == {e1, e2, e3}
MCTags         == {u, c, x}

-----------------------------------------------------------------------------
\* Two named agent instances of two frameworks, and a call of no name; one key
\* before the overflow, so that a file may hold three.
MCCalls       == {r1, r2, r3}
MCNameOf      == r1 :> n1 @@ r2 :> n2 @@ r3 :> f1
MCFrameworkOf == r1 :> f1 @@ r2 :> f2 @@ r3 :> f1

\* A new version, then other settings under the same version.
MCReleases == << [version |-> 1, block |-> NoBlock], [version |-> 2, block |-> NoBlock],
                 [version |-> 2, block |-> b1] >>

\* Two gateways, one request at a time.
MCGatewayOf == [h \in MCHooks |-> h]

\* Three definitions of a tool, one of which the scan flags.
MCDefinitions == {d1, d2, d3}
MCPoisoned    == {d3}

=============================================================================
