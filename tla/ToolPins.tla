-------------------------------- MODULE ToolPins --------------------------------
(***************************************************************************)
(* Pins of MCP tool definitions (prismor/runtime/mcp_tool_pins.py), as     *)
(* gateways in enforce mode list a server's tools (mcp_gateway.py) and a   *)
(* person reviews what they hold.  One tool of one server; its definition  *)
(* is a model value, and so is its hash.                                   *)
(***************************************************************************)
CONSTANTS
  Gateways,      \* one for each host of an agent, with one store of pins
  Definitions,   \* what the server may list, now and then another
  Poisoned,      \* the definitions the scan flags
  None

Pins == [def : Definitions, reviewed : BOOLEAN]
ConstantsOK == Poisoned \subseteq Definitions /\ None \notin Definitions \cup Pins

VARIABLES
  pin,           \* tools[name]: [def, reviewed]
  pending,       \* pending[name]: the definition held
  def,           \* per gateway: the definition it judges
  scans,         \* per gateway: _definition_scans, of the poisoned ones
  shown,         \* per gateway: the definition its agent has of the tool
  printed,       \* what `mcp-gateway tools` showed the person last
  first,         \* history: pinned on first use
  excused        \* history: read and then approved; approved by name alone; or
                 \* shown because of a fault

storev == <<pin, pending>>
gatev  == <<def, scans, shown>>
histv  == <<first, excused>>
vars   == <<storev, gatev, printed, histv>>

Init ==
  /\ pin = None /\ pending = None
  /\ def = [g \in Gateways |-> None] /\ shown = [g \in Gateways |-> None]
  /\ scans = [g \in Gateways |-> [d \in Poisoned |-> "unknown"]]
  /\ printed = None
  /\ first = None /\ excused = {}

-----------------------------------------------------------------------------
(* _handle_tools_list() and _definition_problem().                         *)

\* The tool is shown, or held: hidden, and a call of it refused.
Show(g, d, good) ==
  /\ def' = [def EXCEPT ![g] = None]
  /\ shown' = [shown EXCEPT ![g] = IF good THEN d ELSE None]

\* The server's answer; is_reviewed() looks without the lock.
List(g) ==
  /\ def[g] = None
  /\ \E d \in Definitions :
       IF pin # None /\ pin.def = d /\ pin.reviewed THEN Show(g, d, TRUE)
       ELSE def' = [def EXCEPT ![g] = d] /\ UNCHANGED shown
  /\ UNCHANGED <<storev, scans, printed, histv>>

\* _scan_definition(): its answer is kept for the life of the gateway; a scan that
\* raises counts as clean.
Scan(g, flagged) ==
  LET d == def[g]
  IN  IF d \notin Poisoned THEN ~ flagged /\ UNCHANGED scans
      ELSE /\ scans' = [scans EXCEPT ![g][d] = IF flagged THEN "flagged" ELSE "clean"]
           /\ scans[g][d] \in {"unknown", scans'[g][d]}
Overlooked(g, flagged) == IF def[g] \in Poisoned /\ ~ flagged THEN {def[g]} ELSE {}

\* check(), under the store's lock: the pinned definition, ...
Same(g, flagged) ==
  /\ pin # None /\ pin.def = def[g]
  /\ pending' = None /\ Show(g, def[g], ~ flagged)
  /\ UNCHANGED <<pin, first>>
\* ... the first one, unless it is flagged, ...
New(g, flagged) ==
  /\ pin = None /\ ~ flagged
  /\ pin' = [def |-> def[g], reviewed |-> FALSE] /\ pending' = None /\ first' = def[g]
  /\ Show(g, def[g], TRUE)
\* ... or one that is held for review.
Hold(g, flagged) ==
  /\ IF pin = None THEN flagged ELSE pin.def # def[g]
  /\ pending' = def[g] /\ Show(g, def[g], FALSE)
  /\ UNCHANGED <<pin, first>>

Check(g) ==
  /\ def[g] # None
  /\ \E flagged \in BOOLEAN :
       /\ Scan(g, flagged) /\ (Same(g, flagged) \/ New(g, flagged) \/ Hold(g, flagged))
       /\ excused' = excused \cup Overlooked(g, flagged)
  /\ UNCHANGED printed

\* The lock or the file fails: "tool pins unavailable; scanning only".
Unavailable(g) ==
  /\ def[g] # None
  /\ \E flagged \in BOOLEAN :
       /\ Scan(g, flagged) /\ Show(g, def[g], ~ flagged)
       /\ excused' = IF flagged THEN excused ELSE excused \cup {def[g]}
  /\ UNCHANGED <<storev, printed, first>>

-----------------------------------------------------------------------------
(* The person: reads what is held, approves it.                            *)

ReadHeld ==
  /\ pending # None /\ printed' = pending
  /\ UNCHANGED <<storev, gatev, histv>>

Pinned == pin' = [def |-> pending, reviewed |-> TRUE] /\ pending' = None

\* approve(), under the lock, with the hash that was printed: what has changed
\* since then is stale.
\* Mutant: the hash is not looked at.
FreshAny == pending # None /\ printed # None
Fresh == pending # None /\ printed = pending
ApproveHash ==
  /\ Fresh /\ Pinned
  /\ excused' = excused \cup {printed}
  /\ UNCHANGED <<gatev, printed, first>>

\* By the name alone, or all of them.
ApproveName ==
  /\ pending # None /\ Pinned
  /\ excused' = excused \cup {pending}
  /\ UNCHANGED <<gatev, printed, first>>

Next ==
  \/ ReadHeld \/ ApproveHash \/ ApproveName
  \/ \E g \in Gateways : List(g) \/ Check(g) \/ Unavailable(g)

Spec == Init /\ [][Next]_vars

-----------------------------------------------------------------------------
Defs == Definitions \cup {None}

\* Types of the store and of the gateways.
TypeOK ==
  /\ pin \in Pins \cup {None}
  /\ pending \in Defs /\ printed \in Defs /\ first \in Defs
  /\ def \in [Gateways -> Defs] /\ shown \in [Gateways -> Defs]
  /\ scans \in [Gateways -> [Poisoned -> {"unknown", "clean", "flagged"}]]
  /\ excused \subseteq Definitions

\* "Then only that exact definition is approved: if the server changed it again
\* after the human read it, it stays held" (mcp_tool_pins.py:188): whatever
\* several gateways list meanwhile, an agent is shown the one definition pinned
\* on first use, if the scan found it clean, or one that a person read and
\* approved, or approved unread, or one that a fault of the scan or of the store
\* let through.
TrustIsReviewed ==
  \A g \in Gateways :
    shown[g] # None =>
      \/ shown[g] \in excused
      \/ shown[g] = first /\ shown[g] \notin Poisoned

=============================================================================
