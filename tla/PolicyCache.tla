------------------------------ MODULE PolicyCache ------------------------------
(***************************************************************************)
(* The cached policy of an organization: checking its version, fetching    *)
(* it, writing three files, and loading what verifies                      *)
(* (prismor/runtime/enterprise/remote_policy.py), with the revocation      *)
(* marker (identity.py).                                                   *)
(*                                                                         *)
(* A policy file or a signature is the release it is of.  The control      *)
(* plane is not in the repository: it answers with its current release.    *)
(***************************************************************************)
EXTENDS Naturals

CONSTANTS
  Hooks,         \* processes of one enrolled device
  Releases,      \* what the organization publishes: [version, block]
  NoBlock,       \* the block of settings the version does not cover, if empty
  MaxFaults,     \* bound: processes killed
  MaxFlips,      \* bound: times the organization removes or readmits the device
  None

\* A version number covers the profile; pauses, controls, denies and the like have
\* signatures of their own: the block.
ConstantsOK ==
  /\ 1 \in DOMAIN Releases /\ DOMAIN Releases \subseteq Nat \ {0} /\ None \notin Nat
  /\ \A r \in DOMAIN Releases : Releases[r].version \in Nat
  /\ MaxFaults \in Nat /\ MaxFlips \in Nat

VARIABLES
  release, linked, flips,   \* at the control plane
  files,         \* remote-policy.yaml, .yaml.sig and .meta.json
  revoked,       \* device-revoked.json is there
  pc,
  cur,           \* per hook: the version it told the control plane it has
  got,           \* per hook: the release it fetched
  wrote,         \* per hook: how many of the files it wrote
  faults,
  spoiled        \* history: see NeverStuck

vars == <<release, linked, flips, files, revoked, pc, cur, got, wrote, faults, spoiled>>

Ids   == DOMAIN Releases
Names == {"yaml", "sig", "meta"}
Torn  == 0      \* a file that was emptied

Init ==
  /\ release = 1 /\ linked = TRUE /\ flips = 0
  /\ files = [n \in Names |-> None] /\ revoked = FALSE
  /\ pc  = [h \in Hooks |-> "idle"]
  /\ cur = [h \in Hooks |-> None] /\ got = [h \in Hooks |-> None] /\ wrote = [h \in Hooks |-> 0]
  /\ faults = 0 /\ spoiled = FALSE

Goto(h, l) == pc' = [pc EXCEPT ![h] = l]
Writing(h) == pc[h] \in {"open", "write"}

-----------------------------------------------------------------------------
(* The organization.                                                       *)

Publish ==
  /\ release + 1 \in Ids /\ release' = release + 1
  /\ UNCHANGED <<linked, flips, files, revoked, pc, cur, got, wrote, faults, spoiled>>
Flip ==
  /\ flips < MaxFlips /\ flips' = flips + 1 /\ linked' = ~ linked
  /\ UNCHANGED <<release, files, revoked, pc, cur, got, wrote, faults, spoiled>>

-----------------------------------------------------------------------------
(* Loading.                                                                *)

\* verify_and_load(): nothing when revoked, or when the signature is another's.
\* A file that is being written is of no release.
Loaded ==
  IF ~ revoked /\ files["yaml"] \in Ids /\ files["sig"] = files["yaml"] THEN files["yaml"] ELSE None

CurrentVersion == IF files["meta"] \in Ids THEN Releases[files["meta"]].version ELSE None
CurrentBlock   == IF Loaded = None THEN NoBlock ELSE Releases[Loaded].block
\* Mutant: what has a signature of its own is not compared.
ChangedVersion(v, r) == Releases[r].version # v
Changed(v, r)  == Releases[r].version # v \/ Releases[r].block # CurrentBlock

-----------------------------------------------------------------------------
(* check_and_refresh(), whenever the debounce and the backoffs allow it.   *)

Check(h) ==
  /\ pc[h] = "idle" /\ Goto(h, "ask")
  /\ cur' = [cur EXCEPT ![h] = CurrentVersion]
  /\ UNCHANGED <<release, linked, flips, files, revoked, got, wrote, faults, spoiled>>

\* A user's `prismor sync` fetches without asking for the version first.
Sync(h) ==
  /\ pc[h] = "idle" /\ Goto(h, "fetch")
  /\ UNCHANGED <<release, linked, flips, files, revoked, cur, got, wrote, faults, spoiled>>

\* No usable answer, of either request.
Fail(h) ==
  /\ pc[h] \in {"ask", "fetch"} /\ Goto(h, "idle")
  /\ cur' = [cur EXCEPT ![h] = None]
  /\ UNCHANGED <<release, linked, flips, files, revoked, got, wrote, faults, spoiled>>

\* 401 or 403, to either.
Reject(h) ==
  /\ pc[h] \in {"ask", "fetch"} /\ ~ linked
  /\ revoked' = TRUE
  /\ Goto(h, "idle") /\ cur' = [cur EXCEPT ![h] = None]
  /\ UNCHANGED <<release, linked, flips, files, got, wrote, faults, spoiled>>

\* The version: the marker goes first, so what is compared is what verifies now.
Answer(h) ==
  /\ pc[h] = "ask" /\ linked
  /\ revoked' = FALSE
  /\ Goto(h, "compare")
  /\ got' = [got EXCEPT ![h] = release]
  /\ UNCHANGED <<release, linked, flips, files, cur, wrote, faults, spoiled>>
Compare(h) ==
  /\ pc[h] = "compare"
  /\ Goto(h, IF Changed(cur[h], got[h]) THEN "fetch" ELSE "idle")
  /\ cur' = [cur EXCEPT ![h] = None] /\ got' = [got EXCEPT ![h] = None]
  /\ UNCHANGED <<release, linked, flips, files, revoked, wrote, faults, spoiled>>

\* fetch(): verified before anything is written.
Fetch(h) ==
  /\ pc[h] = "fetch" /\ linked
  /\ revoked' = FALSE
  /\ got' = [got EXCEPT ![h] = release] /\ Goto(h, "open")
  /\ spoiled' = (spoiled \/ \E k \in Hooks : Writing(k) /\ got[k] # release)
  /\ UNCHANGED <<release, linked, flips, files, cur, wrote, faults>>

\* The order the files are written in.
\* Mutant: the metadata first.
MetaFirst == <<"meta", "yaml", "sig">>
Order == <<"yaml", "sig", "meta">>

\* write_text(): a file is emptied ...
Truncate(h) ==
  /\ pc[h] = "open" /\ Goto(h, "write")
  /\ files' = [files EXCEPT ![Order[wrote[h] + 1]] = Torn]
  /\ UNCHANGED <<release, linked, flips, revoked, cur, got, wrote, faults, spoiled>>
\* ... and filled.
Write(h) ==
  LET last == wrote[h] = 2
  IN  /\ pc[h] = "write" /\ Goto(h, IF last THEN "idle" ELSE "open")
      /\ files' = [files EXCEPT ![Order[wrote[h] + 1]] = got[h]]
      /\ wrote' = [wrote EXCEPT ![h] = IF last THEN 0 ELSE @ + 1]
      /\ got' = [got EXCEPT ![h] = IF last THEN None ELSE @]
      /\ UNCHANGED <<release, linked, flips, revoked, cur, faults, spoiled>>

Die(h) ==
  /\ faults < MaxFaults /\ faults' = faults + 1
  /\ pc[h] # "idle" /\ Goto(h, "idle")
  /\ cur' = [cur EXCEPT ![h] = None] /\ got' = [got EXCEPT ![h] = None] /\ wrote' = [wrote EXCEPT ![h] = 0]
  /\ spoiled' = \/ spoiled
                \/ /\ Writing(h)
                   /\ \/ /\ \E r \in Ids : got[h] <= r /\ CurrentVersion = Releases[r].version
                         /\ \A k \in 1 .. wrote[h] : Order[k] # "meta"
                      \/ \E k \in Hooks \ {h} : Writing(k)
  /\ UNCHANGED <<release, linked, flips, files, revoked>>

Refresh(h) == Reject(h) \/ Answer(h) \/ Compare(h) \/ Fetch(h) \/ Truncate(h) \/ Write(h)

Next ==
  \/ Publish \/ Flip
  \/ \E h \in Hooks : Check(h) \/ Sync(h) \/ Fail(h) \/ Refresh(h) \/ Die(h)

Spec == Init /\ [][Next]_vars

\* Calls go on and each checks; a request that is made again and again is answered.
FairSpec ==
  /\ Spec
  /\ \A h \in Hooks :
       /\ WF_vars(Check(h)) /\ WF_vars(Compare(h) \/ Truncate(h) \/ Write(h))
       /\ SF_vars(Reject(h) \/ Answer(h)) /\ SF_vars(Fetch(h))

-----------------------------------------------------------------------------
\* Types of the files and of the hooks.
TypeOK ==
  /\ release \in Ids /\ linked \in BOOLEAN /\ flips \in 0 .. MaxFlips /\ revoked \in BOOLEAN
  /\ files \in [Names -> Ids \cup {None, Torn}]
  /\ pc \in [Hooks -> {"idle", "ask", "compare", "fetch", "open", "write"}]
  /\ got \in [Hooks -> Ids \cup {None}] /\ wrote \in [Hooks -> 0 .. 2]
  /\ faults \in 0 .. MaxFaults /\ spoiled \in BOOLEAN

\* What is loaded is what the organization has published.
UpToDate ==
  /\ Loaded # None
  /\ Releases[Loaded].version = Releases[release].version /\ Releases[Loaded].block = Releases[release].block

\* "Bounds how stale an enrolled device's policy can be" (remote_policy.py:71): a
\* crash between any two of its writes leaves no cache behind that the next check
\* takes for the current policy.  Two things do (see the README): fetches of
\* different releases that write through each other, and a process killed while
\* it writes beside another, or before a release, this one or one to come, of the
\* version the metadata has.
NeverStuck ==
  (linked /\ ~ revoked /\ ~ spoiled /\ \A h \in Hooks : ~ Writing(h))
     => UpToDate \/ Changed(CurrentVersion, release)

\* A release of an organization that keeps the device reaches it, unless the cache
\* is spoiled.
PolicyArrives == (<>[](linked /\ ~ spoiled)) => []<>UpToDate

=============================================================================
