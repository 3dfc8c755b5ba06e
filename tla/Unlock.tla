--------------------------------- MODULE Unlock ---------------------------------
(***************************************************************************)
(* The unlock password and the window in which an agent may edit the       *)
(* policy (prismor/runtime/unlock.py), with the commands of a person at a  *)
(* terminal (cli.py).  Nothing here takes a lock, and write_text() empties *)
(* a file before it fills it: what fills a file that was removed since is  *)
(* lost, and what fills one that another has filled since may leave a file *)
(* that does not parse.  A command that is killed is one that takes no     *)
(* further step.                                                           *)
(*                                                                         *)
(* A credential is a number, a new one each time a password is set.  One   *)
(* workspace; a password that is typed is right or wrong.                  *)
(***************************************************************************)
EXTENDS Naturals

CONSTANTS
  People,        \* terminals
  Hooks,         \* processes that ask whether a window is open
  FreeAttempts, Lockout,   \* _FREE_ATTEMPTS, and how long it locks after them
  Window,        \* window_seconds
  MaxTime,       \* bound: the time
  MaxSets,       \* bound: passwords ever set
  None

ConstantsOK ==
  /\ FreeAttempts \in Nat /\ Lockout \in Nat \ {0} /\ Window \in Nat \ {0}
  /\ MaxTime \in Nat /\ MaxSets \in Nat \ {0}
  /\ None \notin Nat /\ People \cap Hooks = {}

VARIABLES
  cred,          \* unlock.json: [id, failed, until], None if it does not parse
  grant,         \* unlock-grant.json: [key, until], None if it does not parse
  orphans,       \* processes whose file, open and empty, was removed
  barred,        \* the organization has turned self-edit off
  now,
  pc,
  cmd,           \* per terminal: "unlock", "set", or "wrong" for a wrong password
  copy,          \* per process: the record it read or is about to write
  sets, latest,  \* history: passwords set, and the one in force for the person
  spoiled        \* history: an attempt wrote an older credential back

filev == <<cred, grant, orphans>>
histv == <<sets, latest, spoiled>>
vars  == <<filev, barred, now, pc, cmd, copy, histv>>

Procs == People \cup Hooks
Creds == [id : 1 .. MaxSets, failed : 0 .. FreeAttempts + 1, until : 0 .. MaxTime + Lockout]
Grants == [key : 1 .. MaxSets \cup {None}, until : 0 .. MaxTime + Window]

Init ==
  /\ cred = None /\ grant = None /\ orphans = {} /\ barred = FALSE /\ now = 0
  /\ pc = [p \in Procs |-> "idle"] /\ cmd = [p \in People |-> "none"]
  /\ copy = [p \in Procs |-> None]
  /\ sets = 0 /\ latest = None /\ spoiled = FALSE

Goto(p, l) == pc' = [pc EXCEPT ![p] = l]
Keep(p, r) == copy' = [copy EXCEPT ![p] = r]
Do(p, c)   == cmd' = [cmd EXCEPT ![p] = c]
\* The second half of write_text(), into the file it emptied.
Fill(p, old, new, file) ==
  /\ file \in (IF p \in orphans THEN {old} ELSE IF old = None THEN {new} ELSE {new, None})
  /\ orphans' = orphans \ {p}
End(p)     == Goto(p, "idle") /\ Keep(p, None) /\ Do(p, "none")

LockedOut == cred # None /\ cred.until > now

-----------------------------------------------------------------------------
(* verify(), for the commands that ask for the password.                   *)

\* `prismor unlock`; `--set-password`, which asks only if there is a password.
BeginUnlock(p) ==
  /\ pc[p] = "idle" /\ cred # None /\ ~ barred /\ ~ LockedOut
  /\ Do(p, "unlock") /\ Goto(p, "verify")
  /\ UNCHANGED <<filev, barred, now, copy, histv>>
BeginSet(p) ==
  /\ pc[p] = "idle" /\ sets < MaxSets
  /\ Do(p, "set") /\ Goto(p, IF cred = None THEN "store" ELSE "verify")
  /\ UNCHANGED <<filev, barred, now, copy, histv>>

\* No credential, or too many failed attempts; else the password is compared.
Turned(p) ==
  /\ pc[p] = "verify" /\ (cred = None \/ LockedOut)
  /\ End(p)
  /\ UNCHANGED <<filev, barred, now, histv>>
Compare(p) ==
  /\ pc[p] = "verify" /\ cred # None /\ ~ LockedOut
  /\ UNCHANGED cmd \/ Do(p, "wrong")
  /\ Goto(p, "attempt")
  /\ UNCHANGED <<filev, barred, now, copy, histv>>

\* Where a command goes once the attempt is recorded.
Go(p) ==
  CASE cmd[p] = "unlock" -> Goto(p, "open") /\ Keep(p, None) /\ UNCHANGED cmd
    [] cmd[p] = "set"    -> Goto(p, "store") /\ Keep(p, None) /\ UNCHANGED cmd
    [] OTHER             -> End(p)

\* _record_attempt(): the credential is read again, changed ...
Attempted(r, c) ==
  LET n == IF r.failed > FreeAttempts THEN r.failed ELSE r.failed + 1
  IN  IF c # "wrong" THEN [id |-> r.id, failed |-> 0, until |-> 0]
      ELSE [id |-> r.id, failed |-> n, until |-> IF n > FreeAttempts THEN now + Lockout ELSE r.until]
ReadAttempt(p) ==
  /\ pc[p] = "attempt"
  /\ IF cred = None THEN Go(p)
     ELSE Goto(p, "record") /\ Keep(p, Attempted(cred, cmd[p])) /\ UNCHANGED cmd
  /\ UNCHANGED <<filev, barred, now, histv>>
\* ... and written back: emptied, then filled.
EmptyRecord(p) ==
  /\ pc[p] = "record" /\ Goto(p, "recording") /\ cred' = None
  /\ UNCHANGED <<grant, orphans, barred, now, cmd, copy, histv>>
FillRecord(p) ==
  /\ pc[p] = "recording" /\ Fill(p, cred, copy[p], cred')
  /\ spoiled' = (spoiled \/ (cred' = copy[p] /\ copy[p].id # latest))
  /\ Go(p)
  /\ UNCHANGED <<grant, barred, now, sets, latest>>

-----------------------------------------------------------------------------
(* The commands.                                                           *)

\* set_password().
EmptyStore(p) ==
  /\ pc[p] = "store" /\ sets < MaxSets
  /\ cred' = None /\ Goto(p, "storing")
  /\ UNCHANGED <<grant, orphans, barred, now, cmd, copy, histv>>
FillStore(p) ==
  /\ pc[p] = "storing" /\ sets < MaxSets
  /\ sets' = sets + 1 /\ latest' = IF p \in orphans THEN latest ELSE sets'
  /\ Fill(p, cred, [id |-> sets', failed |-> 0, until |-> 0], cred')
  /\ End(p)
  /\ UNCHANGED <<grant, barred, now, spoiled>>

\* open_window(): the grant is made with the credential of this moment.
Open(p) ==
  /\ pc[p] = "open" /\ Goto(p, "empty")
  /\ Keep(p, [key |-> IF cred = None THEN None ELSE cred.id, until |-> now + Window])
  /\ UNCHANGED <<filev, barred, now, cmd, histv>>
EmptyGrant(p) ==
  /\ pc[p] = "empty" /\ Goto(p, "fill") /\ grant' = None
  /\ UNCHANGED <<cred, orphans, barred, now, cmd, copy, histv>>
FillGrant(p) ==
  /\ pc[p] = "fill" /\ Fill(p, grant, copy[p], grant') /\ End(p)
  /\ UNCHANGED <<cred, barred, now, histv>>

\* `prismor lock`: close_window().
RemoveGrant == grant' = None /\ orphans' = orphans \cup {q \in People : pc[q] = "fill"}
Lock(p) ==
  /\ pc[p] = "idle" /\ RemoveGrant
  /\ UNCHANGED <<cred, barred, now, pc, cmd, copy, histv>>

\* clear_password(): the window first.
Forget(p) ==
  /\ pc[p] = "idle" /\ RemoveGrant /\ Goto(p, "forget")
  /\ UNCHANGED <<cred, barred, now, cmd, copy, histv>>
Forgotten(p) ==
  /\ pc[p] = "forget" /\ cred' = None /\ latest' = None /\ End(p)
  /\ orphans' = orphans \cup {q \in People : pc[q] \in {"recording", "storing"}}
  /\ UNCHANGED <<grant, barred, now, sets, spoiled>>

-----------------------------------------------------------------------------
(* active_state(), on the hook path.                                       *)

\* A hook at "open" has found the window open; it may ask again.
Look(h) ==
  /\ pc[h] \in {"idle", "open"}
  /\ IF barred \/ grant = None THEN Goto(h, "idle") /\ UNCHANGED copy
     ELSE Goto(h, IF now >= grant.until THEN "heal" ELSE "key") /\ Keep(h, grant)
  /\ UNCHANGED <<filev, barred, now, cmd, histv>>

\* It removes the grant that is there by then.
Heal(h) ==
  /\ pc[h] = "heal" /\ RemoveGrant
  /\ Goto(h, "idle") /\ Keep(h, None)
  /\ UNCHANGED <<cred, barred, now, cmd, histv>>

\* The MAC is made with the credential that is stored now.
\* Mutant: there is a credential, whichever.
KeyAny(g) == cred # None
KeyFits(g) == cred # None /\ g.key = cred.id
Decide(h) ==
  /\ pc[h] = "key"
  /\ Goto(h, IF KeyFits(copy[h]) THEN "open" ELSE "idle") /\ Keep(h, None)
  /\ UNCHANGED <<filev, barred, now, cmd, histv>>

Tick == now < MaxTime /\ now' = now + 1 /\ UNCHANGED <<filev, barred, pc, cmd, copy, histv>>
Bar  == barred' = ~ barred /\ UNCHANGED <<filev, now, pc, cmd, copy, histv>>

Next ==
  \/ Tick \/ Bar
  \/ \E p \in People :
       \/ BeginUnlock(p) \/ BeginSet(p) \/ Turned(p) \/ Compare(p)
       \/ ReadAttempt(p) \/ EmptyRecord(p) \/ FillRecord(p)
       \/ EmptyStore(p) \/ FillStore(p) \/ Open(p) \/ EmptyGrant(p) \/ FillGrant(p)
       \/ Lock(p) \/ Forget(p) \/ Forgotten(p)
  \/ \E h \in Hooks : Look(h) \/ Heal(h) \/ Decide(h)

Spec == Init /\ [][Next]_vars

-----------------------------------------------------------------------------
\* Types of the two files and of the processes.
TypeOK ==
  /\ cred = None \/ cred \in Creds
  /\ grant = None \/ grant \in Grants
  /\ barred \in BOOLEAN /\ now \in 0 .. MaxTime
  /\ \A p \in People : \/ copy[p] = None
                       \/ IF pc[p] \in {"empty", "fill"} THEN copy[p] \in Grants ELSE copy[p] \in Creds
  /\ \A h \in Hooks : /\ pc[h] \in {"idle", "heal", "key", "open"}
                      /\ copy[h] = None \/ copy[h] \in Grants
  /\ sets \in 0 .. MaxSets /\ orphans \subseteq {p \in People : pc[p] \in {"recording", "storing", "fill"}}

\* "Ties a grant to the credential that authorized it" (unlock.py:258): a window
\* dies with its password.  Once the password was changed or forgotten, no
\* hook finds a window open that was opened before, unless an attempt in
\* between wrote the old credential back (see the README).
WindowIsEarned ==
  [][\A h \in Hooks :
       (pc[h] = "key" /\ pc'[h] = "open") => spoiled \/ copy[h].key = latest]_vars

=============================================================================
