-------------------------------- MODULE Notices --------------------------------
(***************************************************************************)
(* Lines of subagents for the main chat (prismor/runtime/subagents.py):    *)
(* hooks of subagents append them to a file, hooks of the main agent       *)
(* rename the file away, read it and remove it.  No lock is taken; a       *)
(* handle that was opened goes on writing to the file it opened.  A hook   *)
(* that is killed is one that takes no further step.                       *)
(***************************************************************************)
EXTENDS Naturals, FiniteSets

CONSTANTS
  Subs, Mains,   \* hooks of subagents, one line each, and of the main agent
  MaxFiles,      \* bound: files ever created
  None

ConstantsOK == Subs \cap Mains = {} /\ MaxFiles \in Nat \ {0} /\ None \notin Nat

VARIABLES
  queue,         \* the file with the queue's name
  lines,         \* per file: the lines in it, named by their hooks
  read,          \* files that were read
  pc,
  handle,        \* per hook: the file it opened, or took
  text,          \* per hook of the main agent: what it read
  times,         \* per line: how often it was shown
  late           \* history: lines written to a file that was read before

vars == <<queue, lines, read, pc, handle, text, times, late>>

Files == 1 .. MaxFiles
Procs == Subs \cup Mains

Init ==
  /\ queue = None /\ lines = [f \in Files |-> {}] /\ read = {}
  /\ pc = [h \in Procs |-> "idle"] /\ handle = [h \in Procs |-> None]
  /\ text = [m \in Mains |-> {}] /\ times = [s \in Subs |-> 0] /\ late = {}

Goto(h, l) == pc' = [pc EXCEPT ![h] = l]

-----------------------------------------------------------------------------
\* A file nobody has used yet.
Created == {f \in Files : f = queue \/ f \in read \/ \E h \in Procs : handle[h] = f}
FreshFile == CHOOSE f \in Files : f \notin Created

\* queue_notice(): opened for appending, ...
OpenQueue(s) ==
  /\ pc[s] = "idle" /\ Goto(s, "write")
  /\ IF queue # None THEN UNCHANGED queue ELSE Created # Files /\ queue' = FreshFile
  /\ handle' = [handle EXCEPT ![s] = queue']
  /\ UNCHANGED <<lines, read, text, times, late>>
\* ... and written.
WriteLine(s) ==
  /\ pc[s] = "write" /\ Goto(s, "done")
  /\ lines' = [lines EXCEPT ![handle[s]] = @ \cup {s}]
  /\ late' = IF handle[s] \in read THEN late \cup {s} ELSE late
  /\ UNCHANGED <<queue, read, handle, text, times>>

\* take_notices(): a file that is not there is nothing to take.
\* Mutant: the file keeps its name.
TakeInPlace(m) ==
  /\ pc[m] = "idle" /\ queue # None /\ Goto(m, "read")
  /\ handle' = [handle EXCEPT ![m] = queue] /\ UNCHANGED queue
  /\ UNCHANGED <<lines, read, text, times, late>>
Take(m) ==
  /\ pc[m] = "idle" /\ queue # None /\ Goto(m, "read")
  /\ handle' = [handle EXCEPT ![m] = queue] /\ queue' = None
  /\ UNCHANGED <<lines, read, text, times, late>>
ReadTaken(m) ==
  /\ pc[m] = "read" /\ Goto(m, "show")
  /\ text' = [text EXCEPT ![m] = lines[handle[m]]] /\ read' = read \cup {handle[m]}
  /\ UNCHANGED <<queue, lines, handle, times, late>>
\* Removed, and printed with the hook's answer; the next hook may take again.
Show(m) ==
  /\ pc[m] = "show" /\ Goto(m, "idle")
  /\ times' = [s \in Subs |-> IF s \in text[m] THEN times[s] + 1 ELSE times[s]]
  /\ text' = [text EXCEPT ![m] = {}] /\ handle' = [handle EXCEPT ![m] = None]
  /\ UNCHANGED <<queue, lines, read, late>>

Next ==
  \/ \E s \in Subs : OpenQueue(s) \/ WriteLine(s)
  \/ \E m \in Mains : Take(m) \/ ReadTaken(m) \/ Show(m)

Spec == Init /\ [][Next]_vars

-----------------------------------------------------------------------------
\* Types of the files and of the hooks.
TypeOK ==
  /\ queue \in Files \cup {None} /\ lines \in [Files -> SUBSET Subs] /\ read \subseteq Files
  /\ pc \in [Procs -> {"idle", "write", "read", "show", "done"}]
  /\ handle \in [Procs -> Files \cup {None}] /\ text \in [Mains -> SUBSET Subs]
  /\ \A s \in Subs : times[s] \in Nat
  /\ late \subseteq Subs

\* "atomic: a parallel hook cannot show it twice" (subagents.py:134): a line that
\* was queued is shown once, or is still to be: in the queue, or with the hook
\* that took it (and, killed, never shows it).  Only a line written to a file
\* that was read already is lost otherwise (see the README).
NoticeShownOnce ==
  \A s \in Subs :
    /\ times[s] <= 1
    /\ (pc[s] = "done" /\ times[s] = 0) =>
         \/ handle[s] = queue
         \/ \E m \in Mains : handle[m] = handle[s] /\ (pc[m] = "read" \/ s \in text[m])
         \/ s \in late

=============================================================================
