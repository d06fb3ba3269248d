--------------------------- MODULE RuntimeControls ---------------------------
(***************************************************************************)
(* The runtime controls file of sdk-ts (runtime-controls.ts): for every    *)
(* runtime whether it is paused and whether its traces are captured.       *)
(*                                                                         *)
(* setRuntimeControl reads the whole file, changes one entry and renames a *)
(* new file over the old one.  It runs to its end without yielding, but    *)
(* nothing locks the file against another process.                         *)
(***************************************************************************)
EXTENDS Naturals

CONSTANTS
  Runtime,        \* runtimes with a control
  Edit,           \* calls of setRuntimeControl; bounds their number
  Process         \* processes that call it

VARIABLES
  controls,       \* the file: whether it parses, and the control of each runtime
  edit,           \* the state of each call
  intended,       \* what the edits made so far would leave, had each been atomic
  raced           \* calls during which another process renamed the file

controlVars == <<controls, edit, intended, raced>>

\* normalizeControl of an absent entry.
DefaultControl == [paused |-> FALSE, traceCapture |-> TRUE]
Defaults == [r \in Runtime |-> DefaultControl]

Control == [paused : BOOLEAN, traceCapture : BOOLEAN]
Patch == [field : {"paused", "traceCapture"}, value : BOOLEAN]
Patched(c, patch) == [c EXCEPT ![patch.field] = patch.value]

\* shouldTraceRuntime, and traceCaptureEnabled of the hook scripts: a missing file
\* means yes, an unreadable one means no.
Tracing(r) ==
  /\ controls.readable
  /\ ~controls.runtimes[r].paused
  /\ controls.runtimes[r].traceCapture

NoEdit == [stage |-> "none"]

-----------------------------------------------------------------------------
ControlsInit ==
  /\ controls = [readable |-> TRUE, runtimes |-> Defaults]
  /\ edit = [e \in Edit |-> NoEdit]
  /\ intended = Defaults
  /\ raced = {}

\* setRuntimeControl, up to readFile: an unreadable file makes it throw.
BeginEdit(e, w, r, patch) ==
  /\ edit[e].stage = "none"
  /\ \A d \in Edit : edit[d].stage = "read" => edit[d].process # w
  /\ edit' = [edit EXCEPT ![e] =
               IF controls.readable
               THEN [stage |-> "read", process |-> w, runtime |-> r, patch |-> patch,
                     seen |-> controls.runtimes]
               ELSE [stage |-> "failed", process |-> w, runtime |-> r, patch |-> patch]]
  /\ UNCHANGED <<controls, intended, raced>>

\* The rename: the entries of all other runtimes are written back as they were read.
CommitEdit_OneEntry(e) ==                                           \* mutant
  /\ edit[e].stage = "read"
  /\ LET d == edit[e]
         next == Patched(d.seen[d.runtime], d.patch)
     IN
     /\ controls' = [readable |-> TRUE, runtimes |-> [Defaults EXCEPT ![d.runtime] = next]]
     /\ edit' = [edit EXCEPT ![e] = [stage |-> "done", process |-> d.process,
                                     runtime |-> d.runtime, patch |-> d.patch, answer |-> next]]
     /\ intended' = [intended EXCEPT ![d.runtime] = Patched(@, d.patch)]
  /\ raced' = raced \cup {d \in Edit \ {e} : edit[d].stage = "read"}

CommitEdit(e) ==
  /\ edit[e].stage = "read"
  /\ LET d == edit[e]
         next == Patched(d.seen[d.runtime], d.patch)
     IN
     /\ controls' = [readable |-> TRUE, runtimes |-> [d.seen EXCEPT ![d.runtime] = next]]
     /\ edit' = [edit EXCEPT ![e] = [stage |-> "done", process |-> d.process,
                                     runtime |-> d.runtime, patch |-> d.patch, answer |-> next]]
     /\ intended' = [intended EXCEPT ![d.runtime] = Patched(@, d.patch)]
  /\ raced' = raced \cup {d \in Edit \ {e} : edit[d].stage = "read"}

\* writeFile throws: the directory, the temporary file or the rename is refused.
FailEdit(e) ==
  /\ edit[e].stage = "read"
  /\ edit' = [edit EXCEPT ![e] = [stage |-> "failed", process |-> edit[e].process,
                                  runtime |-> edit[e].runtime, patch |-> edit[e].patch]]
  /\ UNCHANGED <<controls, intended, raced>>

\* A hand edit leaves text that does not parse: every later setRuntimeControl throws
\* instead of overwriting it.
BreakFile ==
  /\ controls.readable
  /\ controls' = [controls EXCEPT !.readable = FALSE]
  /\ UNCHANGED <<edit, intended, raced>>

-----------------------------------------------------------------------------
EditState ==
  {NoEdit}
  \cup [stage : {"read"}, process : Process, runtime : Runtime, patch : Patch,
        seen : [Runtime -> Control]]
  \cup [stage : {"failed"}, process : Process, runtime : Runtime, patch : Patch]
  \cup [stage : {"done"}, process : Process, runtime : Runtime, patch : Patch, answer : Control]

ControlsTypeOK ==
  /\ controls \in [readable : BOOLEAN, runtimes : [Runtime -> Control]]
  /\ edit \in [Edit -> EditState]
  /\ intended \in [Runtime -> Control]
  /\ raced \subseteq Edit

\* An edit undoes another one only when its process read the file before the other
\* renamed it, and then renames it too: until that has happened the file is what the
\* edits, made one after the other, ask for, whichever of them failed (runtime-controls.ts
\* 132-159).
EditsSurvive == (\A e \in raced : edit[e].stage # "done") => controls.runtimes = intended
=============================================================================
