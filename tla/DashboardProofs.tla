--------------------------- MODULE DashboardProofs ----------------------------
(********************************************************************************)
(* Proofs about Dashboard and the modules it composes, for any runtimes,        *)
(* processes, edits, memories, sessions, groups, readers and contents, and      *)
(* any page sizes and numbers of retries.                                       *)
(*                                                                              *)
(* The parts share the open page only, so there is an invariant for each of     *)
(* them: ControlsInv of the file, PatchesInv of the page's requests, MemoryInv  *)
(* of the runs of add, RequestsInv of the recorders, ContentInv of the content, *)
(* and for each page what it shows and why (AppsShown, MemoriesShown,           *)
(* SessionsShown, TraceShown, StreamShown).  DashInv puts them together.        *)
(********************************************************************************)
EXTENDS Dashboard, FiniteSetTheorems, WellFoundedInduction, TLAPS

-----------------------------------------------------------------------------
\* The file of the runtime controls.

\* What an edit that nobody raced has read is still in the file.
ControlsInv ==
  /\ ControlsTypeOK
  /\ EditsSurvive
  /\ \A e \in Edit : edit[e].stage = "read" /\ e \notin raced => edit[e].seen = controls.runtimes

LEMMA PatchedControl ==
  ASSUME NEW c \in Control, NEW patch \in Patch
  PROVE  Patched(c, patch) \in Control
BY DEF Control, Patch, Patched

LEMMA EditKinds ==
  ASSUME NEW d \in EditState
  PROVE  /\ d.stage = "read" =>
              d \in [stage : {"read"}, process : Process, runtime : Runtime, patch : Patch,
                     seen : [Runtime -> Control]]
         /\ d.stage = "done" =>
              d \in [stage : {"done"}, process : Process, runtime : Runtime, patch : Patch,
                     answer : Control]
BY DEF EditState, NoEdit

LEMMA ControlsStart == ControlsInit => ControlsInv
BY DEF ControlsInit, ControlsInv, ControlsTypeOK, EditsSurvive, EditState, NoEdit, Defaults,
       DefaultControl, Control

LEMMA BeginEditKeeps ==
  ASSUME ControlsInv, NEW e \in Edit, NEW w \in Process, NEW r \in Runtime, NEW patch \in Patch,
         BeginEdit(e, w, r, patch)
  PROVE  ControlsInv'
<1> DEFINE next == IF controls.readable
                   THEN [stage |-> "read", process |-> w, runtime |-> r, patch |-> patch,
                         seen |-> controls.runtimes]
                   ELSE [stage |-> "failed", process |-> w, runtime |-> r, patch |-> patch]
<1>1. /\ edit[e].stage = "none"
      /\ edit' = [edit EXCEPT ![e] = next]
      /\ UNCHANGED <<controls, intended, raced>>
  BY DEF BeginEdit
<1>2. /\ next \in EditState
      /\ next.stage = "read" => next.seen = controls.runtimes
      /\ next.stage # "done"
  BY DEF ControlsInv, ControlsTypeOK, EditState
<1> HIDE DEF next
<1>3. ControlsTypeOK'
  BY <1>1, <1>2 DEF ControlsInv, ControlsTypeOK
<1>4. edit'[e] = next /\ \A d \in Edit \ {e} : edit'[d] = edit[d]
  BY <1>1 DEF ControlsInv, ControlsTypeOK
<1>5. EditsSurvive'
  BY <1>1, <1>4 DEF ControlsInv, ControlsTypeOK, EditsSurvive
<1>6. QED  BY <1>1, <1>2, <1>3, <1>4, <1>5 DEF ControlsInv, ControlsTypeOK

LEMMA CommitEditKeeps ==
  ASSUME ControlsInv, NEW e \in Edit, CommitEdit(e)
  PROVE  /\ ControlsInv'
         /\ edit[e].stage = "read"
         /\ edit'[e].stage = "done"
         /\ edit'[e].runtime = edit[e].runtime
         /\ edit[e].runtime \in Runtime
         /\ edit'[e].answer = controls'.runtimes[edit[e].runtime]
         /\ \A d \in Edit \ {e} : edit'[d] = edit[d]
<1> DEFINE d == edit[e]
           next == Patched(d.seen[d.runtime], d.patch)
           done == [stage |-> "done", process |-> d.process, runtime |-> d.runtime,
                    patch |-> d.patch, answer |-> next]
<1>1. /\ d.stage = "read"
      /\ controls' = [readable |-> TRUE, runtimes |-> [d.seen EXCEPT ![d.runtime] = next]]
      /\ edit' = [edit EXCEPT ![e] = done]
      /\ intended' = [intended EXCEPT ![d.runtime] = Patched(@, d.patch)]
      /\ raced' = raced \cup {x \in Edit \ {e} : edit[x].stage = "read"}
  BY DEF CommitEdit
<1>2. /\ edit \in [Edit -> EditState]
      /\ intended \in [Runtime -> Control]
      /\ raced \subseteq Edit
      /\ controls.runtimes \in [Runtime -> Control]
  BY DEF ControlsInv, ControlsTypeOK
<1>3. d \in [stage : {"read"}, process : Process, runtime : Runtime, patch : Patch,
             seen : [Runtime -> Control]]
  BY <1>1, <1>2, EditKinds
<1>4. next \in Control
  BY <1>3, PatchedControl
<1>5. Patched(intended[d.runtime], d.patch) \in Control
  BY <1>2, <1>3, PatchedControl
<1>6. done \in EditState
  BY <1>3, <1>4 DEF EditState
<1>7. d.runtime \in Runtime /\ d.seen \in [Runtime -> Control]
  BY <1>3
<1>8. ControlsTypeOK'
  <2> HIDE DEF d, next, done
  <2>1. intended' \in [Runtime -> Control]
    BY <1>1, <1>2, <1>5
  <2>2. controls' \in [readable : BOOLEAN, runtimes : [Runtime -> Control]]
    BY <1>1, <1>4, <1>7
  <2>3. edit' \in [Edit -> EditState]
    BY <1>1, <1>2, <1>6
  <2>4. QED  BY <1>1, <1>2, <2>1, <2>2, <2>3 DEF ControlsTypeOK
<1>9. EditsSurvive'
  <2>1. SUFFICES ASSUME \A x \in raced' : edit'[x].stage # "done"
                 PROVE  controls'.runtimes = intended'
    BY DEF EditsSurvive
  <2>2. e \notin raced
    BY <1>1, <1>2, <2>1
  <2>3. \A x \in raced : edit[x].stage # "done"
    BY <1>1, <1>2, <2>1, <2>2
  <2>4. d.seen = controls.runtimes /\ controls.runtimes = intended
    BY <1>1, <2>2, <2>3 DEF ControlsInv, EditsSurvive
  <2> HIDE DEF d
  <2>5. controls'.runtimes = [d.seen EXCEPT ![d.runtime] = next]
    BY <1>1
  <2>6. QED  BY <1>1, <1>2, <1>7, <2>4, <2>5
<1>10. \A x \in Edit : edit'[x].stage = "read" /\ x \notin raced' =>
                         edit'[x].seen = controls'.runtimes
  <2>1. edit'[e].stage = "done"
    BY <1>1, <1>2
  <2>2. \A x \in Edit \ {e} : edit'[x] = edit[x]
    BY <1>1, <1>2
  <2>3. QED  BY <1>1, <2>1, <2>2
<1>11. /\ edit'[e] = done
       /\ \A x \in Edit \ {e} : edit'[x] = edit[x]
  BY <1>1, <1>2
<1>12. controls'.runtimes[d.runtime] = next
  <2> HIDE DEF next, d
  <2>1. QED  BY <1>1, <1>7
<1>13. QED  BY <1>1, <1>7, <1>8, <1>9, <1>10, <1>11, <1>12 DEF ControlsInv

LEMMA FailEditKeeps ==
  ASSUME ControlsInv, NEW e \in Edit, FailEdit(e)
  PROVE  /\ ControlsInv'
         /\ edit[e].stage = "read"
         /\ edit'[e].stage = "failed"
         /\ edit'[e].runtime = edit[e].runtime
         /\ \A d \in Edit \ {e} : edit'[d] = edit[d]
<1> DEFINE failed == [stage |-> "failed", process |-> edit[e].process,
                      runtime |-> edit[e].runtime, patch |-> edit[e].patch]
<1>1. /\ edit[e].stage = "read"
      /\ edit' = [edit EXCEPT ![e] = failed]
      /\ UNCHANGED <<controls, intended, raced>>
  BY DEF FailEdit
<1>2. edit \in [Edit -> EditState] /\ raced \subseteq Edit
  BY DEF ControlsInv, ControlsTypeOK
<1>3. failed \in EditState
  BY <1>1, <1>2, EditKinds DEF EditState
<1>4. edit'[e] = failed /\ \A d \in Edit \ {e} : edit'[d] = edit[d]
  BY <1>1, <1>2
<1>5. ControlsTypeOK'
  BY <1>1, <1>2, <1>3 DEF ControlsInv, ControlsTypeOK
<1>6. EditsSurvive'
  BY <1>1, <1>2, <1>4 DEF ControlsInv, EditsSurvive
<1>7. \A x \in Edit : edit'[x].stage = "read" /\ x \notin raced' =>
                        edit'[x].seen = controls'.runtimes
  BY <1>1, <1>4 DEF ControlsInv
<1>8. QED  BY <1>1, <1>4, <1>5, <1>6, <1>7 DEF ControlsInv

LEMMA BreakFileKeeps == ControlsInv /\ BreakFile => ControlsInv'
BY DEF ControlsInv, ControlsTypeOK, EditsSurvive, BreakFile

-----------------------------------------------------------------------------
\* The Apps page.

Request == [runtime : Runtime, patch : Patch]

\* An edit that answers a request is of the runtime that was asked for.
PatchesInv ==
  /\ patches \in [Edit -> Maybe(Request)]
  /\ \A t \in Edit : \A p \in patches[t] : edit[t].stage # "none" => edit[t].runtime = p.runtime

\* A row shows the file, or is about to: the answer of its request does.
Settled(t, r) == edit[t].stage = "done" /\ edit[t].runtime = r
RowFollows(r) ==
  \/ \E t \in page.pending : Settled(t, r) /\ edit[t].answer = controls.runtimes[r]
  \/ (\A t \in page.pending : ~Settled(t, r)) /\ page.rows[r] = controls.runtimes[r]

AppsShown ==
  ~page.crossed =>
    /\ \/ page.pending = {}
       \/ \E t \in Edit, p \in Request :
            page.pending = {t} /\ patches[t] = {p} /\ page.saving = {p.runtime}
    /\ \A r \in Runtime \ page.unseen : RowFollows(r)

LEMMA AppsShownSays ==
  ASSUME PatchesInv, page.name = "apps" => page \in AppsPage /\ AppsShown
  PROVE  RowsShowTheFile
<1>1. SUFFICES ASSUME page.name = "apps", ~page.crossed, NEW r \in Runtime,
                      \A t \in page.pending : \A p \in patches[t] : p.runtime # r,
                      r \notin page.unseen
               PROVE  page.rows[r] = controls.runtimes[r]
  BY DEF RowsShowTheFile
<1>2. RowFollows(r)
  BY <1>1 DEF AppsShown
<1>3. ASSUME NEW t \in page.pending PROVE ~Settled(t, r)
  <2>1. PICK p \in Request : t \in Edit /\ patches[t] = {p}
    BY <1>1 DEF AppsShown
  <2>2. p.runtime # r
    BY <1>1, <2>1
  <2>3. QED  BY <2>1, <2>2 DEF PatchesInv, Settled
<1>4. QED  BY <1>2, <1>3 DEF RowFollows

\* A call of setRuntimeControl begins: nothing is settled by that.
LEMMA BeginsUnsettled ==
  ASSUME ControlsInv, PatchesInv, UNCHANGED patches,
         NEW t \in Edit, NEW w, NEW r, NEW patch, BeginEdit(t, w, r, patch),
         \A p \in patches[t] : p.runtime = r
  PROVE  /\ PatchesInv'
         /\ \A u \in Edit : \A x : Settled(u, x)' <=> Settled(u, x)
         /\ \A u \in Edit : edit[u].stage = "done" => edit'[u] = edit[u]
<1> DEFINE next == IF controls.readable
                   THEN [stage |-> "read", process |-> w, runtime |-> r, patch |-> patch,
                         seen |-> controls.runtimes]
                   ELSE [stage |-> "failed", process |-> w, runtime |-> r, patch |-> patch]
<1>1. edit[t].stage = "none" /\ edit' = [edit EXCEPT ![t] = next]
  BY DEF BeginEdit
<1>2. next.stage # "done" /\ next.runtime = r
  OBVIOUS
<1> HIDE DEF next
<1>3. edit'[t] = next /\ \A u \in Edit \ {t} : edit'[u] = edit[u]
  BY <1>1 DEF ControlsInv, ControlsTypeOK
<1>4. PatchesInv'
  <2>1. patches' = patches
    OBVIOUS
  <2>2. ASSUME NEW u \in Edit, NEW p \in patches[u], edit'[u].stage # "none"
        PROVE  edit'[u].runtime = p.runtime
    BY <1>2, <1>3, <2>2 DEF PatchesInv
  <2>3. QED  BY <2>1, <2>2 DEF PatchesInv
<1>5. \A u \in Edit : \A x : Settled(u, x)' <=> Settled(u, x)
  BY <1>1, <1>2, <1>3 DEF Settled
<1>6. \A u \in Edit : edit[u].stage = "done" => edit'[u] = edit[u]
  BY <1>1, <1>3
<1>7. QED  BY <1>4, <1>5, <1>6

LEMMA AppsTypes ==
  ASSUME page \in AppsPage
  PROVE  /\ page.name = "apps"
         /\ page.rows \in [Runtime -> Control]
         /\ page.saving \in Maybe(Runtime)
         /\ page.pending \subseteq Edit
         /\ page.crossed \in BOOLEAN
         /\ page.unseen \subseteq Runtime
BY DEF AppsPage

\* The page stays, and of the edits and the file what it depends on.
LEMMA AppsStay ==
  ASSUME page \in AppsPage, AppsShown, UNCHANGED <<page, patches>>,
         controls'.runtimes = controls.runtimes,
         \A u \in Edit : \A x : Settled(u, x)' <=> Settled(u, x),
         \A u \in Edit : edit[u].stage = "done" => edit'[u] = edit[u]
  PROVE  page' \in AppsPage /\ AppsShown'
<1>1. page.pending \subseteq Edit
  BY AppsTypes
<1>2. page' = page /\ patches' = patches
  OBVIOUS
<1>3. ASSUME NEW r \in Runtime, RowFollows(r)
      PROVE  RowFollows(r)'
  <2>1. CASE \E t \in page.pending : Settled(t, r) /\ edit[t].answer = controls.runtimes[r]
    <3>1. PICK t \in page.pending : Settled(t, r) /\ edit[t].answer = controls.runtimes[r]
      BY <2>1
    <3>2. edit'[t] = edit[t] /\ Settled(t, r)'
      BY <1>1, <3>1 DEF Settled
    <3>3. QED  BY <1>2, <3>1, <3>2 DEF RowFollows
  <2>2. CASE (\A t \in page.pending : ~Settled(t, r)) /\ page.rows[r] = controls.runtimes[r]
    BY <1>1, <1>2, <2>2 DEF RowFollows
  <2>3. QED  BY <1>3, <2>1, <2>2 DEF RowFollows
<1>4. QED  BY <1>2, <1>3 DEF AppsShown

\* The page changes while the edits and the file stay.
LEMMA RowsFollow ==
  ASSUME NEW r \in Runtime, UNCHANGED <<controls, edit>>,
         (\A t \in page'.pending : ~Settled(t, r)) /\ page'.rows[r] = controls.runtimes[r]
  PROVE  RowFollows(r)'
<1>1. controls' = controls /\ edit' = edit
  OBVIOUS
<1>2. \A t : Settled(t, r)' <=> Settled(t, r)
  BY <1>1 DEF Settled
<1>3. QED  BY <1>1, <1>2 DEF RowFollows

LEMMA OpenAppsKeeps ==
  ASSUME ControlsInv, OpenApps
  PROVE  page' \in AppsPage /\ AppsShown'
<1>1. /\ page' = [name |-> "apps", rows |-> controls.runtimes, saving |-> {}, pending |-> {},
                  crossed |-> FALSE, unseen |-> {}]
      /\ UNCHANGED <<controls, edit>>
  BY DEF OpenApps, Opens, controlVars
<1>2. controls.runtimes \in [Runtime -> Control]
  BY DEF ControlsInv, ControlsTypeOK
<1>3. page' \in AppsPage
  BY <1>1, <1>2 DEF AppsPage, Maybe
<1>4. page'.pending = {} /\ page'.rows = controls.runtimes
  BY <1>1
<1>5. \A r \in Runtime : RowFollows(r)'
  BY <1>1, <1>4, RowsFollow
<1>6. QED  BY <1>3, <1>4, <1>5 DEF AppsShown

LEMMA SendPatchKeeps ==
  ASSUME ControlsInv, PatchesInv, page \in AppsPage, AppsShown,
         NEW t \in Edit, NEW r \in Runtime, NEW patch \in Patch, SendPatch(t, r, patch)
  PROVE  PatchesInv' /\ page' \in AppsPage /\ AppsShown'
<1> DEFINE p == [runtime |-> r, patch |-> patch]
           crosses == \E q \in page.pending : \A x \in patches[q] : x.runtime # r
           crossed == page.crossed \/ crosses
           pending == page.pending \cup {t}
<1>1. /\ page' = [page EXCEPT !.saving = {r}, !.pending = pending, !.crossed = crossed]
      /\ patches' = [patches EXCEPT ![t] = {p}]
      /\ edit[t] = NoEdit /\ page.saving # {r}
      /\ controls' = controls /\ edit' = edit
  BY DEF SendPatch, Unused, Busy, controlVars, AppsPage
<1>2. p \in Request /\ {p} \in Maybe(Request) /\ p.runtime = r
  BY DEF Request, Maybe
<1>3. crossed \in BOOLEAN /\ (~crossed => ~page.crossed /\ ~crosses)
  BY AppsTypes
<1>4. page' \in AppsPage
  <2> HIDE DEF crossed, crosses, p
  <2>1. {r} \in Maybe(Runtime) /\ pending \in SUBSET Edit
    BY AppsTypes DEF Maybe
  <2> HIDE DEF pending
  <2>2. QED  BY <1>1, <1>3, <2>1 DEF AppsPage
<1>5. /\ page'.crossed = crossed /\ page'.pending = pending /\ page'.saving = {r}
      /\ page'.rows = page.rows /\ page'.unseen = page.unseen
  BY <1>1 DEF AppsPage
<1>6. patches'[t] = {p} /\ \A u \in Edit \ {t} : patches'[u] = patches[u]
  BY <1>1 DEF PatchesInv
<1>7. PatchesInv'
  <2>1. patches' \in [Edit -> Maybe(Request)]
    BY <1>1, <1>2 DEF PatchesInv
  <2>2. edit[t].stage = "none"
    BY <1>1 DEF NoEdit
  <2>3. \A u \in Edit : \A x \in patches'[u] : edit'[u].stage # "none" => edit'[u].runtime = x.runtime
    BY <1>1, <1>6, <2>2 DEF PatchesInv
  <2>4. QED  BY <2>1, <2>3 DEF PatchesInv
<1> HIDE DEF p
<1>8. ASSUME ~crossed
      PROVE  page.pending = {}
  <2>1. ~page.crossed /\ ~crosses
    BY <1>3, <1>8
  <2>2. ASSUME NEW u \in Edit, NEW q \in Request, page.pending = {u}, patches[u] = {q},
               page.saving = {q.runtime}
        PROVE  FALSE
    <3>1. q.runtime = r
      BY <2>1, <2>2
    <3>2. QED  BY <1>1, <2>2, <3>1
  <2>3. QED  BY <2>1, <2>2 DEF AppsShown
<1>9. AppsShown'
  <2>1. SUFFICES ASSUME ~crossed
                 PROVE  /\ \E u \in Edit, q \in Request :
                             page'.pending = {u} /\ patches'[u] = {q} /\ page'.saving = {q.runtime}
                        /\ \A x \in Runtime \ page'.unseen : RowFollows(x)'
    <3> HIDE DEF crossed
    <3>1. QED  BY <1>5 DEF AppsShown
  <2>2. page.pending = {} /\ ~page.crossed
    BY <1>3, <1>8, <2>1
  <2>3. page'.pending = {t} /\ patches'[t] = {p} /\ page'.saving = {p.runtime}
    BY <1>2, <1>5, <1>6, <2>2
  <2>4. ASSUME NEW x \in Runtime \ page.unseen PROVE RowFollows(x)'
    <3>1. page.rows[x] = controls.runtimes[x]
      BY <2>2 DEF AppsShown, RowFollows
    <3>2. ~Settled(t, x)
      BY <1>1 DEF Settled, NoEdit
    <3>3. QED  BY <1>1, <1>5, <2>3, <3>1, <3>2, RowsFollow
  <2>5. QED  BY <1>2, <1>5, <2>3, <2>4
<1>10. QED  BY <1>4, <1>7, <1>9

\* The answer to a request comes, or is lost: the page is Back(t), but for one row.
LEMMA PatchAnswerKeeps ==
  ASSUME ControlsInv, PatchesInv, page \in AppsPage, AppsShown, NEW t \in page.pending,
         PatchAnswered(t) \/ PatchErrored(t) \/ PatchLost(t)
  PROVE  PatchesInv' /\ page' \in AppsPage /\ AppsShown'
<1>1. /\ patches' = patches /\ controls' = controls /\ edit' = edit
      /\ t \in Edit
  BY AppsTypes DEF PatchAnswered, PatchErrored, PatchLost, controlVars
<1>2. PatchesInv'
  BY <1>1 DEF PatchesInv
<1>3. PICK rows \in [Runtime -> Control], unseen \in SUBSET Runtime :
        /\ page' = [page EXCEPT !.saving = {}, !.pending = @ \ {t}, !.rows = rows, !.unseen = unseen]
        /\ ~page.crossed => \A r \in Runtime \ unseen : rows[r] = controls.runtimes[r]
  <2>1. ASSUME ~page.crossed
        PROVE  \E p \in Request :
                 /\ page.pending = {t} /\ patches[t] = {p}
                 /\ \A r : Settled(t, r) => r = p.runtime
                 /\ \A r \in Runtime \ page.unseen :
                      \/ Settled(t, r) /\ edit[t].answer = controls.runtimes[r]
                      \/ ~Settled(t, r) /\ page.rows[r] = controls.runtimes[r]
    <3>1. PICK u \in Edit, p \in Request : page.pending = {u} /\ patches[u] = {p}
      BY <2>1 DEF AppsShown
    <3>2. page.pending = {t} /\ patches[t] = {p}
      BY <3>1
    <3>3. \A r : Settled(t, r) => r = p.runtime
      BY <1>1, <3>2 DEF Settled, PatchesInv
    <3>4. \A r \in Runtime \ page.unseen : RowFollows(r)
      BY <2>1 DEF AppsShown
    <3>5. QED  BY <3>2, <3>3, <3>4 DEF RowFollows
  <2>2. CASE PatchAnswered(t)
    <3> DEFINE r == edit[t].runtime
               rows == [page.rows EXCEPT ![r] = edit[t].answer]
    <3>1. /\ edit[t].stage = "done"
          /\ page' = [Back(t) EXCEPT !.rows[r] = edit[t].answer]
      BY <2>2 DEF PatchAnswered
    <3>2. r \in Runtime /\ edit[t].answer \in Control
      BY <1>1, <3>1, EditKinds DEF ControlsInv, ControlsTypeOK
    <3>3. page' = [page EXCEPT !.saving = {}, !.pending = @ \ {t}, !.rows = rows, !.unseen = page.unseen]
      BY <3>1 DEF Back, AppsPage
    <3>4. /\ rows \in [Runtime -> Control]
          /\ rows[r] = edit[t].answer
          /\ \A x \in Runtime \ {r} : rows[x] = page.rows[x]
      BY <3>2, AppsTypes
    <3>5. Settled(t, r) /\ \A x : x # r => ~Settled(t, x)
      BY <3>1 DEF Settled
    <3> HIDE DEF rows, r
    <3>6. ~page.crossed => \A x \in Runtime \ page.unseen : rows[x] = controls.runtimes[x]
      BY <2>1, <3>2, <3>4, <3>5
    <3>7. QED  BY <3>3, <3>4, <3>6, AppsTypes
  <2>3. CASE PatchErrored(t)
    <3>1. page' = [page EXCEPT !.saving = {}, !.pending = @ \ {t}, !.rows = page.rows,
                               !.unseen = page.unseen]
      BY <2>3 DEF PatchErrored, Back, AppsPage
    <3>2. \A r : ~Settled(t, r)
      BY <2>3 DEF PatchErrored, Settled
    <3>3. ~page.crossed => \A r \in Runtime \ page.unseen : page.rows[r] = controls.runtimes[r]
      BY <2>1, <3>2
    <3>4. QED  BY <3>1, <3>3, AppsTypes
  <2>4. CASE PatchLost(t)
    <3> DEFINE lost == {p.runtime : p \in patches[t]}
               unseen == page.unseen \cup lost
    <3>1. page' = [page EXCEPT !.saving = {}, !.pending = @ \ {t}, !.rows = page.rows,
                               !.unseen = unseen]
      BY <2>4 DEF PatchLost, Back, AppsPage
    <3>2. unseen \in SUBSET Runtime
      <4>1. patches[t] \in Maybe(Request)
        BY <1>1 DEF PatchesInv
      <4>2. QED  BY <4>1, AppsTypes DEF Maybe, Request
    <3>3. ~page.crossed => \A r \in Runtime \ unseen : page.rows[r] = controls.runtimes[r]
      <4>1. SUFFICES ASSUME ~page.crossed, NEW r \in Runtime \ unseen
                     PROVE  page.rows[r] = controls.runtimes[r]
        OBVIOUS
      <4>2. r \notin page.unseen /\ \A p \in patches[t] : p.runtime # r
        OBVIOUS
      <4> HIDE DEF unseen, lost
      <4>3. QED  BY <2>1, <4>1, <4>2
    <3> HIDE DEF unseen, lost
    <3>4. QED  BY <3>1, <3>2, <3>3, AppsTypes
  <2>5. QED  BY <2>2, <2>3, <2>4
<1>4. page' \in AppsPage
  <2>1. {} \in Maybe(Runtime) /\ page.pending \ {t} \in SUBSET Edit
    BY AppsTypes DEF Maybe
  <2>2. QED  BY <1>3, <2>1 DEF AppsPage
<1>5. /\ page'.pending = page.pending \ {t} /\ page'.rows = rows /\ page'.unseen = unseen
      /\ page'.crossed = page.crossed
  BY <1>3 DEF AppsPage
<1>6. AppsShown'
  <2>1. SUFFICES ASSUME ~page.crossed
                 PROVE  page'.pending = {} /\ \A r \in Runtime \ unseen : RowFollows(r)'
    BY <1>5 DEF AppsShown
  <2>2. page'.pending = {}
    BY <1>5, <2>1 DEF AppsShown
  <2>3. QED  BY <1>1, <1>3, <1>5, <2>1, <2>2, RowsFollow
<1>7. QED  BY <1>2, <1>4, <1>6

\* A write: a row it changes unasked is one the page cannot know of, the row it was asked
\* for is settled, and the others follow the file as before.
LEMMA WritesKeep ==
  ASSUME ControlsInv, PatchesInv, NEW t \in Edit, Writes(t)
  PROVE  /\ ControlsInv' /\ PatchesInv'
         /\ page.name # "apps" => page' = page
         /\ page \in AppsPage /\ AppsShown => page' \in AppsPage /\ AppsShown'
<1> DEFINE changed == {r \in Runtime : /\ controls'.runtimes[r] # controls.runtimes[r]
                                       /\ ~(t \in page.pending /\ edit[t].runtime = r)}
<1>1. /\ ControlsInv'
      /\ edit[t].stage = "read"
      /\ edit'[t].stage = "done"
      /\ edit'[t].runtime = edit[t].runtime
      /\ edit'[t].answer = controls'.runtimes[edit[t].runtime]
      /\ \A d \in Edit \ {t} : edit'[d] = edit[d]
  BY CommitEditKeeps DEF Writes
<1>2. /\ patches' = patches
      /\ page.name # "apps" => page' = page
      /\ page.name = "apps" => page' = [page EXCEPT !.unseen = page.unseen \cup changed]
  BY DEF Writes
<1>3. PatchesInv'
  BY <1>1, <1>2 DEF PatchesInv
<1>4. ASSUME page \in AppsPage, AppsShown
      PROVE  page' \in AppsPage /\ AppsShown'
  <2>1. page' = [page EXCEPT !.unseen = page.unseen \cup changed]
    BY <1>2, <1>4, AppsTypes
  <2>2. changed \subseteq Runtime
    OBVIOUS
  <2>3. \A r \in Runtime \ changed : \/ controls'.runtimes[r] = controls.runtimes[r]
                                     \/ t \in page.pending /\ edit[t].runtime = r
    OBVIOUS
  <2> HIDE DEF changed
  <2>4. page' \in AppsPage
    BY <1>4, <2>1, <2>2 DEF AppsPage
  <2>5. /\ page'.unseen = page.unseen \cup changed /\ page'.pending = page.pending
        /\ page'.rows = page.rows /\ page'.crossed = page.crossed /\ page'.saving = page.saving
    BY <1>4, <2>1 DEF AppsPage
  <2>6. page.pending \subseteq Edit
    BY <1>4, AppsTypes
  <2>7. ASSUME NEW r \in Runtime, RowFollows(r), r \notin changed
        PROVE  RowFollows(r)'
    <3>1. CASE t \in page.pending /\ edit[t].runtime = r
      BY <1>1, <2>5, <3>1 DEF RowFollows, Settled
    <3>2. CASE ~(t \in page.pending /\ edit[t].runtime = r)
      <4>1. controls'.runtimes[r] = controls.runtimes[r]
        BY <2>3, <2>7, <3>2
      <4>2. \A u \in page.pending : Settled(u, r)' <=> Settled(u, r)
        BY <1>1, <2>6, <3>2 DEF Settled
      <4>3. \A u \in page.pending : Settled(u, r) => edit'[u] = edit[u]
        BY <1>1, <2>6 DEF Settled
      <4>4. CASE \E u \in page.pending : Settled(u, r) /\ edit[u].answer = controls.runtimes[r]
        BY <2>5, <4>1, <4>2, <4>3, <4>4 DEF RowFollows
      <4>5. CASE (\A u \in page.pending : ~Settled(u, r)) /\ page.rows[r] = controls.runtimes[r]
        BY <2>5, <4>1, <4>2, <4>5 DEF RowFollows
      <4>6. QED  BY <2>7, <4>4, <4>5 DEF RowFollows
    <3>3. QED  BY <3>1, <3>2
  <2>8. QED  BY <1>2, <1>4, <2>4, <2>5, <2>7 DEF AppsShown
<1>5. QED  BY <1>1, <1>2, <1>3, <1>4

\* A step of the Apps page, of its server or of another process that edits the file.
LEMMA AppsStepKeeps ==
  ASSUME ControlsInv, PatchesInv, AppsStep,
         page.name = "apps" => page \in AppsPage /\ AppsShown
  PROVE  /\ ControlsInv' /\ PatchesInv'
         /\ page.name = "apps" \/ page' # page => page' \in AppsPage /\ AppsShown'
<1>1. CASE OpenApps
  <2>1. ControlsInv' /\ PatchesInv'
    BY <1>1 DEF OpenApps, controlVars, ControlsInv, ControlsTypeOK, EditsSurvive, PatchesInv
  <2>2. QED  BY <1>1, <2>1, OpenAppsKeeps
<1>2. ASSUME NEW t \in Edit, NEW r \in Runtime, TogglePause(t, r) \/ ToggleTrace(t, r)
      PROVE  ControlsInv' /\ PatchesInv' /\ page' \in AppsPage /\ AppsShown'
  <2>1. page \in AppsPage /\ AppsShown
    BY <1>2 DEF TogglePause, ToggleTrace, On
  <2>2. page.rows[r] \in Control
    BY <2>1, AppsTypes
  <2>3. PICK patch \in Patch : SendPatch(t, r, patch)
    BY <1>2, <2>2 DEF TogglePause, ToggleTrace, Patch, Control
  <2>4. ControlsInv'
    BY <2>3 DEF SendPatch, controlVars, ControlsInv, ControlsTypeOK, EditsSurvive
  <2>5. QED  BY <2>1, <2>3, <2>4, SendPatchKeeps
<1>3. ASSUME NEW t \in Edit, Patches(t)
      PROVE  /\ ControlsInv' /\ PatchesInv' /\ page' = page
             /\ page.name = "apps" => page' \in AppsPage /\ AppsShown'
  <2>1. PICK p \in patches[t] : BeginEdit(t, Server, p.runtime, p.patch)
    BY <1>3 DEF Patches
  <2>2. /\ p \in Request /\ patches[t] = {p}
        /\ page' = page /\ patches' = patches
    BY <1>3, <2>1 DEF PatchesInv, Maybe, Patches, pageVars
  <2>3. p.runtime \in Runtime /\ p.patch \in Patch
    BY <2>2 DEF Request
  <2>4. ControlsInv'
    BY <2>1, <2>3, BeginEditKeeps, DashboardConstants
  <2>5. /\ PatchesInv'
        /\ \A u \in Edit : \A x : Settled(u, x)' <=> Settled(u, x)
        /\ \A u \in Edit : edit[u].stage = "done" => edit'[u] = edit[u]
    BY <2>1, <2>2, BeginsUnsettled
  <2>6. controls'.runtimes = controls.runtimes
    BY <2>1 DEF BeginEdit
  <2>7. QED  BY <2>2, <2>4, <2>5, <2>6, AppsStay
<1>4. ASSUME NEW t \in Edit, Writes(t)
      PROVE  /\ ControlsInv' /\ PatchesInv'
             /\ page.name = "apps" \/ page' # page => page' \in AppsPage /\ AppsShown'
  BY <1>4, WritesKeep
<1>5. ASSUME NEW t \in Edit, PatchAnswered(t) \/ PatchErrored(t) \/ PatchLost(t)
      PROVE  ControlsInv' /\ PatchesInv' /\ page' \in AppsPage /\ AppsShown'
  <2>1. page \in AppsPage /\ AppsShown /\ t \in page.pending
    BY <1>5 DEF PatchAnswered, PatchErrored, PatchLost, On
  <2>2. ControlsInv'
    BY <1>5 DEF PatchAnswered, PatchErrored, PatchLost, controlVars, ControlsInv, ControlsTypeOK,
                EditsSurvive
  <2>3. QED  BY <1>5, <2>1, <2>2, PatchAnswerKeeps
<1>6. ASSUME NEW t \in Edit, NEW w \in Process, NEW o \in OtherPatch, OtherEdit(t, w, o[1], o[2])
      PROVE  /\ ControlsInv' /\ PatchesInv' /\ page' = page
             /\ page.name = "apps" => page' \in AppsPage /\ AppsShown'
  <2>1. o[1] \in Runtime /\ o[2] \in Patch
    BY DashboardConstants
  <2>2. /\ BeginEdit(t, w, o[1], o[2]) /\ patches[t] = {}
        /\ page' = page /\ patches' = patches
    BY <1>6 DEF OtherEdit, Unused, pageVars
  <2>3. ControlsInv'
    BY <2>1, <2>2, BeginEditKeeps
  <2>4. /\ PatchesInv'
        /\ \A u \in Edit : \A x : Settled(u, x)' <=> Settled(u, x)
        /\ \A u \in Edit : edit[u].stage = "done" => edit'[u] = edit[u]
    BY <2>2, BeginsUnsettled
  <2>5. controls'.runtimes = controls.runtimes
    BY <2>2 DEF BeginEdit
  <2>6. QED  BY <2>2, <2>3, <2>4, <2>5, AppsStay
<1>7. ASSUME NEW t \in Edit, EditErrs(t)
      PROVE  /\ ControlsInv' /\ PatchesInv' /\ page' = page
             /\ page.name = "apps" => page' \in AppsPage /\ AppsShown'
  <2>1. /\ FailEdit(t) /\ page' = page /\ patches' = patches
        /\ controls'.runtimes = controls.runtimes
    BY <1>7 DEF EditErrs, FailEdit, pageVars
  <2>2. /\ ControlsInv'
        /\ edit[t].stage = "read" /\ edit'[t].stage = "failed"
        /\ edit'[t].runtime = edit[t].runtime
        /\ \A u \in Edit \ {t} : edit'[u] = edit[u]
    BY <2>1, FailEditKeeps
  <2>3. PatchesInv'
    BY <2>1, <2>2 DEF PatchesInv
  <2>4. \A u \in Edit : \A x : Settled(u, x)' <=> Settled(u, x)
    BY <2>2 DEF Settled
  <2>5. \A u \in Edit : edit[u].stage = "done" => edit'[u] = edit[u]
    BY <2>2
  <2>6. QED  BY <2>1, <2>2, <2>3, <2>4, <2>5, AppsStay
<1>8. CASE BreakFile /\ UNCHANGED <<memoryVars, pageVars, patches>>
  <2>1. /\ page' = page /\ patches' = patches /\ edit' = edit
        /\ controls'.runtimes = controls.runtimes
    BY <1>8 DEF BreakFile, pageVars, ControlsInv, ControlsTypeOK
  <2>2. \A u, x : Settled(u, x)' <=> Settled(u, x)
    BY <2>1 DEF Settled
  <2>3. ControlsInv' /\ PatchesInv'
    BY <1>8, <2>1, BreakFileKeeps DEF PatchesInv
  <2>4. QED  BY <2>1, <2>2, <2>3, AppsStay
<1>9. QED  BY <1>1, <1>2, <1>3, <1>4, <1>5, <1>6, <1>7, <1>8 DEF AppsStep

-----------------------------------------------------------------------------
\* The runs of add and the log of calls.

AddState == [stage : AddStage, session : Maybe(Session), lost : BOOLEAN, retried : BOOLEAN]
Call == [tool : {MEMORY_TOOL, OTHER_TOOL}, session : Session, blob : Maybe(Task)]

\* A run of add and its calls.
AddOK(t) ==
  /\ CallsOf(t) # {} => t \in blobs
  /\ \A i \in CallsOf(t) : adds[t].session = {events[i].session}
  /\ adds[t].stage \in {"done", "attesting", "attestation_error"} => t \in blobs
  /\ adds[t].stage \in {"none", "writing"} => t \notin blobs
  /\ adds[t].stage \in {"attesting", "attestation_error"} => adds[t].session # {}
  /\ adds[t].stage = "done" /\ adds[t].session # {} => CallsOf(t) # {}
  /\ ~adds[t].lost => \A i, j \in CallsOf(t) : i = j
  /\ ~adds[t].lost /\ adds[t].stage # "done" => CallsOf(t) = {}

MemoryInv == MemoryTypeOK /\ \A t \in Task : AddOK(t)

LEMMA MemoryStart == MemoryInit => MemoryInv
<1> SUFFICES ASSUME MemoryInit PROVE MemoryInv
  OBVIOUS
<1>1. MemoryTypeOK
  BY DEF MemoryInit, MemoryTypeOK, NoAdd, AddStage, Maybe
<1>2. ASSUME NEW t \in Task PROVE AddOK(t)
  <2>1. CallsOf(t) = {}
    BY DEF MemoryInit, CallsOf
  <2>2. QED  BY <2>1 DEF MemoryInit, AddOK, NoAdd
<1>3. QED  BY <1>1, <1>2 DEF MemoryInv

LEMMA MemoryInvSays == MemoryInv => AnswersAreTrue
BY DEF MemoryInv, AnswersAreTrue, AddOK

LEMMA AddTypes ==
  ASSUME MemoryInv, NEW t \in Task
  PROVE  /\ AddOK(t)
         /\ adds[t] \in AddState
         /\ adds \in [Task -> AddState]
         /\ blobs \subseteq Task
         /\ events \in Seq(Call)
BY DEF MemoryInv, MemoryTypeOK, AddState, Call

LEMMA AddFields ==
  ASSUME NEW a \in AddState, NEW stage \in AddStage
  PROVE  /\ [a EXCEPT !.stage = stage] \in AddState
         /\ a.session = {} \/ \E s \in Session : a.session = {s}
         /\ a.lost \in BOOLEAN
BY DEF AddState, Maybe

\* One run of add goes on, without a call.
LEMMA AddKeeps ==
  ASSUME MemoryInv, NEW t \in Task, NEW a \in AddState,
         adds' = [adds EXCEPT ![t] = a], events' = events,
         blobs \subseteq blobs', blobs' \subseteq blobs \cup {t},
         AddOK(t)'
  PROVE  MemoryInv'
<1>1. MemoryTypeOK'
  BY AddTypes DEF MemoryTypeOK, AddState, MemoryInv
<1>2. ASSUME NEW u \in Task \ {t} PROVE AddOK(u)'
  <2>1. /\ adds'[u] = adds[u]
        /\ CallsOf(u)' = CallsOf(u)
        /\ AddOK(u)
    BY DEF MemoryInv, MemoryTypeOK, CallsOf
  <2>2. u \in blobs' <=> u \in blobs
    OBVIOUS
  <2>3. QED  BY <2>1, <2>2 DEF AddOK
<1>3. QED  BY <1>1, <1>2 DEF MemoryInv

LEMMA AddBegins ==
  ASSUME MemoryInv, NEW t \in Task, NEW session \in Maybe(Session), Add(t, session)
  PROVE  MemoryInv'
<1> DEFINE a == [adds[t] EXCEPT !.stage = "writing", !.session = session]
<1>1. /\ adds[t] = NoAdd
      /\ adds' = [adds EXCEPT ![t] = a]
      /\ UNCHANGED <<blobs, events>>
  BY AddTypes DEF Add
<1>2. a \in AddState
  <2>1. adds[t] \in AddState
    BY AddTypes
  <2>2. QED  BY <2>1 DEF AddState, AddStage
<1>3. AddOK(t)'
  <2>1. CallsOf(t) = {} /\ t \notin blobs
    BY <1>1, AddTypes DEF AddOK, NoAdd
  <2>2. adds'[t] = a /\ CallsOf(t)' = CallsOf(t)
    BY <1>1, AddTypes DEF CallsOf
  <2>3. a.stage = "writing"
    BY <1>1 DEF NoAdd
  <2>4. QED  BY <1>1, <2>1, <2>2, <2>3 DEF AddOK
<1> HIDE DEF a
<1>4. QED  BY <1>1, <1>2, <1>3, AddKeeps

\* A step of add that changes its stage only.
LEMMA StageKeeps ==
  ASSUME MemoryInv, NEW t \in Task, NEW stage \in AddStage,
         adds' = [adds EXCEPT ![t].stage = stage], events' = events,
         blobs \subseteq blobs', blobs' \subseteq blobs \cup {t},
         stage \notin {"none", "writing"},
         adds[t].stage \notin {"none", "done"},
         stage \in {"done", "attesting", "attestation_error"} => t \in blobs',
         stage \in {"attesting", "attestation_error"} => adds[t].session # {},
         stage = "done" => adds[t].session = {}
  PROVE  MemoryInv'
<1> DEFINE a == [adds[t] EXCEPT !.stage = stage]
<1>1. adds' = [adds EXCEPT ![t] = a]
  BY AddTypes
<1>2. a \in AddState
  BY AddTypes, AddFields
<1>3. /\ adds'[t] = a /\ a.stage = stage
      /\ a.session = adds[t].session /\ a.lost = adds[t].lost
      /\ CallsOf(t)' = CallsOf(t)
  BY <1>1, AddTypes DEF AddState, CallsOf
<1>4. AddOK(t)'
  BY <1>3, AddTypes DEF AddOK
<1> HIDE DEF a
<1>5. QED  BY <1>1, <1>2, <1>4, AddKeeps

LEMMA RememberedKeeps ==
  ASSUME MemoryInv, NEW t \in Task, Remembered(t)
  PROVE  MemoryInv'
<1> DEFINE stage == IF adds[t].session = {} THEN "done" ELSE "attesting"
<1>1. /\ adds[t].stage = "writing"
      /\ blobs' = blobs \cup {t}
      /\ adds' = [adds EXCEPT ![t].stage = stage]
      /\ events' = events
  BY DEF Remembered
<1>2. stage \in {"done", "attesting"} /\ stage \in AddStage
  BY DEF AddStage
<1>3. stage = "done" <=> adds[t].session = {}
  OBVIOUS
<1> HIDE DEF stage
<1>4. QED  BY <1>1, <1>2, <1>3, StageKeeps

LEMMA RememberFailsKeeps ==
  ASSUME MemoryInv, NEW t \in Task, RememberFails(t)
  PROVE  MemoryInv'
<1>1. "write_error" \in AddStage
  BY DEF AddStage
<1>2. QED  BY <1>1, StageKeeps DEF RememberFails

LEMMA AttestationFailsKeeps ==
  ASSUME MemoryInv, NEW t \in Task, AttestationFails(t)
  PROVE  MemoryInv'
<1>1. "attestation_error" \in AddStage
  BY DEF AddStage
<1>2. adds[t].stage = "attesting" /\ t \in blobs /\ adds[t].session # {}
  BY AddTypes DEF AttestationFails, AddOK
<1>3. QED  BY <1>1, <1>2, StageKeeps DEF AttestationFails

LEMMA RetryAttestationKeeps ==
  ASSUME MemoryInv, NEW t \in Task, RetryAttestation(t)
  PROVE  MemoryInv'
<1> DEFINE a == [adds[t] EXCEPT !.stage = "attesting", !.retried = TRUE]
<1>1. /\ adds[t].stage = "attestation_error"
      /\ adds' = [adds EXCEPT ![t] = a]
      /\ UNCHANGED <<blobs, events>>
  BY AddTypes DEF RetryAttestation
<1>2. a \in AddState
  BY AddTypes DEF AddState, AddStage
<1>3. /\ adds'[t] = a /\ a.stage = "attesting"
      /\ a.session = adds[t].session /\ a.lost = adds[t].lost
      /\ CallsOf(t)' = CallsOf(t)
  BY <1>1, AddTypes DEF AddState, CallsOf
<1>4. AddOK(t)'
  BY <1>1, <1>3, AddTypes DEF AddOK
<1> HIDE DEF a
<1>5. QED  BY <1>1, <1>2, <1>4, AddKeeps

-----------------------------------------------------------------------------
\* What a new call does to the calls there were.
LEMMA CallsGrow ==
  ASSUME events \in Seq(Call), NEW call \in Call, events' = Append(events, call)
  PROVE  /\ events' \in Seq(Call)
         /\ Len(events') = Len(events) + 1
         /\ events'[Len(events) + 1] = call
         /\ \A i \in 1..Len(events) : events'[i] = events[i]
         /\ \A t : CallsOf(t)' = CallsOf(t) \cup
              {i \in {Len(events) + 1} : call.tool = MEMORY_TOOL /\ call.blob = {t}}
         /\ \A t : CallsOf(t) \subseteq 1..Len(events)
<1>1. /\ events' \in Seq(Call)
      /\ Len(events') = Len(events) + 1
      /\ events'[Len(events) + 1] = call
      /\ \A i \in 1..Len(events) : events'[i] = events[i]
      /\ DOMAIN events = 1..Len(events)
      /\ DOMAIN events' = 1..(Len(events) + 1)
      /\ Len(events) \in Nat
  OBVIOUS
<1>2. 1..(Len(events) + 1) = 1..Len(events) \cup {Len(events) + 1}
  BY <1>1
<1>3. ASSUME NEW t
      PROVE  CallsOf(t)' = CallsOf(t) \cup
               {i \in {Len(events) + 1} : call.tool = MEMORY_TOOL /\ call.blob = {t}}
  BY <1>1, <1>2 DEF CallsOf
<1>4. \A t : CallsOf(t) \subseteq 1..Len(events)
  BY <1>1 DEF CallsOf
<1>5. QED  BY <1>1, <1>3, <1>4

LEMMA AttestedKeeps ==
  ASSUME MemoryInv, NEW t \in Task, NEW answered \in BOOLEAN, Attested(t, answered)
  PROVE  MemoryInv'
<1> DEFINE a == [adds[t] EXCEPT !.stage = IF answered THEN "done" ELSE "attestation_error",
                                !.lost = @ \/ ~answered]
<1>1. /\ adds[t].stage = "attesting"
      /\ adds' = [adds EXCEPT ![t] = a]
      /\ blobs' = blobs
  BY AddTypes DEF Attested
<1>2. PICK s \in adds[t].session :
        events' = Append(events, [tool |-> MEMORY_TOOL, session |-> s, blob |-> {t}])
  BY DEF Attested
<1> DEFINE call == [tool |-> MEMORY_TOOL, session |-> s, blob |-> {t}]
<1>3. adds[t].session = {s} /\ s \in Session
  <2>1. adds[t] \in AddState
    BY AddTypes
  <2>2. adds[t].session = {} \/ \E x \in Session : adds[t].session = {x}
    BY <2>1 DEF AddState, Maybe
  <2>3. s \in adds[t].session
    BY <1>2
  <2>4. QED  BY <2>2, <2>3
<1>4. call \in Call /\ call.tool = MEMORY_TOOL /\ call.session = s /\ call.blob = {t}
  BY <1>3 DEF Call, Maybe
<1>5. a \in AddState
  BY AddTypes DEF AddState, AddStage
<1>6. /\ a.stage = IF answered THEN "done" ELSE "attestation_error"
      /\ a.lost = (adds[t].lost \/ ~answered)
      /\ a.session = {s}
  BY <1>3, AddTypes DEF AddState
<1>7. events' = Append(events, call) /\ events \in Seq(Call)
  BY <1>2, AddTypes
<1> HIDE DEF call, a
<1>8. /\ events' \in Seq(Call)
      /\ events'[Len(events) + 1] = call
      /\ \A i \in 1..Len(events) : events'[i] = events[i]
      /\ CallsOf(t)' = CallsOf(t) \cup {Len(events) + 1}
      /\ \A u \in Task \ {t} : CallsOf(u)' = CallsOf(u)
      /\ \A u \in Task : CallsOf(u) \subseteq 1..Len(events)
  <2>1. \A u : CallsOf(u)' = CallsOf(u) \cup
                 {i \in {Len(events) + 1} : call.tool = MEMORY_TOOL /\ call.blob = {u}}
    BY <1>4, <1>7, CallsGrow
  <2>2. QED  BY <1>4, <1>7, <2>1, CallsGrow
<1>9. MemoryTypeOK'
  <2>1. adds' \in [Task -> AddState]
    BY <1>1, <1>5, AddTypes
  <2>2. QED  BY <1>1, <1>8, <2>1, AddTypes DEF MemoryTypeOK, AddState, Call
<1>10. AddOK(t)'
  <2>1. adds'[t] = a
    BY <1>1, AddTypes
  <2>2. t \in blobs' /\ CallsOf(t)' # {}
    BY <1>1, <1>8, AddTypes DEF AddOK
  <2>3. \A i \in CallsOf(t)' : adds'[t].session = {events'[i].session}
    BY <1>3, <1>4, <1>6, <1>8, <2>1, AddTypes DEF AddOK
  <2>4. ~a.lost => \A i, j \in CallsOf(t)' : i = j
    BY <1>1, <1>6, <1>8, AddTypes, AddFields DEF AddOK, AddStage
  <2>5. QED  BY <1>3, <1>6, <2>1, <2>2, <2>3, <2>4 DEF AddOK
<1>11. ASSUME NEW u \in Task \ {t} PROVE AddOK(u)'
  <2>1. adds'[u] = adds[u] /\ CallsOf(u)' = CallsOf(u) /\ AddOK(u)
    BY <1>1, <1>8, AddTypes DEF MemoryInv
  <2>2. \A i \in CallsOf(u) : events'[i] = events[i]
    BY <1>8
  <2>3. QED  BY <1>1, <2>1, <2>2 DEF AddOK
<1>12. QED  BY <1>9, <1>10, <1>11 DEF MemoryInv

LEMMA OtherCallKeeps == MemoryInv /\ OtherCall => MemoryInv'
<1> SUFFICES ASSUME MemoryInv, OtherCall PROVE MemoryInv'
  OBVIOUS
<1> DEFINE s == CHOOSE x \in AttestIn : TRUE
           call == [tool |-> OTHER_TOOL, session |-> s, blob |-> {}]
<1>1. s \in Session
  BY AttestInIsSession
<1>2. events' = Append(events, call) /\ UNCHANGED <<adds, blobs>>
  BY DEF OtherCall
<1> HIDE DEF s
<1>3. call \in Call /\ call.blob = {}
  BY <1>1 DEF Call, Maybe
<1> HIDE DEF call
<1>4. events \in Seq(Call) /\ adds \in [Task -> AddState] /\ blobs \subseteq Task
  BY DEF MemoryInv, MemoryTypeOK, AddState, Call
<1>5. /\ events' \in Seq(Call)
      /\ \A i \in 1..Len(events) : events'[i] = events[i]
      /\ \A t : CallsOf(t) \subseteq 1..Len(events)
      /\ \A t : CallsOf(t)' = CallsOf(t)
  <2>1. \A t : CallsOf(t)' = CallsOf(t) \cup
                 {i \in {Len(events) + 1} : call.tool = MEMORY_TOOL /\ call.blob = {t}}
    BY <1>2, <1>3, <1>4, CallsGrow
  <2>2. QED  BY <1>2, <1>3, <1>4, <2>1, CallsGrow
<1>6. MemoryTypeOK'
  BY <1>2, <1>4, <1>5 DEF MemoryTypeOK, AddState, Call
<1>7. \A t \in Task : AddOK(t)'
  <2>1. TAKE t \in Task
  <2>2. AddOK(t) /\ CallsOf(t)' = CallsOf(t) /\ \A i \in CallsOf(t) : events'[i] = events[i]
    BY <1>5 DEF MemoryInv
  <2>3. adds' = adds /\ blobs' = blobs
    BY <1>2
  <2>4. QED  BY <2>2, <2>3 DEF AddOK
<1>8. QED  BY <1>6, <1>7 DEF MemoryInv

LEMMA MemoryStepKeeps == MemoryInv /\ MemoryStep => MemoryInv'
<1> SUFFICES ASSUME MemoryInv, MemoryStep PROVE MemoryInv'
  OBVIOUS
<1>1. ASSUME NEW t \in Task, NEW s \in AttestIn, Add(t, {s})
      PROVE  MemoryInv'
  <2>1. {s} \in Maybe(Session)
    BY AttestInIsSession DEF Maybe
  <2>2. QED  BY <1>1, <2>1, AddBegins
<1>2. ASSUME NEW t \in Task, Add(t, {})
      PROVE  MemoryInv'
  <2>1. {} \in Maybe(Session)
    BY DEF Maybe
  <2>2. QED  BY <1>2, <2>1, AddBegins
<1>3. ASSUME NEW t \in Task, Remembered(t) \/ RememberFails(t)
      PROVE  MemoryInv'
  BY <1>3, RememberedKeeps, RememberFailsKeeps
<1>4. ASSUME NEW t \in Task, NEW answered \in BOOLEAN, Attested(t, answered)
      PROVE  MemoryInv'
  BY <1>4, AttestedKeeps
<1>5. ASSUME NEW t \in Task, AttestationFails(t) \/ RetryAttestation(t)
      PROVE  MemoryInv'
  BY <1>5, AttestationFailsKeeps, RetryAttestationKeeps
<1>6. QED  BY <1>1, <1>2, <1>3, <1>4, <1>5, OtherCallKeeps DEF MemoryStep

\* The log of calls only grows.
LEMMA EventsGrow ==
  ASSUME MemoryInv, MemoryStep
  PROVE  /\ events \in Seq(Call) /\ events' \in Seq(Call)
         /\ Len(events) <= Len(events')
         /\ \A i \in 1..Len(events) : events'[i] = events[i]
<1>1. events \in Seq(Call) /\ events' \in Seq(Call)
  <2>1. MemoryInv'
    BY MemoryStepKeeps
  <2>2. QED  BY <2>1 DEF MemoryInv, MemoryTypeOK, Call
<1>2. UNCHANGED events \/ \E call : events' = Append(events, call)
  BY DEF MemoryStep, Add, Remembered, RememberFails, Attested, AttestationFails, RetryAttestation,
         OtherCall
<1>3. QED  BY <1>1, <1>2

-----------------------------------------------------------------------------
\* The list of memories: positions, listed newest first.

\* e lists the members of S from the greatest to the least.
Descending(e, S) ==
  /\ e \in [1..Cardinality(S) -> S]
  /\ \A i, j \in 1..Cardinality(S) : i < j => e[i] > e[j]

\* Positions can be listed newest first.
LEMMA PositionsDescend ==
  ASSUME NEW n \in Nat, NEW S \in SUBSET (1..n)
  PROVE  \E e : Descending(e, S)
<1> DEFINE bad == {m \in Nat : \E T \in SUBSET (1..m) : ~ \E e : Descending(e, T)}
           R == {ss \in Nat \X Nat : ss[1] < ss[2]}
<1>1. SUFFICES ASSUME bad # {} PROVE FALSE
  <2>1. n \in bad \/ \E e : Descending(e, S)
    OBVIOUS
  <2>2. QED  BY <1>1, <2>1
<1>2. PICK m \in bad : \A k \in bad : ~(k < m)
  <2>1. IsWellFoundedOn(R, Nat)
    BY NatLessThanWellFounded DEF OpToRel
  <2>2. bad \in SUBSET Nat
    OBVIOUS
  <2> HIDE DEF bad, R
  <2>3. PICK x \in bad : \A y \in bad : ~ (<<y, x>> \in R)
    BY <1>1, <2>1, <2>2, WFMin
  <2>4. \A y \in bad : ~(y < x)
    BY <2>2, <2>3 DEF R
  <2>5. QED  BY <2>4
<1>3. m \in Nat
  OBVIOUS
<1>4. PICK T \in SUBSET (1..m) : ~ \E e : Descending(e, T)
  OBVIOUS
<1>5. m # 0
  <2>1. SUFFICES ASSUME m = 0 PROVE FALSE
    OBVIOUS
  <2>2. T = {}
    BY <2>1
  <2>3. Cardinality(T) = 0
    BY <2>2, FS_EmptySet
  <2>4. Descending([i \in 1..0 |-> i], T)
    BY <2>3 DEF Descending
  <2>5. QED  BY <1>4, <2>4
<1>6. m - 1 \in Nat /\ m - 1 < m
  BY <1>3, <1>5
<1>7. \A U \in SUBSET (1..(m - 1)) : \E e : Descending(e, U)
  BY <1>2, <1>6
<1> DEFINE U == T \ {m}
<1>8. U \in SUBSET (1..(m - 1)) /\ IsFiniteSet(U) /\ Cardinality(U) \in Nat
  <2>1. U \in SUBSET (1..(m - 1))
    BY <1>3, <1>5
  <2>2. IsFiniteSet(1..(m - 1))
    BY <1>6, FS_Interval
  <2> HIDE DEF bad, U
  <2>3. QED  BY <2>1, <2>2, FS_Subset, FS_CardinalityType
<1>9. PICK e : Descending(e, U)
  BY <1>7, <1>8
<1>10. m \in T
  <2>1. SUFFICES ASSUME m \notin T PROVE FALSE
    OBVIOUS
  <2>2. U = T
    BY <2>1
  <2>3. QED  BY <1>4, <1>9, <2>2
<1>11. Cardinality(T) = Cardinality(U) + 1
  <2>1. T = U \cup {m} /\ m \notin U
    BY <1>10
  <2> HIDE DEF U
  <2>2. QED  BY <1>8, <2>1, FS_AddElement
<1> DEFINE c == Cardinality(U)
           f == [i \in 1..(c + 1) |-> IF i = 1 THEN m ELSE e[i - 1]]
<1>12. /\ e \in [1..c -> U]
       /\ \A i, j \in 1..c : i < j => e[i] > e[j]
  BY <1>9 DEF Descending
<1>13. \A i \in 1..c : e[i] \in T /\ e[i] < m /\ e[i] \in Nat
  <2>1. \A x \in U : x \in T /\ x < m /\ x \in Nat
    BY <1>3, <1>8
  <2> HIDE DEF bad, U, c
  <2>2. QED  BY <1>12, <2>1
<1> HIDE DEF bad, U
<1>14. c \in Nat /\ Cardinality(T) = c + 1
  BY <1>8, <1>11
<1> HIDE DEF c
<1>15. f \in [1..(c + 1) -> T]
  BY <1>10, <1>13, <1>14
<1>16. \A i, j \in 1..(c + 1) : i < j => f[i] > f[j]
  <2>1. TAKE i, j \in 1..(c + 1)
  <2>2. SUFFICES ASSUME i < j PROVE f[i] > f[j]
    OBVIOUS
  <2>3. f[j] = e[j - 1] /\ j - 1 \in 1..c
    BY <1>14, <2>2
  <2>4. CASE i = 1
    BY <1>3, <1>13, <2>3, <2>4
  <2>5. CASE i # 1
    <3>1. f[i] = e[i - 1] /\ i - 1 \in 1..c /\ i - 1 < j - 1
      BY <1>14, <2>2, <2>5
    <3>2. QED  BY <1>12, <2>3, <3>1
  <2>6. QED  BY <2>4, <2>5
<1>17. Descending(f, T)
  BY <1>14, <1>15, <1>16 DEF Descending
<1>18. QED  BY <1>4, <1>17

\* s lists the members of S, the newest first and each once.
Lists(s, S) ==
  /\ s \in Seq(S)
  /\ \A k, m \in 1..Len(s) : k < m => s[k] > s[m]
  /\ \A i \in S : \E k \in 1..Len(s) : s[k] = i

LEMMA InOrderLists ==
  ASSUME NEW n \in Nat, NEW S \in SUBSET (1..n)
  PROVE  Lists(InOrder(S, >), S)
<1> DEFINE s == InOrder(S, >)
           c == Cardinality(S)
<1>1. IsFiniteSet(S) /\ c \in Nat /\ Cardinality(1..c) = c
  <2>1. IsFiniteSet(S)
    <3>1. IsFiniteSet(1..n)
      BY FS_Interval
    <3>2. QED  BY <3>1, FS_Subset
  <2>2. c \in Nat
    BY <2>1, FS_CardinalityType
  <2>3. QED  BY <2>1, <2>2, FS_Interval
<1>2. /\ s \in [1..c -> S]
      /\ \A i, j \in 1..c : i < j => s[i] > s[j]
  <2>1. PICK e : Descending(e, S)
    BY PositionsDescend
  <2>2. QED  BY <2>1 DEF Descending, InOrder
<1> HIDE DEF s
<1>3. \A i \in 1..c : s[i] \in Nat
  <2>1. S \subseteq Nat
    OBVIOUS
  <2> HIDE DEF c
  <2>2. QED  BY <1>2, <2>1
<1>4. s \in Injection(1..c, S)
  <2>1. \A i, j \in 1..c : s[i] = s[j] => i = j
    <3>1. SUFFICES ASSUME NEW i \in 1..c, NEW j \in 1..c, s[i] = s[j], i # j PROVE FALSE
      OBVIOUS
    <3>2. i < j \/ j < i
      BY <1>1, <3>1
    <3>3. s[i] > s[j] \/ s[j] > s[i]
      BY <1>2, <3>2
    <3>4. QED  BY <1>3, <3>1, <3>3
  <2>2. QED  BY <1>2, <2>1 DEF Injection, IsInjective
<1> HIDE DEF c
<1>5. s \in Surjection(1..c, S)
  BY <1>1, <1>4, FS_Injection DEF c
<1>6. s \in Seq(S) /\ Len(s) = c
  BY <1>1, <1>2
<1>7. QED  BY <1>2, <1>5, <1>6 DEF Lists, Surjection, s

\* Listings of newer and of older positions, one after the other.
LEMMA ListsConcat ==
  ASSUME NEW S \in SUBSET Nat, NEW T \in SUBSET Nat, NEW s, NEW t, Lists(s, S), Lists(t, T),
         \A x \in S, y \in T : x > y
  PROVE  Lists(s \o t, S \cup T)
<1> DEFINE w == s \o t
<1>1. s \in Seq(S \cup T) /\ t \in Seq(S \cup T) /\ s \in Seq(S) /\ t \in Seq(T)
  BY DEF Lists
<1>2. /\ w \in Seq(S \cup T)
      /\ Len(w) = Len(s) + Len(t)
      /\ Len(s) \in Nat /\ Len(t) \in Nat
      /\ \A k \in 1..Len(w) : w[k] = IF k <= Len(s) THEN s[k] ELSE t[k - Len(s)]
  BY <1>1
<1> HIDE DEF w
<1>3. ASSUME NEW k \in 1..Len(w), NEW m \in 1..Len(w), k < m
      PROVE  w[k] > w[m]
  <2>1. CASE m <= Len(s)
    BY <1>2, <1>3, <2>1 DEF Lists
  <2>2. CASE Len(s) < k
    <3>1. k - Len(s) \in 1..Len(t) /\ m - Len(s) \in 1..Len(t) /\ k - Len(s) < m - Len(s)
      BY <1>2, <1>3, <2>2
    <3>2. w[k] = t[k - Len(s)] /\ w[m] = t[m - Len(s)]
      BY <1>2, <1>3, <2>2
    <3>3. QED  BY <3>1, <3>2 DEF Lists
  <2>3. CASE k <= Len(s) /\ Len(s) < m
    <3>1. k \in 1..Len(s) /\ m - Len(s) \in 1..Len(t)
      BY <1>2, <2>3
    <3>2. s[k] \in S /\ t[m - Len(s)] \in T
      BY <1>1, <3>1
    <3>3. w[k] = s[k] /\ w[m] = t[m - Len(s)]
      BY <1>2, <2>3
    <3>4. QED  BY <3>2, <3>3
  <2>4. QED  BY <1>2, <1>3, <2>1, <2>2, <2>3
<1>4. ASSUME NEW i \in S \cup T
      PROVE  \E k \in 1..Len(w) : w[k] = i
  <2>1. CASE i \in S
    <3>1. PICK k \in 1..Len(s) : s[k] = i
      BY <2>1 DEF Lists
    <3>2. k \in 1..Len(w) /\ w[k] = i
      BY <1>2, <3>1
    <3>3. QED  BY <3>2
  <2>2. CASE i \in T
    <3>1. PICK k \in 1..Len(t) : t[k] = i
      BY <2>2 DEF Lists
    <3>2. Len(s) + k \in 1..Len(w) /\ w[Len(s) + k] = i
      BY <1>2, <3>1
    <3>3. QED  BY <3>2
  <2>3. QED  BY <2>1, <2>2
<1>5. QED  BY <1>2, <1>3, <1>4 DEF Lists, w

-----------------------------------------------------------------------------
\* The Memories page: what it has listed so far, and what it says of the selected one.
MemoriesShown ==
  /\ page.next <= page.start
  /\ page.verdict # "idle" => page.selected # 0
  /\ page.verdict = "ok" => events[page.selected].session \notin Tampered
  /\ page.status = "loading" =>
       Lists(page.list, Memories(page.next, page.start)) /\ Len(page.list) < ListLimit
  /\ ListIsNewest

\* s is the newest of S, as many as the list asks for.
Newest(s, S) ==
  /\ Len(s) <= ListLimit
  /\ \A k, m \in 1..Len(s) : k < m => s[k] > s[m]
  /\ \A k \in 1..Len(s) : s[k] \in S
  /\ \A i \in S : \/ \E k \in 1..Len(s) : s[k] = i
                  \/ Len(s) = ListLimit /\ \A k \in 1..Len(s) : s[k] > i

LEMMA MemoriesTypes ==
  ASSUME page \in MemoriesPage, MemoriesShown
  PROVE  /\ page.name = "memories"
         /\ page.start \in Nat /\ page.start <= Len(events)
         /\ page.next \in Nat /\ page.next <= page.start
         /\ page.list \in Seq(1..Len(events))
         /\ page.selected \in 0..Len(events)
         /\ Len(events) \in Nat
         /\ ListLimit \in Nat \ {0}
BY DashboardConstants DEF MemoriesPage, MemoriesShown

LEMMA MemoriesArePositions ==
  ASSUME NEW after \in Nat, NEW end \in Nat
  PROVE  /\ Memories(after, end) \in SUBSET (1..end)
         /\ Memories(after, end) \in SUBSET Nat
         /\ \A i \in Memories(after, end) : after < i /\ i <= end
BY DEF Memories

LEMMA MemoriesSplit ==
  ASSUME NEW after \in Nat, NEW middle \in Nat, NEW end \in Nat, after <= middle, middle <= end
  PROVE  Memories(after, end) = Memories(middle, end) \cup Memories(after, middle)
BY DEF Memories

\* The list that is shown, in the words of the property.
LEMMA NewestInWords ==
  ASSUME NEW n \in Nat, NEW list \in Seq(1..n), NEW S, Newest(list, S)
  PROVE  /\ Len(list) <= ListLimit
         /\ \A k, m \in DOMAIN list : k < m => list[k] > list[m]
         /\ {list[k] : k \in DOMAIN list} \subseteq S
         /\ \A i \in S \ {list[k] : k \in DOMAIN list} :
              Len(list) = ListLimit /\ \A k \in DOMAIN list : list[k] > i
<1>1. DOMAIN list = 1..Len(list)
  OBVIOUS
<1>2. QED  BY <1>1 DEF Newest

\* A page of events ends the list when it is the last one or fills it.
LEMMA UptoIsNewest ==
  ASSUME NEW after \in Nat, NEW end \in Nat, after <= end,
         NEW s, Lists(s, Memories(after, end)),
         after = 0 \/ Len(Upto(s)) = ListLimit
  PROVE  Newest(Upto(s), Memories(0, end))
<1> DEFINE S == Memories(after, end)
           older == Memories(0, after)
           list == Upto(s)
<1>1. /\ s \in Seq(S) /\ Len(s) \in Nat
      /\ \A k, m \in 1..Len(s) : k < m => s[k] > s[m]
      /\ \A i \in S : \E k \in 1..Len(s) : s[k] = i
      /\ ListLimit \in Nat \ {0}
  BY DashboardConstants DEF Lists
<1>2. /\ S \in SUBSET Nat
      /\ \A x \in S, y \in older : x > y
      /\ after = 0 => older = {}
      /\ Memories(0, end) = S \cup older
  <2>1. /\ \A x \in S : x \in Nat /\ after < x
        /\ \A y \in older : y \in Nat /\ 0 < y /\ y <= after
    BY MemoriesArePositions
  <2>2. Memories(0, end) = S \cup older
    BY MemoriesSplit
  <2> HIDE DEF S, older
  <2>3. QED  BY <2>1, <2>2
<1> HIDE DEF S, older
<1>3. /\ Len(list) = IF Len(s) < ListLimit THEN Len(s) ELSE ListLimit
      /\ \A k \in 1..Len(list) : list[k] = s[k] /\ k \in 1..Len(s)
  BY <1>1 DEF Upto
<1>4. after = 0 \/ Len(list) = ListLimit
  BY DEF S
<1> HIDE DEF list
<1>5. \A k \in 1..Len(s) : s[k] \in S
  BY <1>1
<1>6. /\ Len(list) \in Nat /\ Len(list) <= ListLimit /\ Len(list) <= Len(s)
      /\ \A k, m \in 1..Len(list) : k < m => list[k] > list[m]
      /\ \A k \in 1..Len(list) : list[k] \in S
  <2>1. Len(list) \in Nat /\ Len(list) <= ListLimit /\ Len(list) <= Len(s)
    BY <1>1, <1>3
  <2>2. ASSUME NEW k \in 1..Len(list), NEW m \in 1..Len(list), k < m
        PROVE  list[k] > list[m]
    <3>1. list[k] = s[k] /\ list[m] = s[m] /\ k \in 1..Len(s) /\ m \in 1..Len(s)
      BY <1>3
    <3>2. s[k] > s[m]
      BY <1>1, <2>2, <3>1
    <3>3. QED  BY <3>1, <3>2
  <2>3. QED  BY <1>3, <1>5, <2>1, <2>2
<1>7. ASSUME NEW i \in S
      PROVE  \/ \E k \in 1..Len(list) : list[k] = i
             \/ Len(list) = ListLimit /\ \A k \in 1..Len(list) : list[k] > i
  <2>1. PICK k \in 1..Len(s) : s[k] = i
    BY <1>1
  <2>2. CASE k <= Len(list)
    <3>1. k \in 1..Len(list)
      BY <1>1, <1>6, <2>1, <2>2
    <3>2. list[k] = i
      BY <1>3, <2>1, <3>1
    <3>3. QED  BY <3>1, <3>2
  <2>3. CASE ~(k <= Len(list))
    <3>1. Len(list) = ListLimit
      BY <1>1, <1>3, <2>1, <2>3
    <3>2. \A j \in 1..Len(list) : j < k
      BY <1>1, <2>1, <2>3, <3>1
    <3>3. \A j \in 1..Len(list) : list[j] > i
      BY <1>1, <1>3, <2>1, <3>2
    <3>4. QED  BY <3>1, <3>3
  <2>4. QED  BY <2>2, <2>3
<1>8. ASSUME NEW i \in older
      PROVE  Len(list) = ListLimit /\ \A k \in 1..Len(list) : list[k] > i
  BY <1>2, <1>4, <1>6, <1>8
<1>9. QED  BY <1>2, <1>6, <1>7, <1>8 DEF Newest, list

LEMMA OpenMemoriesKeeps ==
  ASSUME MemoryInv, OpenMemories
  PROVE  page' \in MemoriesPage' /\ MemoriesShown'
<1> DEFINE n == Len(events)
<1>1. /\ page' = [name |-> "memories", status |-> "loading", start |-> n, next |-> n, list |-> <<>>,
                  selected |-> 0, verdict |-> "idle"]
      /\ events' = events
  BY DEF OpenMemories, Opens, memoryVars
<1>2. n \in Nat
  BY AddTypes DEF MemoryInv, MemoryTypeOK
<1>3. page' \in MemoriesPage'
  BY <1>1, <1>2 DEF MemoriesPage
<1>5. Lists(<<>>, {})
  BY DEF Lists
<1>6. 0 < ListLimit
  BY DashboardConstants
<1>7. /\ page'.status = "loading" /\ page'.start = n /\ page'.next = n /\ page'.list = <<>>
      /\ page'.selected = 0 /\ page'.verdict = "idle"
  BY <1>1
<1>8. ListIsNewest'
  BY <1>7 DEF ListIsNewest
<1>9. Lists(page'.list, Memories(page.next, page.start)') /\ Len(page'.list) < ListLimit
  <2>1. Memories(page.next, page.start)' = {}
    BY <1>1, <1>2, <1>7 DEF Memories
  <2>2. QED  BY <1>5, <1>6, <1>7, <2>1
<1>10. MemoriesShown'
  BY <1>2, <1>7, <1>8, <1>9 DEF MemoriesShown
<1>11. QED  BY <1>3, <1>10

LEMMA FetchPageKeeps ==
  ASSUME MemoryInv, page \in MemoriesPage, MemoriesShown, FetchPage
  PROVE  page' \in MemoriesPage' /\ MemoriesShown'
<1> DEFINE rest == Rest(page.next)
           below == MemoriesBelow(page.next)
           all == page.list \o below
           list == Upto(all)
           over == rest = 0 \/ Len(list) = ListLimit
           status == IF over THEN "shown" ELSE "loading"
<1>1. /\ page.status = "loading"
      /\ page' = [page EXCEPT !.list = list, !.next = rest, !.status = status]
      /\ events' = events
  BY DEF FetchPage, memoryVars, MemoriesPage
<1>2. /\ page.start \in Nat /\ page.start <= Len(events)
      /\ page.next \in Nat /\ page.next <= page.start
      /\ Len(events) \in Nat
      /\ ListLimit \in Nat \ {0}
  BY MemoriesTypes
<1>3. rest \in Nat /\ rest <= page.next
  BY <1>2, DashboardConstants DEF Rest
<1>4. Lists(page.list, Memories(page.next, page.start)) /\ Len(page.list) < ListLimit
  BY <1>1 DEF MemoriesShown
<1>5. Lists(below, Memories(rest, page.next))
  <2>1. Memories(rest, page.next) \in SUBSET (1..page.next)
    BY <1>2, <1>3, MemoriesArePositions
  <2>2. QED  BY <1>2, <2>1, InOrderLists DEF MemoriesBelow
<1> HIDE DEF rest, below
<1>6. Lists(all, Memories(rest, page.start))
  <2> DEFINE S == Memories(page.next, page.start)
             T == Memories(rest, page.next)
  <2>1. /\ S \in SUBSET Nat /\ T \in SUBSET Nat
        /\ \A x \in S : page.next < x
        /\ \A y \in T : y <= page.next
    BY <1>2, <1>3, MemoriesArePositions
  <2>2. Memories(rest, page.start) = S \cup T
    BY <1>2, <1>3, MemoriesSplit
  <2>3. Lists(page.list, S) /\ Lists(below, T)
    BY <1>4, <1>5
  <2> HIDE DEF S, T
  <2>4. \A x \in S, y \in T : x > y
    BY <1>2, <2>1
  <2>5. QED  BY <2>1, <2>2, <2>3, <2>4, ListsConcat
<1> HIDE DEF all
<1>7. over => Newest(list, Memories(0, page.start))
  BY <1>2, <1>3, <1>6, UptoIsNewest
<1>8. ~over => Lists(list, Memories(rest, page.start)) /\ Len(list) < ListLimit
  <2>1. all \in Seq(Memories(rest, page.start)) /\ Len(all) \in Nat
    BY <1>6 DEF Lists
  <2>2. ~(Len(all) < ListLimit) => Len(list) = ListLimit
    BY <1>2, <2>1 DEF Upto
  <2>3. Len(all) < ListLimit => list = all
    BY DEF Upto
  <2>4. QED  BY <1>6, <2>2, <2>3
<1>9. list \in Seq(1..Len(events))
  <2>1. Memories(rest, page.start) \subseteq 1..Len(events)
    <3>1. Memories(rest, page.start) \in SUBSET (1..page.start)
      BY <1>2, <1>3, MemoriesArePositions
    <3>2. QED  BY <1>2, <3>1
  <2> DEFINE N == 1..Len(events)
  <2>2. all \in Seq(N) /\ Len(all) \in Nat
    BY <1>6, <2>1 DEF Lists
  <2>3. CASE Len(all) < ListLimit
    BY <2>2, <2>3 DEF Upto
  <2>4. CASE ~(Len(all) < ListLimit)
    <3>1. list = SubSeq(all, 1, ListLimit)
      BY <2>4 DEF Upto
    <3> HIDE DEF N, list
    <3>2. list \in Seq(N)
      BY <1>2, <2>2, <2>4, <3>1
    <3>3. QED  BY <3>2 DEF N
  <2>5. QED  BY <2>3, <2>4
<1>10. status \in {"shown", "loading"} /\ (status = "shown" => over) /\ (status = "loading" => ~over)
  OBVIOUS
<1> HIDE DEF over, list, status
<1>11. rest \in 0..Len(events)
  BY <1>2, <1>3
<1>12. page' \in MemoriesPage
  BY <1>1, <1>9, <1>10, <1>11 DEF MemoriesPage
<1>13. /\ page'.list = list /\ page'.next = rest /\ page'.status = status
       /\ page'.start = page.start /\ page'.selected = page.selected /\ page'.verdict = page.verdict
  BY <1>1 DEF MemoriesPage
<1>14. /\ Memories(0, page.start)' = Memories(0, page.start)
       /\ Memories(page.next, page.start)' = Memories(rest, page.start)
  BY <1>1, <1>13 DEF Memories
<1>15. page' \in MemoriesPage'
  BY <1>1, <1>12 DEF MemoriesPage
<1>16. ListIsNewest'
  <2>1. SUFFICES ASSUME status = "shown" PROVE ListIsNewest'
    BY <1>13 DEF ListIsNewest
  <2> DEFINE S == Memories(0, page.start)
  <2>2. Newest(list, S)
    BY <1>7, <1>10, <2>1
  <2>3. Len(events) \in Nat /\ list \in Seq(1..Len(events))
    BY <1>2, <1>9
  <2>4. page'.list = list /\ Memories(0, page.start)' = S
    BY <1>13, <1>14
  <2> HIDE DEF S
  <2>5. QED  BY <2>2, <2>3, <2>4, NewestInWords DEF ListIsNewest
<1>17. page'.status = "loading" =>
         Lists(page'.list, Memories(page.next, page.start)') /\ Len(page'.list) < ListLimit
  BY <1>8, <1>10, <1>13, <1>14
<1>18. /\ page'.next <= page'.start
       /\ page'.verdict # "idle" => page'.selected # 0
       /\ page'.verdict = "ok" => events'[page'.selected].session \notin Tampered
  BY <1>1, <1>2, <1>3, <1>13 DEF MemoriesShown
<1>19. QED  BY <1>15, <1>16, <1>17, <1>18 DEF MemoriesShown

LEMMA FetchFailsKeeps ==
  ASSUME MemoryInv, page \in MemoriesPage, MemoriesShown, FetchFails
  PROVE  page' \in MemoriesPage' /\ MemoriesShown'
<1>1. page' = [page EXCEPT !.status = "error", !.list = <<>>] /\ events' = events
  BY DEF FetchFails, memoryVars
<1>2. page' \in MemoriesPage
  <2> DEFINE N == 1..Len(events)
  <2>1. <<>> \in Seq(N)
    OBVIOUS
  <2>2. page' = [page EXCEPT !.status = "error", !.list = <<>>]
    BY <1>1
  <2> HIDE DEF N
  <2>3. QED  BY <2>1, <2>2 DEF MemoriesPage, N
<1>3. page' \in MemoriesPage'
  BY <1>1, <1>2 DEF MemoriesPage
<1>4. /\ page'.status = "error" /\ page'.next = page.next /\ page'.start = page.start
      /\ page'.selected = page.selected /\ page'.verdict = page.verdict
  BY <1>1 DEF MemoriesPage
<1>5. QED  BY <1>1, <1>3, <1>4 DEF MemoriesShown, ListIsNewest

\* The list stays, whatever is said of the selected memory, and while calls are added.
LEMMA ListStays ==
  ASSUME page \in MemoriesPage, MemoriesShown, page' \in MemoriesPage',
         page'.list = page.list, page'.status = page.status,
         page'.start = page.start, page'.next = page.next,
         \A i \in 1..Len(events) : events'[i] = events[i],
         page'.verdict # "idle" => page'.selected # 0,
         page'.verdict = "ok" => events'[page'.selected].session \notin Tampered
  PROVE  MemoriesShown'
<1>1. /\ page.start \in Nat /\ page.start <= Len(events)
      /\ page.next \in Nat /\ page.next <= page.start
      /\ Len(events) \in Nat
  BY MemoriesTypes
<1>2. /\ Memories(page.next, page.start)' = Memories(page.next, page.start)
      /\ Memories(0, page.start)' = Memories(0, page.start)
  <2>1. ASSUME NEW a \in Nat, NEW b \in Nat, b <= Len(events)
        PROVE  {i \in (a + 1)..b : events'[i].tool = MEMORY_TOOL} =
                 {i \in (a + 1)..b : events[i].tool = MEMORY_TOOL}
    <3>1. \A i \in (a + 1)..b : i \in 1..Len(events)
      BY <1>1, <2>1
    <3>2. QED  BY <3>1
  <2>2. QED  BY <1>1, <2>1 DEF Memories
<1>3. ListIsNewest'
  <2>1. ListIsNewest
    BY DEF MemoriesShown
  <2>2. page.name = "memories"
    BY MemoriesTypes
  <2> DEFINE list == page.list
             S == Memories(0, page.start)
  <2>3. /\ page'.list = list /\ Memories(0, page.start)' = S
        /\ page'.status = page.status
    BY <1>2
  <2>4. page.status = "shown" =>
          /\ Len(list) <= ListLimit
          /\ \A k, m \in DOMAIN list : k < m => list[k] > list[m]
          /\ {list[k] : k \in DOMAIN list} \subseteq S
          /\ \A i \in S \ {list[k] : k \in DOMAIN list} :
               Len(list) = ListLimit /\ \A k \in DOMAIN list : list[k] > i
    BY <2>1, <2>2 DEF ListIsNewest
  <2> HIDE DEF list, S
  <2>5. QED  BY <2>3, <2>4 DEF ListIsNewest
<1>4. page'.status = "loading" =>
        Lists(page'.list, Memories(page.next, page.start)') /\ Len(page'.list) < ListLimit
  BY <1>2 DEF MemoriesShown
<1>5. QED  BY <1>1, <1>3, <1>4 DEF MemoriesShown

\* The actions of the drawer.
LEMMA OriginKeeps ==
  ASSUME MemoryInv, page \in MemoriesPage, MemoriesShown,
         (\E k \in 1..ListLimit : SelectMemory(k)) \/ VerifyOrigin \/ OriginAnswered \/ CloseMemory
  PROVE  page' \in MemoriesPage' /\ MemoriesShown'
<1>1. events' = events
  BY DEF SelectMemory, VerifyOrigin, OriginAnswered, CloseMemory, memoryVars
<1>2. PICK selected \in 0..Len(events), verdict \in {"idle", "loading", "ok", "broken", "error"} :
        /\ page' = [page EXCEPT !.selected = selected, !.verdict = verdict]
        /\ verdict # "idle" => selected # 0
        /\ verdict = "ok" => events[selected].session \notin Tampered
  <2>1. ASSUME NEW k \in 1..ListLimit, SelectMemory(k)
        PROVE  page.list[k] \in 0..Len(events)
                 /\ page' = [page EXCEPT !.selected = page.list[k], !.verdict = "idle"]
    <3>1. page.list \in Seq(1..Len(events)) /\ k \in DOMAIN page.list
      BY <2>1, MemoriesTypes DEF SelectMemory
    <3>2. page.list[k] \in 1..Len(events)
      BY <3>1
    <3>3. page.list[k] \in 0..Len(events)
      BY <3>2
    <3>4. page' = [page EXCEPT !.selected = page.list[k], !.verdict = "idle"]
      BY <2>1 DEF SelectMemory
    <3>5. QED  BY <3>3, <3>4
  <2>2. page.selected \in 0..Len(events) /\ 0 \in 0..Len(events)
    BY MemoriesTypes
  <2>3. CASE VerifyOrigin
    <3>1. page' = [page EXCEPT !.selected = page.selected, !.verdict = "loading"]
      BY <2>3 DEF VerifyOrigin, MemoriesPage
    <3>2. page.selected # 0
      BY <2>3 DEF VerifyOrigin
    <3>3. QED  BY <2>2, <3>1, <3>2
  <2>4. CASE OriginAnswered
    <3>1. PICK v \in Found(events[page.selected].session) : page' = [page EXCEPT !.verdict = v]
      BY <2>4 DEF OriginAnswered
    <3>2. page' = [page EXCEPT !.selected = page.selected, !.verdict = v]
      BY <3>1 DEF MemoriesPage
    <3>3. /\ v \in {"ok", "broken", "error"}
          /\ v = "ok" => events[page.selected].session \notin Tampered
      BY <3>1 DEF Found
    <3>4. page.selected # 0
      BY <2>4 DEF OriginAnswered, MemoriesShown
    <3>5. QED  BY <2>2, <3>2, <3>3, <3>4
  <2>5. CASE CloseMemory
    BY <2>2, <2>5 DEF CloseMemory
  <2>6. CASE \E k \in 1..ListLimit : SelectMemory(k)
    <3>1. PICK k \in 1..ListLimit : SelectMemory(k)
      BY <2>6
    <3>2. QED  BY <2>1, <3>1
  <2>7. QED  BY <2>3, <2>4, <2>5, <2>6
<1>3. page' \in MemoriesPage
  BY <1>2 DEF MemoriesPage
<1>4. page' \in MemoriesPage'
  BY <1>1, <1>3 DEF MemoriesPage
<1>5. /\ page'.selected = selected /\ page'.verdict = verdict
      /\ page'.list = page.list /\ page'.status = page.status
      /\ page'.start = page.start /\ page'.next = page.next
  BY <1>2 DEF MemoriesPage
<1>6. MemoriesShown'
  BY <1>1, <1>2, <1>4, <1>5, ListStays
<1>7. QED  BY <1>4, <1>6

\* A step of the Memories page.
LEMMA MemoriesStepKeeps ==
  ASSUME MemoryInv, MemoriesStep,
         page.name = "memories" => page \in MemoriesPage /\ MemoriesShown
  PROVE  page' \in MemoriesPage' /\ MemoriesShown'
<1>1. CASE OpenMemories
  BY <1>1, OpenMemoriesKeeps
<1>2. CASE ~OpenMemories
  <2>1. page.name = "memories"
    BY <1>2 DEF MemoriesStep, FetchPage, FetchFails, SelectMemory, VerifyOrigin, OriginAnswered,
                CloseMemory, On
  <2>2. QED
    BY <1>2, <2>1, FetchPageKeeps, FetchFailsKeeps, OriginKeeps DEF MemoriesStep
<1>3. QED  BY <1>1, <1>2

\* What the page shows stays so while the memories themselves go on.
LEMMA MemoriesPageStays ==
  ASSUME MemoryInv, MemoryStep, page' = page, page \in MemoriesPage, MemoriesShown
  PROVE  page' \in MemoriesPage' /\ MemoriesShown'
<1>1. /\ Len(events) \in Nat /\ Len(events') \in Nat /\ Len(events) <= Len(events')
      /\ \A i \in 1..Len(events) : events'[i] = events[i]
  BY EventsGrow
<1>2. page' \in MemoriesPage'
  <2> DEFINE N == 1..Len(events)
             M == 1..Len(events')
  <2>1. /\ N \subseteq M
        /\ \A k \in 0..Len(events) : k \in 0..Len(events')
    BY <1>1
  <2>2. page.list \in Seq(N)
    BY DEF MemoriesPage
  <2> HIDE DEF N, M
  <2>3. page.list \in Seq(M)
    BY <2>1, <2>2
  <2>4. QED  BY <2>1, <2>3 DEF MemoriesPage, M
<1>3. /\ page.verdict # "idle" => page.selected # 0
      /\ page.verdict = "ok" => events'[page.selected].session \notin Tampered
  <2>1. page.selected # 0 => page.selected \in 1..Len(events)
    BY MemoriesTypes
  <2>2. QED  BY <1>1, <2>1 DEF MemoriesShown
<1>4. MemoriesShown'
  BY <1>1, <1>2, <1>3, ListStays
<1>5. QED  BY <1>2, <1>4

LEMMA MemoriesShownSays ==
  ASSUME page.name = "memories" => page \in MemoriesPage /\ MemoriesShown
  PROVE  ListIsNewest /\ OriginIsVerified
BY DEF ListIsNewest, OriginIsVerified, MemoriesShown

-----------------------------------------------------------------------------
\* The recorders.

\* A request, and what has become of its run of add.
AskedOK(t) ==
  /\ asked[t].kind = "capture" /\ asked[t].told = "ok" => t \in blobs
  /\ asked[t].told = "ok" => asked[t].stage = "end"
  /\ asked[t].found \subseteq blobs
  /\ focus = "recorders" /\ asked[t].stage \in {"none", "client"} => adds[t].stage = "none"
  /\ asked[t].stage = "client" /\ asked[t].via = "recorder" => clientPromise # "none"
  /\ asked[t].kind = "capture" /\ asked[t].told = "failed" /\ asked[t].via # "bridge" =>
       asked[t].stage = "end" /\ adds[t].stage \in {"none", "write_error"}
  /\ \A u \in asked[t].again : asked[u].kind = "capture" /\ asked[u].told = "failed"

\* Only one of the two ways to write memories is used.
OneWay ==
  /\ focus = "recorders" => events = <<>>
  /\ focus # "recorders" => asked = [t \in Task |-> NotAsked]

RequestsInv ==
  /\ MemoryRecorderTypeOK
  /\ \A t \in Task : AskedOK(t)
  /\ OneWay

LEMMA RequestsInvSays ==
  ASSUME MemoryInv, RequestsInv
  PROVE  CapturesAreTrue /\ NobodyWaitsForNothing
<1>1. ASSUME NEW t \in Task, asked[t].kind # "none" PROVE CallsOf(t) = {}
  <2>1. events = <<>>
    BY <1>1 DEF RequestsInv, OneWay, NotAsked
  <2>2. QED  BY <2>1 DEF CallsOf
<1>2. ASSUME NEW t \in Task, NEW u \in asked[t].again \cap blobs
      PROVE  adds[u].stage = "write_error" \/ asked[u].via = "bridge"
  <2>1. u \in Task /\ adds[u].stage # "none"
    BY <1>2, AddTypes DEF AddOK
  <2>2. QED  BY <2>1 DEF RequestsInv, AskedOK
<1>3. CapturesAreTrue
  BY <1>1, <1>2 DEF CapturesAreTrue, RequestsInv, AskedOK
<1>4. NobodyWaitsForNothing
  BY DEF NobodyWaitsForNothing, RequestsInv, AskedOK
<1>5. QED  BY <1>3, <1>4

LEMMA RequestsStart ==
  ASSUME MemoryInit, MemoryRecorderInit
  PROVE  RequestsInv
BY DEF MemoryInit, MemoryRecorderInit, RequestsInv, OneWay, AskedOK, MemoryRecorderTypeOK, NotAsked,
       NoAdd

LEMMA AskedTypes ==
  ASSUME RequestsInv, NEW t \in Task
  PROVE  /\ AskedOK(t)
         /\ asked \in [Task -> Asked \cup {NotAsked}]
         /\ asked[t].kind # "none" => asked[t] \in Asked
         /\ asked[t].stage # "none" => asked[t] \in Asked
         /\ asked[t].told # "none" => asked[t] \in Asked
         /\ asked[t].via # "none" => asked[t] \in Asked
BY DEF RequestsInv, MemoryRecorderTypeOK, NotAsked

\* One request goes on, and its run of add perhaps with it.
LEMMA RequestKeeps ==
  ASSUME RequestsInv, NEW t \in Task, NEW a \in Asked,
         asked' = [asked EXCEPT ![t] = a],
         clientPromise' \in {"none", "creating", "ready"},
         clientPromise' = "none" => clientPromise = "none",
         UNCHANGED <<events, focus>>, focus = "recorders",
         blobs \subseteq blobs',
         \A u \in Task \ {t} : adds'[u] = adds[u],
         asked[t].kind = "capture" /\ asked[t].told = "failed" => a.kind = "capture" /\ a.told = "failed",
         AskedOK(t)'
  PROVE  RequestsInv'
<1>1. MemoryRecorderTypeOK'
  BY AskedTypes DEF MemoryRecorderTypeOK
<1>2. /\ asked'[t] = a
      /\ \A u \in Task \ {t} : asked'[u] = asked[u]
  BY AskedTypes
<1>3. ASSUME NEW u \in Task \ {t} PROVE AskedOK(u)'
  <2>1. asked'[u] = asked[u] /\ adds'[u] = adds[u] /\ AskedOK(u)
    BY <1>2, AskedTypes
  <2>2. \A x \in asked[u].again : asked'[x].kind = "capture" /\ asked'[x].told = "failed"
    <3>1. \A x \in asked[u].again : x \in Task /\ asked[x].kind = "capture" /\ asked[x].told = "failed"
      <4>1. asked[u].again \subseteq Task
        BY AskedTypes DEF Asked, NotAsked, Maybe
      <4>2. QED  BY <2>1, <4>1 DEF AskedOK
    <3>2. QED  BY <1>2, <3>1
  <2>3. QED  BY <2>1, <2>2 DEF AskedOK
<1>4. OneWay'
  BY DEF RequestsInv, OneWay
<1>5. QED  BY <1>1, <1>3, <1>4 DEF RequestsInv

-----------------------------------------------------------------------------
LEMMA AsksKeeps ==
  ASSUME MemoryInv, RequestsInv, focus = "recorders", UNCHANGED focus, NEW t \in Task,
         NEW via \in {"recorder", "bridge", "command", "mcp"}, NEW kind \in {"capture", "recall"},
         NEW again \in Maybe(Task), Asks(t, via, kind, again),
         clientPromise' \in {"none", "creating", "ready"},
         clientPromise' = "none" => clientPromise = "none" /\ via # "recorder"
  PROVE  RequestsInv'
<1> DEFINE a == [NotAsked EXCEPT !.via = via, !.kind = kind, !.stage = "client", !.again = again]
<1>1. /\ asked[t] = NotAsked
      /\ \A u \in again : asked[u].kind = "capture" /\ asked[u].told = "failed"
      /\ asked' = [asked EXCEPT ![t] = a]
      /\ UNCHANGED memoryVars
  BY DEF Asks
<1>2. a \in Asked
  BY DEF Asked, NotAsked, Maybe
<1>3. /\ a.via = via /\ a.kind = kind /\ a.stage = "client" /\ a.again = again
      /\ a.told = "none" /\ a.found = {}
  BY DEF NotAsked
<1>4. asked'[t] = a /\ \A u \in Task \ {t} : asked'[u] = asked[u]
  BY <1>1, AskedTypes
<1> HIDE DEF a
<1>5. AskedOK(t)'
  <2>1. \A u \in again : u \in Task \ {t}
    <3>1. asked[t].kind # "capture"
      BY <1>1 DEF NotAsked
    <3>2. again \subseteq Task
      BY DEF Maybe
    <3>3. QED  BY <1>1, <3>1, <3>2
  <2>2. adds'[t].stage = "none"
    BY <1>1, AskedTypes DEF memoryVars, AskedOK, NotAsked
  <2>3. \A u \in again : asked'[u].kind = "capture" /\ asked'[u].told = "failed"
    BY <1>1, <1>4, <2>1
  <2>4. QED  BY <1>3, <1>4, <2>2, <2>3 DEF AskedOK
<1>6. asked[t].kind # "capture"
  BY <1>1 DEF NotAsked
<1>7. QED  BY <1>1, <1>2, <1>5, <1>6, RequestKeeps DEF memoryVars
LEMMA RequestsAsk ==
  ASSUME MemoryInv, RequestsInv, focus = "recorders", UNCHANGED focus, NEW t \in Task,
         NEW kind \in {"capture", "recall"}, NEW again \in Maybe(Task),
         \/ RecorderAsks(t, kind, again) \/ PythonAsks(t, kind, again)
         \/ CommandAsks(t, kind, again) \/ ToolAsks(t, kind, again)
  PROVE  RequestsInv'
<1>1. clientPromise \in {"none", "creating", "ready"}
  BY DEF RequestsInv, MemoryRecorderTypeOK
<1>2. CASE RecorderAsks(t, kind, again)
  BY <1>1, <1>2, AsksKeeps DEF RecorderAsks
<1>3. CASE PythonAsks(t, kind, again)
  BY <1>1, <1>3, AsksKeeps DEF PythonAsks
<1>4. CASE CommandAsks(t, kind, again)
  BY <1>1, <1>4, AsksKeeps DEF CommandAsks
<1>5. CASE ToolAsks(t, kind, again)
  BY <1>1, <1>5, AsksKeeps DEF ToolAsks
<1>6. QED  BY <1>2, <1>3, <1>4, <1>5

LEMMA ClientCreatedKeeps ==
  ASSUME RequestsInv, ClientCreated, UNCHANGED focus
  PROVE  RequestsInv'
<1>1. clientPromise' = "ready" /\ UNCHANGED <<adds, blobs, events, asked>>
  BY DEF ClientCreated, memoryVars
<1>2. MemoryRecorderTypeOK' /\ OneWay'
  BY <1>1 DEF RequestsInv, MemoryRecorderTypeOK, OneWay
<1>3. \A t \in Task : AskedOK(t)'
  BY <1>1 DEF RequestsInv, AskedOK
<1>4. QED  BY <1>2, <1>3 DEF RequestsInv

LEMMA ClientFailsKeeps ==
  ASSUME RequestsInv, ClientFails, focus = "recorders", UNCHANGED focus
  PROVE  RequestsInv'
<1> DEFINE Ends(t) == asked[t].stage = "client" /\ asked[t].via = "recorder"
<1>1. /\ clientPromise' = "none"
      /\ asked' = [t \in Task |-> IF Ends(t) THEN [asked[t] EXCEPT !.stage = "end", !.told = "failed"]
                                            ELSE asked[t]]
      /\ UNCHANGED <<adds, blobs, events>>
  BY DEF ClientFails, memoryVars
<1>2. ASSUME NEW t \in Task, ~Ends(t)
      PROVE  asked'[t] = asked[t]
  BY <1>1, <1>2
<1>3. ASSUME NEW t \in Task, Ends(t)
      PROVE  /\ asked'[t] \in Asked
             /\ asked'[t].stage = "end" /\ asked'[t].told = "failed"
             /\ asked'[t].kind = asked[t].kind /\ asked'[t].via = asked[t].via
             /\ asked'[t].again = asked[t].again /\ asked'[t].found = asked[t].found
  <2>1. asked'[t] = [asked[t] EXCEPT !.stage = "end", !.told = "failed"]
    BY <1>1, <1>3
  <2>2. asked[t] \in Asked
    BY <1>3, AskedTypes
  <2>3. QED  BY <2>1, <2>2 DEF Asked
<1>4. MemoryRecorderTypeOK'
  <2>1. \A t \in Task : asked'[t] \in Asked \cup {NotAsked}
    BY <1>2, <1>3, AskedTypes
  <2> DEFINE f == asked'
  <2>2. DOMAIN f = Task /\ f = [t \in Task |-> f[t]]
    BY <1>1
  <2>3. f \in [Task -> Asked \cup {NotAsked}]
    <3> HIDE DEF f, Ends
    <3>1. \A t \in Task : f[t] \in Asked \cup {NotAsked}
      BY <2>1 DEF f
    <3>2. QED  BY <2>2, <3>1
  <2>4. QED  BY <1>1, <2>3 DEF MemoryRecorderTypeOK
<1> HIDE DEF Ends
<1>5. ASSUME NEW t \in Task PROVE AskedOK(t)'
  <2>1. AskedOK(t) /\ asked[t].again \subseteq Task
    BY AskedTypes DEF Asked, NotAsked, Maybe
  <2>2. \A u \in asked[t].again : asked'[u].kind = "capture" /\ asked'[u].told = "failed"
    <3>1. TAKE u \in asked[t].again
    <3>2. u \in Task /\ asked[u].kind = "capture" /\ asked[u].told = "failed"
      BY <2>1 DEF AskedOK
    <3>3. QED  BY <1>2, <1>3, <3>2
  <2>3. CASE Ends(t)
    <3>1. adds[t].stage = "none"
      BY <2>1, <2>3 DEF Ends, AskedOK
    <3>2. QED  BY <1>1, <1>3, <2>1, <2>2, <2>3, <3>1 DEF AskedOK
  <2>4. CASE ~Ends(t)
    <3>1. ~(asked'[t].stage = "client" /\ asked'[t].via = "recorder")
      BY <1>2, <2>4 DEF Ends
    <3>2. QED  BY <1>1, <1>2, <2>1, <2>2, <2>4, <3>1 DEF AskedOK
  <2>5. QED  BY <2>3, <2>4
<1>6. OneWay'
  BY <1>1 DEF RequestsInv, OneWay
<1>7. QED  BY <1>4, <1>5, <1>6 DEF RequestsInv

-----------------------------------------------------------------------------
\* A request whose stage or answer changes, with its run of add or without.
LEMMA AnswerKeeps ==
  ASSUME RequestsInv, focus = "recorders", NEW t \in Task, asked[t].stage # "none",
         NEW stage \in {"client", "add", "end"}, NEW told \in {"none", "ok", "failed"},
         asked' = [asked EXCEPT ![t] = [asked[t] EXCEPT !.stage = stage, !.told = told]],
         UNCHANGED <<clientPromise, events, focus, blobs>>,
         \A u \in Task \ {t} : adds'[u] = adds[u],
         asked[t].kind = "capture" /\ asked[t].told = "failed" => told = "failed",
         stage = "client" => asked[t].stage = "client" /\ adds' = adds,
         told = "ok" => stage = "end" /\ (asked[t].kind = "capture" => t \in blobs),
         asked[t].kind = "capture" /\ told = "failed" /\ asked[t].via # "bridge" =>
           stage = "end" /\ adds'[t].stage \in {"none", "write_error"}
  PROVE  RequestsInv'
<1> DEFINE a == [asked[t] EXCEPT !.stage = stage, !.told = told]
<1>1. asked[t] \in Asked /\ AskedOK(t)
  BY AskedTypes
<1>2. asked' = [asked EXCEPT ![t] = a]
  OBVIOUS
<1>3. /\ a \in Asked
      /\ a.stage = stage /\ a.told = told
      /\ a.via = asked[t].via /\ a.kind = asked[t].kind /\ a.again = asked[t].again
      /\ a.found = asked[t].found
  BY <1>1 DEF Asked
<1> HIDE DEF a
<1>4. asked'[t] = a /\ \A u \in Task \ {t} : asked'[u] = asked[u]
  BY <1>2, AskedTypes
<1>5. \A u \in a.again : asked'[u].kind = "capture" /\ asked'[u].told = "failed"
  <2>1. TAKE u \in a.again
  <2>2. u \in Task /\ asked[u].kind = "capture" /\ asked[u].told = "failed"
    BY <1>1, <1>3 DEF AskedOK, Asked, Maybe
  <2>3. QED  BY <1>1, <1>3, <1>4, <2>2
<1>6. AskedOK(t)'
  BY <1>1, <1>3, <1>4, <1>5 DEF AskedOK
<1>7. clientPromise \in {"none", "creating", "ready"}
  BY DEF RequestsInv, MemoryRecorderTypeOK
<1>8. QED  BY <1>2, <1>3, <1>6, <1>7, RequestKeeps

LEMMA AddsMemoryKeeps ==
  ASSUME MemoryInv, RequestsInv, focus = "recorders", UNCHANGED focus, NEW t \in Task, AddsMemory(t)
  PROVE  MemoryInv' /\ RequestsInv'
<1>1. /\ asked[t].stage = "client" /\ asked[t].kind = "capture"
      /\ Add(t, {})
      /\ asked' = [asked EXCEPT ![t].stage = "add"]
      /\ UNCHANGED clientPromise
  BY DEF AddsMemory, Waits
<1>2. MemoryInv'
  <2>1. {} \in Maybe(Session)
    BY DEF Maybe
  <2>2. QED  BY <1>1, <2>1, AddBegins
<1>3. UNCHANGED <<events, blobs>> /\ \A u \in Task \ {t} : adds'[u] = adds[u]
  BY <1>1, AddTypes DEF Add
<1>4. /\ asked[t] \in Asked /\ AskedOK(t)
      /\ asked[t].told \in {"none", "ok", "failed"}
  BY <1>1, AskedTypes DEF Asked
<1>5. asked' = [asked EXCEPT ![t] = [asked[t] EXCEPT !.stage = "add", !.told = asked[t].told]]
  BY <1>1, <1>4, AskedTypes DEF Asked
<1>6. /\ asked[t].told # "ok"
      /\ asked[t].told = "failed" => asked[t].via = "bridge"
  BY <1>1, <1>4 DEF AskedOK
<1>7. RequestsInv'
  BY <1>1, <1>3, <1>4, <1>5, <1>6, AnswerKeeps
<1>8. QED  BY <1>2, <1>7

\* A request that ends with an answer, its run of add being over or never begun.
LEMMA ToldKeeps ==
  ASSUME RequestsInv, focus = "recorders", NEW t \in Task, asked[t].stage # "none",
         NEW answer \in {"ok", "failed"}, asked' = Told(t, answer),
         UNCHANGED <<clientPromise, events, focus, blobs, adds>>,
         answer = "ok" => /\ asked[t].kind = "capture" => t \in blobs
                          /\ asked[t].told = "none",
         asked[t].kind = "capture" /\ answer = "failed" /\ asked[t].via # "bridge" =>
           adds[t].stage \in {"none", "write_error"}
  PROVE  RequestsInv'
<1>1. asked' = [asked EXCEPT ![t] = [asked[t] EXCEPT !.stage = "end", !.told = answer]]
  BY DEF Told
<1>2. QED  BY <1>1, AnswerKeeps

LEMMA EndsEarlyKeeps ==
  ASSUME RequestsInv, focus = "recorders", UNCHANGED focus, NEW t \in Task, EndsEarly(t)
  PROVE  RequestsInv'
<1>1. /\ asked[t].stage = "client"
      /\ asked' = Told(t, "failed")
      /\ UNCHANGED <<clientPromise, events, focus, blobs, adds>>
  BY DEF EndsEarly, memoryVars
<1>2. adds[t].stage = "none"
  BY <1>1, AskedTypes DEF AskedOK
<1>3. QED  BY <1>1, <1>2, ToldKeeps

LEMMA AddEndsKeeps ==
  ASSUME MemoryInv, RequestsInv, focus = "recorders", UNCHANGED focus, NEW t \in Task, AddEnds(t)
  PROVE  RequestsInv'
<1> DEFINE answer == IF asked[t].told = "none" /\ adds[t].stage = "done" THEN "ok" ELSE "failed"
<1>1. /\ asked[t].stage = "add"
      /\ adds[t].stage \in {"done", "write_error"}
      /\ asked' = Told(t, answer)
      /\ UNCHANGED <<clientPromise, events, focus, blobs, adds>>
  BY DEF AddEnds, memoryVars
<1>2. /\ answer = "ok" => t \in blobs /\ asked[t].told = "none"
      /\ answer \in {"ok", "failed"}
  BY AddTypes DEF AddOK
<1>3. asked[t].told \in {"none", "ok", "failed"}
  BY <1>1, AskedTypes DEF Asked
<1>4. asked[t].kind = "capture" /\ answer = "failed" /\ asked[t].via # "bridge" =>
        adds[t].stage \in {"none", "write_error"}
  BY <1>1, <1>3, AskedTypes DEF AskedOK
<1> HIDE DEF answer
<1>5. QED  BY <1>1, <1>2, <1>4, ToldKeeps

LEMMA BridgeGivenUpKeeps ==
  ASSUME RequestsInv, focus = "recorders", UNCHANGED focus, NEW t \in Task, BridgeGivenUp(t)
  PROVE  RequestsInv'
<1>1. /\ asked[t].via = "bridge" /\ asked[t].stage \in {"client", "add"}
      /\ asked' = [asked EXCEPT ![t].told = "failed"]
      /\ UNCHANGED <<clientPromise, events, focus, blobs, adds>>
  BY DEF BridgeGivenUp, memoryVars
<1>2. asked[t] \in Asked
  BY <1>1, AskedTypes
<1>3. asked' = [asked EXCEPT ![t] = [asked[t] EXCEPT !.stage = asked[t].stage, !.told = "failed"]]
  BY <1>1, <1>2, AskedTypes DEF Asked
<1>4. QED  BY <1>1, <1>3, AnswerKeeps

LEMMA RecallFailsKeeps ==
  ASSUME RequestsInv, focus = "recorders", UNCHANGED focus, NEW t \in Task, RecallFails(t)
  PROVE  RequestsInv'
BY ToldKeeps DEF RecallFails, Waits, memoryVars

LEMMA RecallAnswersKeeps ==
  ASSUME MemoryInv, RequestsInv, focus = "recorders", UNCHANGED focus, NEW t \in Task,
         RecallAnswers(t)
  PROVE  RequestsInv'
<1>1. /\ asked[t].stage = "client" /\ asked[t].kind = "recall"
      /\ UNCHANGED <<clientPromise, events, focus, blobs, adds>>
  BY DEF RecallAnswers, Waits, memoryVars
<1>2. PICK hits \in SUBSET blobs : asked' = [Told(t, "ok") EXCEPT ![t].found = hits]
  BY DEF RecallAnswers
<1> DEFINE a == [asked[t] EXCEPT !.stage = "end", !.told = "ok", !.found = hits]
<1>3. asked[t] \in Asked /\ AskedOK(t) /\ blobs \subseteq Task
  BY <1>1, AskedTypes, AddTypes
<1>4. asked' = [asked EXCEPT ![t] = a]
  BY <1>2, <1>3, AskedTypes DEF Told
<1>5. /\ a \in Asked
      /\ a.stage = "end" /\ a.told = "ok" /\ a.found = hits
      /\ a.kind = "recall" /\ a.again = asked[t].again
  BY <1>1, <1>3 DEF Asked
<1> HIDE DEF a
<1>6. asked'[t] = a /\ \A u \in Task \ {t} : asked'[u] = asked[u]
  BY <1>4, AskedTypes
<1>7. \A u \in a.again : asked'[u].kind = "capture" /\ asked'[u].told = "failed"
  <2>1. TAKE u \in a.again
  <2>2. u \in Task /\ asked[u].kind = "capture" /\ asked[u].told = "failed"
    BY <1>3, <1>5 DEF AskedOK, Asked, Maybe
  <2>3. QED  BY <1>1, <1>6, <2>2
<1>8. AskedOK(t)'
  BY <1>1, <1>5, <1>6, <1>7 DEF AskedOK
<1>9. clientPromise \in {"none", "creating", "ready"}
  BY DEF RequestsInv, MemoryRecorderTypeOK
<1>10. QED  BY <1>1, <1>4, <1>5, <1>8, <1>9, RequestKeeps

\* MemWal's answer to a run of add.
LEMMA MemWalAnswersKeeps ==
  ASSUME MemoryInv, RequestsInv, focus = "recorders", UNCHANGED <<focus, recallVars>>,
         NEW t \in Task, Remembered(t) \/ RememberFails(t)
  PROVE  RequestsInv'
<1>1. /\ adds[t].stage = "writing"
      /\ UNCHANGED <<asked, clientPromise, events, focus>>
      /\ blobs \subseteq blobs'
      /\ \A u \in Task \ {t} : adds'[u] = adds[u]
  BY AddTypes DEF Remembered, RememberFails, recallVars
<1>2. asked[t].stage \notin {"none", "client"} /\ AskedOK(t)
  BY <1>1, AskedTypes DEF AskedOK
<1>3. ASSUME NEW u \in Task PROVE AskedOK(u)'
  <2>1. CASE u = t
    BY <1>1, <1>2, <2>1 DEF AskedOK
  <2>2. CASE u # t
    <3>1. AskedOK(u) /\ adds'[u] = adds[u]
      BY <1>1, <2>2, AskedTypes
    <3>2. QED  BY <1>1, <3>1 DEF AskedOK
  <2>3. QED  BY <2>1, <2>2
<1>4. MemoryRecorderTypeOK' /\ OneWay'
  BY <1>1 DEF RequestsInv, MemoryRecorderTypeOK, OneWay
<1>5. QED  BY <1>3, <1>4 DEF RequestsInv

LEMMA MemoryStays ==
  ASSUME MemoryInv, UNCHANGED memoryVars
  PROVE  MemoryInv'
<1>1. adds' = adds /\ blobs' = blobs /\ events' = events
  BY DEF memoryVars
<1>2. \A t \in Task : CallsOf(t)' = CallsOf(t)
  BY <1>1 DEF CallsOf
<1>3. \A t \in Task : AddOK(t)'
  BY <1>1, <1>2 DEF MemoryInv, AddOK
<1>4. QED  BY <1>1, <1>3 DEF MemoryInv, MemoryTypeOK

LEMMA RecorderStepKeeps ==
  ASSUME MemoryInv, RequestsInv, focus = "recorders", UNCHANGED focus, RecorderStep
  PROVE  MemoryInv' /\ RequestsInv'
<1>1. ASSUME UNCHANGED memoryVars PROVE MemoryInv'
  BY <1>1, MemoryStays
<1>2. ASSUME NEW t \in Task, NEW question \in Question,
             LET kind == question[1]  again == question[2] IN
             \/ RecorderAsks(t, kind, again) \/ PythonAsks(t, kind, again)
             \/ CommandAsks(t, kind, again) \/ ToolAsks(t, kind, again)
      PROVE  MemoryInv' /\ RequestsInv'
  <2>1. question[1] \in {"capture", "recall"} /\ question[2] \in Maybe(Task)
    BY DEF Question, Maybe
  <2>2. RequestsInv'
    BY <1>2, <2>1, RequestsAsk
  <2>3. UNCHANGED memoryVars
    BY <1>2 DEF RecorderAsks, PythonAsks, CommandAsks, ToolAsks, Asks
  <2>4. QED  BY <1>1, <2>2, <2>3
<1>3. CASE ClientCreated
  BY <1>1, <1>3, ClientCreatedKeeps DEF ClientCreated
<1>4. CASE ClientFails
  BY <1>1, <1>4, ClientFailsKeeps DEF ClientFails
<1>5. ASSUME NEW t \in Task, AddsMemory(t)
      PROVE  MemoryInv' /\ RequestsInv'
  BY <1>5, AddsMemoryKeeps
<1>6. ASSUME NEW t \in Task, EndsEarly(t) \/ AddEnds(t) \/ BridgeGivenUp(t)
      PROVE  MemoryInv' /\ RequestsInv'
  <2>1. UNCHANGED memoryVars
    BY <1>6 DEF EndsEarly, AddEnds, BridgeGivenUp
  <2>2. QED  BY <1>1, <1>6, <2>1, EndsEarlyKeeps, AddEndsKeeps, BridgeGivenUpKeeps
<1>7. ASSUME NEW t \in Task, RecallAnswers(t) \/ RecallFails(t)
      PROVE  MemoryInv' /\ RequestsInv'
  <2>1. UNCHANGED memoryVars
    BY <1>7 DEF RecallAnswers, RecallFails
  <2>2. QED  BY <1>1, <1>7, <2>1, RecallAnswersKeeps, RecallFailsKeeps
<1>8. ASSUME NEW t \in Task, (Remembered(t) \/ RememberFails(t)) /\ UNCHANGED recallVars
      PROVE  MemoryInv' /\ RequestsInv'
  BY <1>8, RememberedKeeps, RememberFailsKeeps, MemWalAnswersKeeps
<1>9. QED  BY <1>2, <1>3, <1>4, <1>5, <1>6, <1>7, <1>8 DEF RecorderStep

-----------------------------------------------------------------------------
\* The pages about sessions.

\* A drawer shows what was found of the sessions it is about.
SessionsShown ==
  /\ \A d \in Day : page.verified[d] => Looked(d) \cap Tampered = {}
  /\ page.drawer # NoDrawer /\ page.drawer.status = "done" =>
       page.drawer.result \in Verdicts(Looked(page.drawer.day))

TraceShown ==
  /\ page.verify \in Verified(page.session)
  /\ page.drawer.stage = "walking" => page.drawer.i < CallCount
  /\ page.verified = "verified" => page.verify.ok /\ ~page.simulated
  /\ page.verified = "broken" => ~page.verify.ok \/ page.simulated
  /\ page.drawer.done # "none" => page.drawer.done = page.verified
  /\ page.reveal.state \in {"loading", "done"} => page.reveal.of = page.selected \/ page.moved

\* Polls that do not overlap come back in the order they were read.
StreamShown ==
  /\ page.highest <= page.newest
  /\ \A p \in Poll : page.read[p] <= page.newest
  /\ ~page.overlapped =>
       /\ page.lastTop = page.highest
       /\ \A p, q \in Poll : page.polls[p] # "idle" /\ page.polls[q] # "idle" => p = q
       /\ \A p \in Poll : page.polls[p] = "read" => page.highest <= page.read[p]

LEMMA VerdictsAreResults ==
  ASSUME NEW d \in Day, NEW f \in Verdicts(Looked(d))
  PROVE  f \in Results
BY DEF Results

LEMMA OkMeansIntact ==
  ASSUME NEW S, NEW f \in Verdicts(S), NEW s \in S, f[s] = "ok"
  PROVE  s \notin Tampered
BY DEF Verdicts, Found

LEMMA SessionsShownSays ==
  ASSUME page \in SessionsPage, SessionsShown
  PROVE  DayVerdictIsEarned
<1>1. ASSUME page.drawer # NoDrawer, page.drawer.status = "done",
             NEW s \in DOMAIN page.drawer.result, page.drawer.result[s] = "ok"
      PROVE  s \in Looked(page.drawer.day) \ Tampered
  <2> DEFINE f == page.drawer.result
             S == Looked(page.drawer.day)
  <2>1. f \in Verdicts(S)
    BY <1>1 DEF SessionsShown
  <2> HIDE DEF f, S
  <2>2. DOMAIN f = S
    BY <2>1 DEF Verdicts
  <2>3. s \in S /\ f[s] = "ok"
    BY <1>1, <2>2 DEF f
  <2>4. QED  BY <2>1, <2>3, OkMeansIntact DEF S
<1>2. QED  BY <1>1 DEF SessionsShown, DayVerdictIsEarned

\* The steps of the session list.
LEMMA OpenSessionsKeeps ==
  ASSUME OpenSessions
  PROVE  page' \in SessionsPage /\ SessionsShown'
BY DEF OpenSessions, Opens, SessionsPage, SessionsShown

LEMMA OpenDrawerKeeps ==
  ASSUME page \in SessionsPage, SessionsShown, NEW kind \in {"verify", "export"}, NEW d \in Day,
         OpenDrawer(kind, d)
  PROVE  page' \in SessionsPage /\ SessionsShown'
<1> DEFINE drawer == [kind |-> kind, day |-> d, status |-> "loading", result |-> <<>>]
<1>1. page' = [page EXCEPT !.drawer = drawer]
  BY DEF OpenDrawer
<1>2. drawer \in SessionsDrawer /\ drawer.status = "loading"
  BY DEF SessionsDrawer, Results
<1> HIDE DEF drawer
<1>3. QED  BY <1>1, <1>2 DEF SessionsPage, SessionsShown

\* A drawer with an answer.
LEMMA DrawerKeeps ==
  ASSUME page \in SessionsPage, SessionsShown, page.drawer # NoDrawer,
         NEW drawer \in SessionsDrawer, NEW verified \in [Day -> BOOLEAN],
         page' = [page EXCEPT !.drawer = drawer, !.verified = verified],
         drawer.status = "done" => drawer.result \in Verdicts(Looked(drawer.day)),
         \A d \in Day : verified[d] => page.verified[d] \/ Looked(d) \cap Tampered = {}
  PROVE  page' \in SessionsPage /\ SessionsShown'
BY DEF SessionsPage, SessionsShown

LEMMA WaitingDrawer ==
  ASSUME page \in SessionsPage, NEW kind \in {"verify", "export"}, Waiting(kind)
  PROVE  /\ page.drawer \in SessionsDrawer /\ page.drawer # NoDrawer
         /\ page.drawer.day \in Day
BY DEF SessionsPage, Waiting, NoDrawer, SessionsDrawer

LEMMA VerifyAnsweredKeeps ==
  ASSUME page \in SessionsPage, SessionsShown, VerifyAnswered
  PROVE  page' \in SessionsPage /\ SessionsShown'
<1>1. PICK f \in Verdicts(Looked(page.drawer.day)) :
        page' = [page EXCEPT !.drawer.status = "done", !.drawer.result = f,
                             !.verified[page.drawer.day] = VerifySessionsOk(f)]
  BY DEF VerifyAnswered
<1>2. /\ page.drawer \in SessionsDrawer /\ page.drawer # NoDrawer
      /\ page.drawer.day \in Day
  BY WaitingDrawer DEF VerifyAnswered
<1> DEFINE d == page.drawer.day
           drawer == [page.drawer EXCEPT !.status = "done", !.result = f]
           ok == VerifySessionsOk(f)
           verified == [page.verified EXCEPT ![d] = ok]
<1>3. page' = [page EXCEPT !.drawer = drawer, !.verified = verified]
  BY <1>1, <1>2 DEF SessionsPage
<1>4. f \in Results
  BY <1>2, VerdictsAreResults
<1>5. drawer \in SessionsDrawer /\ drawer.result = f /\ drawer.day = d
  BY <1>2, <1>4 DEF SessionsDrawer
<1>6. ok \in BOOLEAN /\ (ok => Looked(d) \cap Tampered = {})
  <2>1. DOMAIN f = Looked(d)
    BY DEF Verdicts
  <2>2. QED  BY <2>1, OkMeansIntact DEF VerifySessionsOk
<1> HIDE DEF ok
<1>7. /\ verified \in [Day -> BOOLEAN]
      /\ \A x \in Day : verified[x] => page.verified[x] \/ Looked(x) \cap Tampered = {}
  BY <1>2, <1>6 DEF SessionsPage
<1> HIDE DEF verified, drawer
<1>8. QED  BY <1>2, <1>3, <1>5, <1>7, DrawerKeeps

LEMMA VerifyErroredKeeps ==
  ASSUME page \in SessionsPage, SessionsShown, VerifyErrored
  PROVE  page' \in SessionsPage /\ SessionsShown'
<1>1. page' = [page EXCEPT !.drawer.status = "error", !.verified[page.drawer.day] = FALSE]
  BY DEF VerifyErrored
<1>2. /\ page.drawer \in SessionsDrawer /\ page.drawer # NoDrawer
      /\ page.drawer.day \in Day
  BY WaitingDrawer DEF VerifyErrored
<1> DEFINE drawer == [page.drawer EXCEPT !.status = "error"]
           verified == [page.verified EXCEPT ![page.drawer.day] = FALSE]
<1>3. page' = [page EXCEPT !.drawer = drawer, !.verified = verified]
  BY <1>1, <1>2 DEF SessionsPage
<1>4. drawer \in SessionsDrawer /\ drawer.status = "error"
  BY <1>2 DEF SessionsDrawer
<1>5. /\ verified \in [Day -> BOOLEAN]
      /\ \A x \in Day : verified[x] => page.verified[x]
  BY <1>2 DEF SessionsPage
<1> HIDE DEF verified, drawer
<1>6. QED  BY <1>2, <1>3, <1>4, <1>5, DrawerKeeps

LEMMA ExportAnsweredKeeps ==
  ASSUME page \in SessionsPage, SessionsShown, ExportAnswered
  PROVE  page' \in SessionsPage /\ SessionsShown'
<1>1. PICK f \in Verdicts(Looked(page.drawer.day)) :
        page' = [page EXCEPT !.drawer.status = "done", !.drawer.result = f]
  BY DEF ExportAnswered
<1>2. /\ page.drawer \in SessionsDrawer /\ page.drawer # NoDrawer
      /\ page.drawer.day \in Day
  BY WaitingDrawer DEF ExportAnswered
<1> DEFINE drawer == [page.drawer EXCEPT !.status = "done", !.result = f]
           verified == page.verified
<1>3. page' = [page EXCEPT !.drawer = drawer, !.verified = verified]
  BY <1>1, <1>2 DEF SessionsPage
<1>4. f \in Results
  BY <1>2, VerdictsAreResults
<1>5. drawer \in SessionsDrawer /\ drawer.result = f /\ drawer.day = page.drawer.day
  BY <1>2, <1>4 DEF SessionsDrawer
<1>6. /\ verified \in [Day -> BOOLEAN]
      /\ \A x \in Day : verified[x] => page.verified[x]
  BY DEF SessionsPage
<1> HIDE DEF verified, drawer
<1>7. QED  BY <1>2, <1>3, <1>5, <1>6, DrawerKeeps

LEMMA ExportErroredKeeps ==
  ASSUME page \in SessionsPage, SessionsShown, ExportErrored
  PROVE  page' \in SessionsPage /\ SessionsShown'
<1>1. page' = [page EXCEPT !.drawer.status = "error"]
  BY DEF ExportErrored
<1>2. /\ page.drawer \in SessionsDrawer /\ page.drawer # NoDrawer
      /\ page.drawer.day \in Day
  BY WaitingDrawer DEF ExportErrored
<1> DEFINE drawer == [page.drawer EXCEPT !.status = "error"]
           verified == page.verified
<1>3. page' = [page EXCEPT !.drawer = drawer, !.verified = verified]
  BY <1>1, <1>2 DEF SessionsPage
<1>4. drawer \in SessionsDrawer /\ drawer.status = "error"
  BY <1>2 DEF SessionsDrawer
<1>5. /\ verified \in [Day -> BOOLEAN]
      /\ \A x \in Day : verified[x] => page.verified[x]
  BY DEF SessionsPage
<1> HIDE DEF verified, drawer
<1>6. QED  BY <1>2, <1>3, <1>4, <1>5, DrawerKeeps

LEMMA CloseDrawerKeeps ==
  ASSUME page \in SessionsPage, SessionsShown, CloseDrawer
  PROVE  page' \in SessionsPage /\ SessionsShown'
BY DEF CloseDrawer, SessionsPage, SessionsShown

-----------------------------------------------------------------------------
\* The trace page.
LEMMA TraceShownSays ==
  ASSUME TraceShown
  PROVE  TraceVerdictIsEarned /\ PlaintextIsOfItsCall
BY DEF TraceShown, TraceVerdictIsEarned, PlaintextIsOfItsCall

LEMMA VerifiedTypes ==
  ASSUME NEW s, NEW v \in Verified(s)
  PROVE  /\ v \in [ok : BOOLEAN, brokenAt : 0..CallCount]
         /\ v.brokenAt # 0 => v.ok = FALSE
<1>1. \/ \E k \in 0..CallCount : v = [ok |-> FALSE, brokenAt |-> k]
      \/ v = [ok |-> TRUE, brokenAt |-> 0]
  BY DEF Verified
<1>2. CASE \E k \in 0..CallCount : v = [ok |-> FALSE, brokenAt |-> k]
  BY <1>2
<1>3. CASE v = [ok |-> TRUE, brokenAt |-> 0]
  BY <1>3, SessionPagesConstants
<1>4. QED  BY <1>1, <1>2, <1>3

LEMMA OpenTraceKeeps ==
  ASSUME NEW s \in Session, OpenTrace(s)
  PROVE  page' \in TracePage /\ TraceShown'
<1>1. PICK v \in Verified(s) :
        page' = [name |-> "trace", session |-> s, verify |-> v, verified |-> "none",
                 simulated |-> FALSE, drawer |-> NotWalking, selected |-> 1,
                 reveal |-> NotRevealed, moved |-> FALSE]
  BY DEF OpenTrace, Opens
<1>2. v \in [ok : BOOLEAN, brokenAt : 0..CallCount]
  BY VerifiedTypes
<1>3. /\ NotWalking \in Walk /\ NotWalking.stage = "closed" /\ NotWalking.done = "none"
      /\ NotRevealed \in Reveal /\ NotRevealed.state = "idle"
      /\ 1 \in 1..CallCount
  BY SessionPagesConstants DEF NotWalking, NotRevealed, Walk, Reveal
<1>4. page' \in TracePage
  BY <1>1, <1>2, <1>3 DEF TracePage
<1>5. TraceShown'
  BY <1>1, <1>3 DEF TraceShown
<1>6. QED  BY <1>4, <1>5

LEMMA TraceTypes ==
  ASSUME page \in TracePage, TraceShown
  PROVE  /\ page.drawer \in Walk
         /\ page.drawer.i \in 0..CallCount
         /\ page.drawer.tamper \in BOOLEAN
         /\ page.verify.ok \in BOOLEAN
         /\ page.verify.brokenAt \in 0..CallCount
         /\ page.verify.brokenAt # 0 => page.verify.ok = FALSE
         /\ page.reveal \in Reveal
         /\ page.reveal.of \in 0..CallCount
         /\ page.selected \in 1..CallCount
         /\ CallCount \in Nat \ {0}
<1>1. page.verify \in Verified(page.session)
  BY DEF TraceShown
<1>2. page.verify.brokenAt # 0 => page.verify.ok = FALSE
  BY <1>1, VerifiedTypes
<1>3. QED  BY <1>2, SessionPagesConstants DEF TracePage, Walk, Reveal

\* A step of the verify drawer that reaches no verdict.
LEMMA WalkKeeps ==
  ASSUME page \in TracePage, TraceShown, NEW drawer \in Walk, page' = [page EXCEPT !.drawer = drawer],
         drawer.stage = "walking" => drawer.i < CallCount,
         drawer.done # "none" => drawer.done = page.drawer.done
  PROVE  page' \in TracePage /\ TraceShown'
<1>1. page' \in TracePage
  BY DEF TracePage
<1>2. /\ page'.drawer = drawer
      /\ page'.verify = page.verify /\ page'.session = page.session
      /\ page'.verified = page.verified /\ page'.simulated = page.simulated
      /\ page'.reveal = page.reveal /\ page'.selected = page.selected /\ page'.moved = page.moved
  BY DEF TracePage
<1>3. QED  BY <1>1, <1>2 DEF TraceShown

LEMMA OpenVerifyKeeps ==
  ASSUME page \in TracePage, TraceShown, OpenVerify
  PROVE  page' \in TracePage /\ TraceShown'
<1> DEFINE drawer == [NotWalking EXCEPT !.stage = "waiting"]
<1>1. page' = [page EXCEPT !.drawer = drawer]
  BY DEF OpenVerify
<1>2. drawer \in Walk /\ drawer.stage = "waiting" /\ drawer.done = "none"
  <2>1. NotWalking \in Walk /\ NotWalking.done = "none"
    BY SessionPagesConstants DEF NotWalking, Walk
  <2>2. QED  BY <2>1 DEF Walk
<1> HIDE DEF drawer
<1>3. QED  BY <1>1, <1>2, WalkKeeps

LEMMA ToggleTamperKeeps ==
  ASSUME page \in TracePage, TraceShown, ToggleTamper
  PROVE  page' \in TracePage /\ TraceShown'
<1> DEFINE drawer == [page.drawer EXCEPT !.stage = "waiting", !.tamper = ~@]
<1>1. page' = [page EXCEPT !.drawer = drawer]
  BY TraceTypes DEF ToggleTamper, TracePage, Walk
<1>2. drawer \in Walk /\ drawer.stage = "waiting" /\ drawer.done = page.drawer.done
  BY TraceTypes DEF Walk
<1> HIDE DEF drawer
<1>3. QED  BY <1>1, <1>2, WalkKeeps

LEMMA StartWalkKeeps ==
  ASSUME page \in TracePage, TraceShown, StartWalk
  PROVE  page' \in TracePage /\ TraceShown'
<1> DEFINE drawer == [page.drawer EXCEPT !.stage = "walking", !.i = 0, !.done = "none"]
<1>1. page' = [page EXCEPT !.drawer = drawer]
  BY TraceTypes DEF StartWalk, TracePage, Walk
<1>2. drawer \in Walk /\ drawer.i = 0 /\ drawer.done = "none" /\ 0 < CallCount
  <2>1. page.drawer \in Walk /\ 0 \in 0..CallCount /\ 0 < CallCount
    BY TraceTypes
  <2>2. QED  BY <2>1 DEF Walk
<1> HIDE DEF drawer
<1>3. QED  BY <1>1, <1>2, WalkKeeps

LEMMA CloseVerifyKeeps ==
  ASSUME page \in TracePage, TraceShown, CloseVerify
  PROVE  page' \in TracePage /\ TraceShown'
<1>1. page' = [page EXCEPT !.drawer = NotWalking]
  BY DEF CloseVerify
<1>2. NotWalking \in Walk /\ NotWalking.stage = "closed" /\ NotWalking.done = "none"
  BY SessionPagesConstants DEF NotWalking, Walk
<1>3. QED  BY <1>1, <1>2, WalkKeeps

\* The step at which the walk ends: the drawer and the badge say the same.
LEMMA ShowsKeeps ==
  ASSUME page \in TracePage, TraceShown, page.drawer.stage = "walking", NEW ok \in BOOLEAN,
         page' = Shows(ok),
         ok => page.verify.ok /\ ~page.drawer.tamper,
         ~ok => ~page.verify.ok \/ page.drawer.tamper
  PROVE  page' \in TracePage /\ TraceShown'
<1> DEFINE label == IF ok THEN "verified" ELSE "broken"
           tamper == page.drawer.tamper
           drawer == [page.drawer EXCEPT !.i = @ + 1, !.stage = "finished", !.done = label]
<1>1. page' = [page EXCEPT !.drawer = drawer, !.verified = label, !.simulated = tamper]
  BY TraceTypes DEF Shows, TracePage, Walk
<1>2. page.drawer.i < CallCount
  BY DEF TraceShown
<1>3. label \in {"verified", "broken"} /\ (label = "verified" <=> ok)
  OBVIOUS
<1>4. tamper \in BOOLEAN
  BY TraceTypes
<1>5. drawer \in Walk /\ drawer.stage = "finished" /\ drawer.done = label
  <2> HIDE DEF label, tamper
  <2>1. page.drawer \in Walk /\ page.drawer.i + 1 \in 0..CallCount
    BY <1>2, TraceTypes
  <2>2. QED  BY <1>3, <2>1 DEF Walk
<1>6. ok => page.verify.ok /\ ~tamper
  OBVIOUS
<1>7. ~ok => ~page.verify.ok \/ tamper
  OBVIOUS
<1> HIDE DEF drawer, label, tamper
<1>8. page' \in TracePage
  BY <1>1, <1>3, <1>4, <1>5 DEF TracePage
<1>9. /\ page'.drawer = drawer /\ page'.verified = label /\ page'.simulated = tamper
      /\ page'.verify = page.verify /\ page'.session = page.session
      /\ page'.reveal = page.reveal /\ page'.selected = page.selected /\ page'.moved = page.moved
  BY <1>1 DEF TracePage
<1>10. QED  BY <1>3, <1>5, <1>6, <1>7, <1>8, <1>9 DEF TraceShown

LEMMA WalkStepKeeps ==
  ASSUME page \in TracePage, TraceShown, WalkStep
  PROVE  page' \in TracePage /\ TraceShown'
<1>1. page.drawer.stage = "walking"
  BY DEF WalkStep
<1>2. CASE page.drawer.i + 1 = BreakAt
  <2>1. page' = Shows(FALSE)
    BY <1>2 DEF WalkStep
  <2>2. ~page.verify.ok \/ page.drawer.tamper
    <3>1. SUFFICES ASSUME ~page.drawer.tamper PROVE ~page.verify.ok
      OBVIOUS
    <3>2. BreakAt = page.verify.brokenAt
      BY <3>1 DEF BreakAt
    <3>3. page.verify.brokenAt # 0
      BY <1>2, <3>2, TraceTypes
    <3>4. page.verify.ok = FALSE
      BY <3>3, TraceTypes
    <3>5. QED  BY <3>4
  <2>3. QED  BY <1>1, <2>1, <2>2, ShowsKeeps
<1>3. CASE page.drawer.i + 1 # BreakAt /\ page.drawer.i + 1 >= CallCount
  <2> DEFINE ok == ~page.drawer.tamper /\ page.verify.ok
  <2>1. page' = Shows(ok)
    BY <1>3 DEF WalkStep
  <2>2. ok \in BOOLEAN /\ (ok <=> page.verify.ok /\ ~page.drawer.tamper)
    BY TraceTypes
  <2> HIDE DEF ok
  <2>3. QED  BY <1>1, <2>1, <2>2, ShowsKeeps
<1>4. CASE page.drawer.i + 1 # BreakAt /\ ~(page.drawer.i + 1 >= CallCount)
  <2> DEFINE drawer == [page.drawer EXCEPT !.i = @ + 1]
  <2>1. page' = [page EXCEPT !.drawer.i = @ + 1]
    BY <1>4 DEF WalkStep
  <2>2. page' = [page EXCEPT !.drawer = drawer]
    BY <2>1, TraceTypes DEF TracePage, Walk
  <2>3. drawer \in Walk /\ drawer.i < CallCount /\ drawer.done = page.drawer.done
    <3>1. page.drawer \in Walk /\ page.drawer.i + 1 \in 0..CallCount /\ page.drawer.i + 1 < CallCount
      BY <1>4, TraceTypes
    <3>2. QED  BY <3>1 DEF Walk
  <2> HIDE DEF drawer
  <2>4. QED  BY <2>2, <2>3, WalkKeeps
<1>5. QED  BY <1>2, <1>3, <1>4

\* What a step of the trace page leaves of its verdict.
LEMMA RevealKeeps ==
  ASSUME page \in TracePage, TraceShown, NEW reveal \in Reveal, NEW selected \in 1..CallCount,
         NEW moved \in BOOLEAN,
         page' = [page EXCEPT !.selected = selected, !.reveal = reveal, !.moved = moved],
         reveal.state \in {"loading", "done"} => reveal.of = selected \/ moved
  PROVE  page' \in TracePage /\ TraceShown'
<1>1. page' \in TracePage
  BY DEF TracePage
<1>2. /\ page'.drawer = page.drawer
      /\ page'.verify = page.verify /\ page'.session = page.session
      /\ page'.verified = page.verified /\ page'.simulated = page.simulated
      /\ page'.reveal = reveal /\ page'.selected = selected /\ page'.moved = moved
  BY DEF TracePage
<1>3. QED  BY <1>1, <1>2 DEF TraceShown

LEMMA SelectCallKeeps ==
  ASSUME page \in TracePage, TraceShown, NEW c \in 1..CallCount, SelectCall(c)
  PROVE  page' \in TracePage /\ TraceShown'
<1> DEFINE moved == page.moved \/ page.reveal.state = "loading" \/ page.reveal.state = "done"
           reveal == page.reveal
<1>1. page' = [page EXCEPT !.selected = c, !.reveal = reveal, !.moved = moved]
  BY DEF SelectCall, TracePage
<1>2. reveal \in Reveal /\ moved \in BOOLEAN
  BY DEF TracePage
<1>3. reveal.state \in {"loading", "done"} => moved
  OBVIOUS
<1> HIDE DEF moved, reveal
<1>4. QED  BY <1>1, <1>2, <1>3, RevealKeeps

LEMMA DecryptKeeps ==
  ASSUME page \in TracePage, TraceShown, Decrypt
  PROVE  page' \in TracePage /\ TraceShown'
<1> DEFINE reveal == [state |-> "loading", of |-> page.selected]
           selected == page.selected
<1>1. page' = [page EXCEPT !.selected = selected, !.reveal = reveal, !.moved = FALSE]
  BY DEF Decrypt, TracePage
<1>2. reveal \in Reveal /\ selected \in 1..CallCount /\ reveal.of = selected
  BY TraceTypes DEF Reveal
<1> HIDE DEF reveal, selected
<1>3. QED  BY <1>1, <1>2, RevealKeeps

LEMMA DecryptAnsweredKeeps ==
  ASSUME page \in TracePage, TraceShown, NEW state \in {"done", "error"}, DecryptAnswered(state)
  PROVE  page' \in TracePage /\ TraceShown'
<1> DEFINE reveal == [page.reveal EXCEPT !.state = state]
           selected == page.selected
           moved == page.moved
<1>1. page' = [page EXCEPT !.selected = selected, !.reveal = reveal, !.moved = moved]
  BY TraceTypes DEF DecryptAnswered, TracePage, Reveal
<1>2. /\ reveal \in Reveal /\ selected \in 1..CallCount /\ moved \in BOOLEAN
      /\ reveal.of = page.reveal.of
  BY TraceTypes DEF Reveal, TracePage
<1>3. page.reveal.of = selected \/ moved
  BY DEF DecryptAnswered, TraceShown
<1> HIDE DEF reveal, selected, moved
<1>4. QED  BY <1>1, <1>2, <1>3, RevealKeeps

LEMMA TraceStepKeeps ==
  ASSUME page.name = "trace" => page \in TracePage /\ TraceShown, TraceStep
  PROVE  page' \in TracePage /\ TraceShown'
<1>1. ASSUME NEW s \in Session, OpenTrace(s)
      PROVE  page' \in TracePage /\ TraceShown'
  BY <1>1, OpenTraceKeeps
<1>2. ASSUME OpenVerify \/ ToggleTamper \/ StartWalk \/ WalkStep \/ CloseVerify
      PROVE  page' \in TracePage /\ TraceShown'
  <2>1. page.name = "trace"
    BY <1>2 DEF OpenVerify, ToggleTamper, StartWalk, WalkStep, CloseVerify, On
  <2>2. QED  BY <1>2, <2>1, OpenVerifyKeeps, ToggleTamperKeeps, StartWalkKeeps, WalkStepKeeps,
                CloseVerifyKeeps
<1>3. ASSUME NEW c \in 1..CallCount, SelectCall(c)
      PROVE  page' \in TracePage /\ TraceShown'
  <2>1. page.name = "trace"
    BY <1>3 DEF SelectCall, On
  <2>2. QED  BY <1>3, <2>1, SelectCallKeeps
<1>4. ASSUME Decrypt
      PROVE  page' \in TracePage /\ TraceShown'
  <2>1. page.name = "trace"
    BY <1>4 DEF Decrypt, On
  <2>2. QED  BY <1>4, <2>1, DecryptKeeps
<1>5. ASSUME NEW state \in {"done", "error"}, DecryptAnswered(state)
      PROVE  page' \in TracePage /\ TraceShown'
  <2>1. page.name = "trace"
    BY <1>5 DEF DecryptAnswered, On
  <2>2. QED  BY <1>5, <2>1, DecryptAnsweredKeeps
<1>6. QED  BY <1>1, <1>2, <1>3, <1>4, <1>5 DEF TraceStep

LEMMA SessionsStepKeeps ==
  ASSUME page.name = "sessions" => page \in SessionsPage /\ SessionsShown, SessionsStep
  PROVE  page' \in SessionsPage /\ SessionsShown'
<1>1. CASE OpenSessions
  BY <1>1, OpenSessionsKeeps
<1>2. ASSUME NEW kind \in {"verify", "export"}, NEW d \in Day, OpenDrawer(kind, d)
      PROVE  page' \in SessionsPage /\ SessionsShown'
  <2>1. page.name = "sessions"
    BY <1>2 DEF OpenDrawer, On
  <2>2. QED  BY <1>2, <2>1, OpenDrawerKeeps
<1>3. CASE VerifyAnswered \/ VerifyErrored \/ ExportAnswered \/ ExportErrored \/ CloseDrawer
  <2>1. page.name = "sessions"
    BY <1>3 DEF VerifyAnswered, VerifyErrored, ExportAnswered, ExportErrored, CloseDrawer, Waiting, On
  <2>2. QED  BY <1>3, <2>1, VerifyAnsweredKeeps, VerifyErroredKeeps, ExportAnsweredKeeps,
                ExportErroredKeeps, CloseDrawerKeeps
<1>4. QED  BY <1>1, <1>2, <1>3 DEF SessionsStep

-----------------------------------------------------------------------------
\* The stream.
LEMMA StreamShownSays ==
  ASSUME StreamShown
  PROVE  StreamGoesForward
BY DEF StreamShown, StreamGoesForward

LEMMA StreamTypes ==
  ASSUME page \in StreamPage
  PROVE  /\ page.newest \in 0..MaxNew /\ page.lastTop \in 0..MaxNew /\ page.highest \in 0..MaxNew
         /\ page.polls \in [Poll -> {"idle", "asked", "read"}]
         /\ page.read \in [Poll -> 0..MaxNew]
         /\ \A p \in Poll : page.read[p] \in 0..MaxNew
         /\ page.overlapped \in BOOLEAN
         /\ MaxNew \in Nat
BY SessionPagesConstants DEF StreamPage

LEMMA OpenStreamKeeps ==
  ASSUME OpenStream
  PROVE  page' \in StreamPage /\ StreamShown'
BY SessionPagesConstants DEF OpenStream, Opens, StreamPage, StreamShown

LEMMA SessionOpensKeeps ==
  ASSUME page \in StreamPage, StreamShown, SessionOpens
  PROVE  page' \in StreamPage /\ StreamShown'
<1>1. page' = [page EXCEPT !.newest = @ + 1] /\ page.newest < MaxNew
  BY DEF SessionOpens
<1>2. page.newest + 1 \in 0..MaxNew
  BY <1>1, StreamTypes
<1>3. page' \in StreamPage
  BY <1>1, <1>2 DEF StreamPage
<1>4. /\ page'.newest = page.newest + 1 /\ page'.lastTop = page.lastTop
      /\ page'.highest = page.highest /\ page'.polls = page.polls /\ page'.read = page.read
      /\ page'.overlapped = page.overlapped
  BY <1>1 DEF StreamPage
<1>5. StreamShown'
  BY <1>4, StreamTypes DEF StreamShown
<1>6. QED  BY <1>3, <1>5

LEMMA StartPollKeeps ==
  ASSUME page \in StreamPage, StreamShown, NEW p \in Poll, StartPoll(p)
  PROVE  page' \in StreamPage /\ StreamShown'
<1> DEFINE over == page.overlapped \/ \E q \in Poll : page.polls[q] # "idle"
           polls == [page.polls EXCEPT ![p] = "asked"]
<1>1. page' = [page EXCEPT !.polls = polls, !.overlapped = over] /\ page.polls[p] = "idle"
  BY DEF StartPoll, StreamPage
<1>2. /\ polls \in [Poll -> {"idle", "asked", "read"}]
      /\ polls[p] = "asked"
      /\ \A q \in Poll \ {p} : polls[q] = page.polls[q]
  BY StreamTypes
<1>3. /\ over \in BOOLEAN
      /\ ~over => ~page.overlapped /\ \A q \in Poll : page.polls[q] = "idle"
  OBVIOUS
<1> HIDE DEF over, polls
<1>4. page' \in StreamPage
  BY <1>1, <1>2, <1>3 DEF StreamPage
<1>5. /\ page'.newest = page.newest /\ page'.lastTop = page.lastTop
      /\ page'.highest = page.highest /\ page'.polls = polls /\ page'.read = page.read
      /\ page'.overlapped = over
  BY <1>1 DEF StreamPage
<1>6. StreamShown'
  BY <1>2, <1>3, <1>5 DEF StreamShown
<1>7. QED  BY <1>4, <1>6

LEMMA PollReadsKeeps ==
  ASSUME page \in StreamPage, StreamShown, NEW p \in Poll, PollReads(p)
  PROVE  page' \in StreamPage /\ StreamShown'
<1> DEFINE polls == [page.polls EXCEPT ![p] = "read"]
           read == [page.read EXCEPT ![p] = page.newest]
<1>1. page' = [page EXCEPT !.polls = polls, !.read = read] /\ page.polls[p] = "asked"
  BY DEF PollReads, StreamPage
<1>2. /\ polls \in [Poll -> {"idle", "asked", "read"}]
      /\ \A q \in Poll \ {p} : polls[q] = page.polls[q] /\ read[q] = page.read[q]
      /\ read \in [Poll -> 0..MaxNew]
      /\ polls[p] = "read" /\ read[p] = page.newest
  BY StreamTypes
<1> HIDE DEF polls, read
<1>3. page' \in StreamPage
  BY <1>1, <1>2 DEF StreamPage
<1>4. /\ page'.newest = page.newest /\ page'.lastTop = page.lastTop
      /\ page'.highest = page.highest /\ page'.polls = polls /\ page'.read = read
      /\ page'.overlapped = page.overlapped
  BY <1>1 DEF StreamPage
<1>5. StreamShown'
  BY <1>1, <1>2, <1>4, StreamTypes DEF StreamShown
<1>6. QED  BY <1>3, <1>5

\* A poll that is over.
LEMMA PollEnds ==
  ASSUME page \in StreamPage, NEW p \in Poll
  PROVE  /\ [page.polls EXCEPT ![p] = "idle"] \in [Poll -> {"idle", "asked", "read"}]
         /\ [page.read EXCEPT ![p] = 0] \in [Poll -> 0..MaxNew]
BY StreamTypes

LEMMA PollAnsweredKeeps ==
  ASSUME page \in StreamPage, StreamShown, NEW p \in Poll, PollAnswered(p)
  PROVE  page' \in StreamPage /\ StreamShown'
<1> DEFINE top == page.read[p]
           polls == [page.polls EXCEPT ![p] = "idle"]
           read == [page.read EXCEPT ![p] = 0]
           lastTop == IF top # 0 THEN top ELSE page.lastTop
           highest == IF top > page.highest THEN top ELSE page.highest
<1>1. /\ page' = [page EXCEPT !.polls = polls, !.read = read, !.lastTop = lastTop,
                              !.highest = highest]
      /\ page.polls[p] = "read"
  BY DEF PollAnswered, StreamPage
<1>2. /\ polls \in [Poll -> {"idle", "asked", "read"}]
      /\ read \in [Poll -> 0..MaxNew]
  BY PollEnds
<1>3. /\ \A q \in Poll \ {p} : polls[q] = page.polls[q] /\ read[q] = page.read[q]
      /\ polls[p] = "idle" /\ read[p] = 0
  BY StreamTypes
<1>4. top \in 0..MaxNew /\ top <= page.newest
  BY StreamTypes DEF StreamShown
<1>5. /\ lastTop \in 0..MaxNew
      /\ highest \in 0..MaxNew /\ highest <= page.newest
  BY <1>4, StreamTypes DEF StreamShown
<1>6. ~page.overlapped => lastTop = highest /\ \A q \in Poll \ {p} : page.polls[q] = "idle"
  BY <1>1, <1>4, StreamTypes DEF StreamShown
<1> HIDE DEF polls, read, top, lastTop, highest
<1>7. page' \in StreamPage
  BY <1>1, <1>2, <1>5 DEF StreamPage
<1>8. /\ page'.newest = page.newest /\ page'.lastTop = lastTop
      /\ page'.highest = highest /\ page'.polls = polls /\ page'.read = read
      /\ page'.overlapped = page.overlapped
  BY <1>1 DEF StreamPage
<1>9. StreamShown'
  BY <1>3, <1>5, <1>6, <1>8, StreamTypes DEF StreamShown
<1>10. QED  BY <1>7, <1>9

LEMMA PollFailsKeeps ==
  ASSUME page \in StreamPage, StreamShown, NEW p \in Poll, PollFails(p)
  PROVE  page' \in StreamPage /\ StreamShown'
<1> DEFINE polls == [page.polls EXCEPT ![p] = "idle"]
           read == [page.read EXCEPT ![p] = 0]
<1>1. page' = [page EXCEPT !.polls = polls, !.read = read]
  BY DEF PollFails, StreamPage
<1>2. /\ polls \in [Poll -> {"idle", "asked", "read"}]
      /\ read \in [Poll -> 0..MaxNew]
  BY PollEnds
<1>3. /\ \A q \in Poll \ {p} : polls[q] = page.polls[q] /\ read[q] = page.read[q]
      /\ polls[p] = "idle" /\ read[p] = 0
  BY StreamTypes
<1> HIDE DEF polls, read
<1>4. page' \in StreamPage
  BY <1>1, <1>2 DEF StreamPage
<1>5. /\ page'.newest = page.newest /\ page'.lastTop = page.lastTop
      /\ page'.highest = page.highest /\ page'.polls = polls /\ page'.read = read
      /\ page'.overlapped = page.overlapped
  BY <1>1 DEF StreamPage
<1>6. StreamShown'
  BY <1>3, <1>5, StreamTypes DEF StreamShown
<1>7. QED  BY <1>4, <1>6

LEMMA StreamStepKeeps ==
  ASSUME page.name = "stream" => page \in StreamPage /\ StreamShown, StreamStep
  PROVE  page' \in StreamPage /\ StreamShown'
<1>1. CASE OpenStream
  BY <1>1, OpenStreamKeeps
<1>2. CASE SessionOpens
  <2>1. page.name = "stream"
    BY <1>2 DEF SessionOpens, On
  <2>2. QED  BY <1>2, <2>1, SessionOpensKeeps
<1>3. ASSUME NEW p \in Poll, StartPoll(p) \/ PollReads(p) \/ PollAnswered(p) \/ PollFails(p)
      PROVE  page' \in StreamPage /\ StreamShown'
  <2>1. page.name = "stream"
    BY <1>3 DEF StartPoll, PollReads, PollAnswered, PollFails, On
  <2>2. QED  BY <1>3, <2>1, StartPollKeeps, PollReadsKeeps, PollAnsweredKeeps, PollFailsKeeps
<1>4. QED  BY <1>1, <1>2, <1>3 DEF StreamStep

-----------------------------------------------------------------------------
\* The content of calls.

KeyState == [state : {"minting", "signed", "failed"}, expired : BOOLEAN]
ReadStage ==
  {"none", "reading", "building", "sharing", "minting", "decrypting", "done", "error"}
Reads(n) ==
  [stage : ReadStage, content : SUBSET Content, attempt : 0..ReadRetries, key : 0..n]
Bad(k) == keys[k].expired \/ keys[k].state = "failed"

\* What a read has been through, and why a second key was minted.
ReaderOK(r) ==
  /\ readers[r].content \subseteq Content
  /\ \A c \in readers[r].content :
       /\ uploads[c].stage = "done"
       /\ readers[r].stage \notin {"reading", "error"} => c \in walrus.served
  /\ readers[r].stage \in {"none", "reading", "building"} => readers[r].key = 0
  /\ readers[r].stage \in {"sharing", "minting", "decrypting"} => readers[r].key # 0
  /\ readers[r].stage = "error" /\ readers[r].key # 0 => cached # readers[r].key

SomeReadFailed == \E r \in Reader : readers[r].stage = "error"

ContentInv ==
  /\ uploads \in [Content -> [stage : {"none", "writing", "done", "error"},
                              attempt : 0..WriteRetries]]
  /\ walrus \in [stored : SUBSET Content, served : SUBSET Content]
  /\ walrus.served \subseteq walrus.stored
  /\ keys \in Seq(KeyState)
  /\ cached \in 0..Len(keys)
  /\ readers \in [Reader -> Reads(Len(keys))]
  /\ \A c \in Content : uploads[c].stage = "done" => c \in walrus.stored
  /\ \A r \in Reader : ReaderOK(r)
  /\ cached = 0 /\ Len(keys) > 0 => SomeReadFailed
  /\ Len(keys) > 1 => SomeReadFailed \/ \E k \in DOMAIN keys : Bad(k)

LEMMA ReadTypes ==
  ASSUME NEW n \in Nat, NEW read \in Reads(n)
  PROVE  /\ read.stage \in ReadStage
         /\ read.content \subseteq Content
         /\ read.key \in 0..n
BY DEF Reads

LEMMA ReadEnds ==
  ASSUME NEW n \in Nat, NEW read \in Reads(n), NEW stage \in ReadStage
  PROVE  [read EXCEPT !.stage = stage] \in Reads(n)
BY DEF Reads

LEMMA ReadGoesOn ==
  ASSUME NEW n \in Nat, NEW m \in Nat, NEW read \in Reads(n), NEW stage \in ReadStage,
         NEW key \in 0..m
  PROVE  [read EXCEPT !.stage = stage, !.key = key] \in Reads(m)
BY DEF Reads

\* The stages a read may be in.
LEMMA Stages ==
  {"building", "sharing", "minting", "decrypting", "done", "error"} \subseteq ReadStage
BY DEF ReadStage

LEMMA ContentStart == ContentInit => ContentInv
BY RetriesArePositive DEF ContentInit, ContentInv, ReaderOK, SomeReadFailed, KeyState, ReadStage, Reads

LEMMA ContentInvSays ==
  ContentInv => ContentTypeOK /\ ContentIsKept /\ OneSignatureServesAll /\ FailedKeyIsDropped
<1> SUFFICES ASSUME ContentInv
             PROVE  ContentTypeOK /\ ContentIsKept /\ OneSignatureServesAll /\ FailedKeyIsDropped
  OBVIOUS
<1>1. ContentTypeOK
  BY DEF ContentInv, ContentTypeOK, KeyState, ReadStage, Reads
<1>2. ContentIsKept
  BY DEF ContentInv, ContentIsKept, ReaderOK
<1>3. OneSignatureServesAll
  BY DEF ContentInv, OneSignatureServesAll, SomeReadFailed, Bad
<1>4. FailedKeyIsDropped
  BY DEF ContentInv, FailedKeyIsDropped, ReaderOK
<1>5. QED  BY <1>1, <1>2, <1>3, <1>4

-----------------------------------------------------------------------------
\* An upload, as long as what is done stays done and stored.
LEMMA UploadKeeps ==
  ASSUME ContentInv, NEW c \in Content, uploads[c].stage # "done",
         UNCHANGED <<readers, keys, cached>>,
         walrus' = walrus \/ walrus' = [walrus EXCEPT !.stored = @ \cup {c}],
         NEW u \in [stage : {"none", "writing", "done", "error"}, attempt : 0..WriteRetries],
         uploads' = [uploads EXCEPT ![c] = u],
         u.stage = "done" => c \in walrus'.stored
  PROVE  ContentInv'
<1>1. /\ uploads' \in [Content -> [stage : {"none", "writing", "done", "error"},
                                  attempt : 0..WriteRetries]]
      /\ walrus' \in [stored : SUBSET Content, served : SUBSET Content]
      /\ walrus'.served \subseteq walrus'.stored
      /\ walrus'.served = walrus.served
      /\ walrus.stored \subseteq walrus'.stored
  BY DEF ContentInv
<1>2. \A d \in Content : /\ uploads[d].stage = "done" => uploads'[d].stage = "done"
                         /\ uploads'[d].stage = "done" => d \in walrus'.stored
  BY <1>1 DEF ContentInv
<1>3. \A r \in Reader : ReaderOK(r)'
  BY <1>1, <1>2 DEF ContentInv, ReaderOK
<1>4. QED  BY <1>1, <1>2, <1>3 DEF ContentInv, SomeReadFailed, Bad

LEMMA ResolvePayloadKeeps ==
  ASSUME ContentInv, NEW c \in Content, ResolvePayload(c)
  PROVE  ContentInv'
<1>1. PICK stage \in {"writing", "error"} :
         uploads' = [uploads EXCEPT ![c] = [stage |-> stage, attempt |-> 1]]
  BY DEF ResolvePayload
<1>2. /\ UNCHANGED <<walrus, readers, keys, cached>>
      /\ uploads[c].stage = "none"
  BY DEF ResolvePayload
<1> DEFINE u == [stage |-> stage, attempt |-> 1]
<1>3. u \in [stage : {"none", "writing", "done", "error"}, attempt : 0..WriteRetries]
  BY RetriesArePositive
<1>4. u.stage # "done" /\ uploads' = [uploads EXCEPT ![c] = u]
  BY <1>1
<1> HIDE DEF u
<1>5. QED  BY <1>2, <1>3, <1>4, UploadKeeps

LEMMA WriteBlobKeeps ==
  ASSUME ContentInv, NEW c \in Content, WriteBlob(c)
  PROVE  ContentInv'
<1> DEFINE u == [uploads[c] EXCEPT !.stage = "done"]
<1>1. /\ UNCHANGED <<readers, keys, cached>>
      /\ uploads[c].stage # "done"
      /\ walrus' = [walrus EXCEPT !.stored = @ \cup {c}]
  BY DEF WriteBlob, Stores
<1>2. u \in [stage : {"none", "writing", "done", "error"}, attempt : 0..WriteRetries]
  BY DEF ContentInv
<1>3. uploads' = [uploads EXCEPT ![c] = u]
  BY DEF WriteBlob, ContentInv
<1>4. c \in walrus'.stored
  BY <1>1 DEF ContentInv
<1> HIDE DEF u
<1>5. QED  BY <1>1, <1>2, <1>3, <1>4, UploadKeeps

LEMMA WriteFailsKeeps ==
  ASSUME ContentInv, NEW c \in Content, NEW retryable \in BOOLEAN, WriteFails(c, retryable)
  PROVE  ContentInv'
<1> DEFINE u == IF retryable /\ uploads[c].attempt < WriteRetries
                THEN [uploads[c] EXCEPT !.attempt = @ + 1]
                ELSE [uploads[c] EXCEPT !.stage = "error"]
<1>1. /\ UNCHANGED <<readers, keys, cached>>
      /\ uploads[c].stage = "writing"
      /\ walrus' = walrus \/ walrus' = [walrus EXCEPT !.stored = @ \cup {c}]
  BY DEF WriteFails, Stores
<1>2. uploads[c] \in [stage : {"none", "writing", "done", "error"}, attempt : 0..WriteRetries]
  BY DEF ContentInv
<1>3. /\ u \in [stage : {"none", "writing", "done", "error"}, attempt : 0..WriteRetries]
      /\ u.stage # "done"
  BY <1>1, <1>2, RetriesArePositive
<1>4. uploads' = [uploads EXCEPT ![c] = u]
  BY DEF WriteFails, ContentInv
<1> HIDE DEF u
<1>5. QED  BY <1>1, <1>3, <1>4, UploadKeeps

LEMMA PropagateKeeps ==
  ASSUME ContentInv, NEW c \in Content, Propagate(c)
  PROVE  ContentInv'
<1>1. /\ walrus' \in [stored : SUBSET Content, served : SUBSET Content]
      /\ walrus'.served \subseteq walrus'.stored
      /\ walrus'.stored = walrus.stored
      /\ walrus.served \subseteq walrus'.served
      /\ UNCHANGED <<uploads, readers, keys, cached>>
  BY DEF ContentInv, Propagate
<1>2. \A r \in Reader : ReaderOK(r)'
  BY <1>1 DEF ContentInv, ReaderOK
<1>3. QED  BY <1>1, <1>2 DEF ContentInv, SomeReadFailed, Bad

-----------------------------------------------------------------------------
\* One read goes on; the keys may grow by one, which is then cached.
LEMMA ReaderKeeps ==
  ASSUME ContentInv, NEW r \in Reader, UNCHANGED <<uploads, walrus>>,
         readers' \in [Reader -> Reads(Len(keys'))],
         \A q \in Reader \ {r} : readers'[q] = readers[q],
         readers[r].stage # "error",
         ReaderOK(r)',
         keys' = keys \/ keys' = Append(keys, [state |-> "minting", expired |-> FALSE]),
         keys' # keys => /\ cached' = Len(keys) + 1
                         /\ Len(keys) > 0 => SomeReadFailed \/ \E k \in DOMAIN keys : Bad(k),
         keys' = keys => cached' = cached \/ (cached' = 0 /\ readers'[r].stage = "error")
  PROVE  ContentInv'
<1>1. /\ keys \in Seq(KeyState)
      /\ Len(keys) \in Nat
      /\ cached \in 0..Len(keys)
      /\ readers \in [Reader -> Reads(Len(keys))]
  BY DEF ContentInv
<1>2. SomeReadFailed => SomeReadFailed'
  BY DEF SomeReadFailed
<1>3. CASE keys' = keys
  <2>1. cached' \in 0..Len(keys')
    BY <1>1, <1>3
  <2>2. \A q \in Reader : ReaderOK(q)'
    <3>1. \A q \in Reader \ {r} : ReaderOK(q)'
      <4>1. TAKE q \in Reader \ {r}
      <4>2. readers[q].stage = "error" /\ readers[q].key # 0 => cached' # readers[q].key
        BY <1>3 DEF ContentInv, ReaderOK
      <4>3. ReaderOK(q)
        BY DEF ContentInv
      <4>4. QED  BY <4>2, <4>3 DEF ReaderOK
    <3>2. QED  BY <3>1
  <2>3. cached' = 0 /\ Len(keys') > 0 => SomeReadFailed'
    BY <1>2, <1>3 DEF ContentInv, SomeReadFailed
  <2>4. Len(keys') > 1 => SomeReadFailed' \/ \E k \in DOMAIN keys' : Bad(k)'
    BY <1>2, <1>3 DEF ContentInv, Bad
  <2>5. QED  BY <1>1, <1>3, <2>1, <2>2, <2>3, <2>4 DEF ContentInv
<1>4. CASE keys' # keys
  <2>1. /\ keys' = Append(keys, [state |-> "minting", expired |-> FALSE])
        /\ cached' = Len(keys) + 1
    BY <1>4
  <2>2. [state |-> "minting", expired |-> FALSE] \in KeyState
    BY DEF KeyState
  <2>3. /\ keys' \in Seq(KeyState)
        /\ Len(keys') = Len(keys) + 1
        /\ \A k \in DOMAIN keys : k \in DOMAIN keys' /\ keys'[k] = keys[k]
    BY <1>1, <2>1, <2>2
  <2>4. \A q \in Reader : ReaderOK(q)'
    <3>1. \A q \in Reader \ {r} : ReaderOK(q)'
      <4>1. TAKE q \in Reader \ {r}
      <4>2. readers[q].key \in 0..Len(keys)
        <5>1. readers[q] \in Reads(Len(keys))
          BY <1>1
        <5>2. QED  BY <1>1, <5>1, ReadTypes
      <4>3. cached' # readers[q].key
        BY <1>1, <2>1, <4>2
      <4>4. ReaderOK(q)
        BY DEF ContentInv
      <4>5. QED  BY <4>3, <4>4 DEF ReaderOK
    <3>2. QED  BY <3>1
  <2>5. cached' # 0 /\ cached' \in 0..Len(keys')
    BY <1>1, <2>1, <2>3
  <2>6. Len(keys') > 1 => SomeReadFailed' \/ \E k \in DOMAIN keys' : Bad(k)'
    BY <1>1, <1>2, <1>4, <2>3 DEF Bad
  <2>7. QED  BY <2>3, <2>4, <2>5, <2>6 DEF ContentInv
<1>5. QED  BY <1>3, <1>4

LEMMA ReaderTypes ==
  ASSUME ContentInv, NEW r \in Reader
  PROVE  /\ readers[r] \in Reads(Len(keys))
         /\ Len(keys) \in Nat
         /\ cached \in 0..Len(keys)
         /\ ReaderOK(r)
         /\ r \in DOMAIN readers
         /\ readers[r].key \in 0..Len(keys)
         /\ readers[r].content \subseteq Content
<1>1. /\ readers[r] \in Reads(Len(keys))
      /\ Len(keys) \in Nat
      /\ cached \in 0..Len(keys)
      /\ ReaderOK(r)
      /\ r \in DOMAIN readers
  BY DEF ContentInv
<1>2. QED  BY <1>1, ReadTypes

LEMMA ReadMoves ==
  ASSUME ContentInv, NEW r \in Reader, NEW stage \in ReadStage, NEW m \in Nat, NEW key \in 0..m
  PROVE  [readers[r] EXCEPT !.stage = stage, !.key = key] \in Reads(m)
<1>1. readers[r] \in Reads(Len(keys)) /\ Len(keys) \in Nat
  BY ReaderTypes
<1>2. QED  BY <1>1, ReadGoesOn

\* A step of one read that mints no key.
LEMMA ReadStep ==
  ASSUME ContentInv, NEW r \in Reader, UNCHANGED <<uploads, walrus, keys>>,
         NEW next \in Reads(Len(keys)),
         readers' = [readers EXCEPT ![r] = next],
         readers[r].stage # "error",
         ReaderOK(r)',
         cached' = cached \/ (cached' = 0 /\ next.stage = "error")
  PROVE  ContentInv'
<1>1. readers' \in [Reader -> Reads(Len(keys'))]
  BY DEF ContentInv
<1>2. /\ \A q \in Reader \ {r} : readers'[q] = readers[q]
      /\ readers'[r] = next
  BY DEF ContentInv
<1>3. QED  BY <1>1, <1>2, ReaderKeeps

LEMMA ReadContentKeeps ==
  ASSUME ContentInv, NEW r \in Reader, NEW c \in Content, ReadContent(r, c)
  PROVE  ContentInv'
<1> DEFINE next == [stage |-> "reading", content |-> {c}, attempt |-> 1, key |-> 0]
<1>1. /\ readers[r].stage = "none" /\ uploads[c].stage = "done"
      /\ readers' = [readers EXCEPT ![r] = next]
      /\ UNCHANGED <<uploads, walrus, keys, cached>>
  BY DEF ReadContent
<1>2. next \in Reads(Len(keys))
  BY ReaderTypes, RetriesArePositive DEF ReadStage, Reads
<1>3. readers'[r] = next
  BY <1>1, ReaderTypes
<1>4. ReaderOK(r)'
  BY <1>1, <1>3 DEF ReaderOK
<1> HIDE DEF next
<1>5. QED  BY <1>1, <1>2, <1>4, ReadStep

LEMMA ReadBlobKeeps ==
  ASSUME ContentInv, NEW r \in Reader, ReadBlob(r)
  PROVE  ContentInv'
<1> DEFINE next == [readers[r] EXCEPT !.stage = "building", !.key = 0]
<1>1. /\ readers[r].stage = "reading" /\ readers[r].content \subseteq walrus.served
      /\ readers' = [readers EXCEPT ![r] = next]
      /\ UNCHANGED <<uploads, walrus, keys, cached>>
  BY DEF ReadBlob, Goes, ContentInv
<1>2. next \in Reads(Len(keys))
  <2>1. "building" \in ReadStage /\ Len(keys) \in Nat /\ 0 \in 0..Len(keys)
    BY ReaderTypes, Stages
  <2>2. QED  BY <2>1, ReadMoves
<1>3. readers'[r] = next
  BY <1>1, ReaderTypes
<1>4. ReaderOK(r)'
  BY <1>1, <1>3, ReaderTypes DEF ReaderOK
<1> HIDE DEF next
<1>5. QED  BY <1>1, <1>2, <1>4, ReadStep

\* A read that ends in an error, whatever becomes of the cached key, as long as it is not
\* the key the read was given.
LEMMA ErrorKeeps ==
  ASSUME ContentInv, NEW r \in Reader, Fails(r), readers[r].stage \notin {"error", "none"},
         UNCHANGED keys, cached' = 0 \/ (cached' = cached /\ readers[r].key = 0)
  PROVE  ContentInv'
<1> DEFINE next == [readers[r] EXCEPT !.stage = "error"]
<1>1. /\ readers' = [readers EXCEPT ![r] = next]
      /\ UNCHANGED <<uploads, walrus>>
  BY DEF Fails, ContentInv
<1>2. next \in Reads(Len(keys))
  BY ReaderTypes, Stages, ReadEnds
<1>3. readers'[r] = next /\ next.stage = "error" /\ next.key = readers[r].key
  BY <1>1, ReaderTypes
<1>4. ReaderOK(r)'
  BY <1>1, <1>3, ReaderTypes DEF ReaderOK
<1> HIDE DEF next
<1>5. QED  BY <1>1, <1>2, <1>3, <1>4, ReadStep

LEMMA ReadFailsKeeps ==
  ASSUME ContentInv, NEW r \in Reader, NEW retryable \in BOOLEAN, ReadFails(r, retryable)
  PROVE  ContentInv'
<1>1. readers[r].stage = "reading" /\ UNCHANGED <<keys, cached>>
  BY DEF ReadFails
<1>2. CASE retryable /\ readers[r].attempt < ReadRetries
  <2> DEFINE next == [readers[r] EXCEPT !.attempt = @ + 1]
  <2>1. /\ readers' = [readers EXCEPT ![r] = next]
        /\ UNCHANGED <<uploads, walrus>>
    BY <1>2 DEF ReadFails, ContentInv
  <2>2. next \in Reads(Len(keys))
    BY <1>2, ReaderTypes, RetriesArePositive DEF ReadStage, Reads
  <2>3. readers'[r] = next
    BY <2>1, ReaderTypes
  <2>4. ReaderOK(r)'
    BY <1>1, <2>1, <2>3, ReaderTypes DEF ReaderOK
  <2> HIDE DEF next
  <2>5. QED  BY <1>1, <2>1, <2>2, <2>4, ReadStep
<1>3. CASE ~(retryable /\ readers[r].attempt < ReadRetries)
  <2>1. Fails(r)
    BY <1>3 DEF ReadFails
  <2>2. QED
    BY <1>1, <2>1, ErrorKeeps, ReaderTypes DEF ReaderOK
<1>4. QED  BY <1>2, <1>3

LEMMA BuildFailsKeeps ==
  ASSUME ContentInv, NEW r \in Reader, BuildFails(r)
  PROVE  ContentInv'
BY ErrorKeeps DEF BuildFails, DecryptFails

LEMMA SealFailsKeeps ==
  ASSUME ContentInv, NEW r \in Reader, SealFails(r)
  PROVE  ContentInv'
BY ErrorKeeps DEF SealFails, DecryptFails

\* A read that has its blob goes on with a key.
LEMMA GoesKeeps ==
  ASSUME ContentInv, NEW r \in Reader,
         readers[r].stage \in {"building", "sharing", "minting", "decrypting"},
         NEW stage \in {"sharing", "minting", "decrypting", "done"},
         NEW key \in 1..Len(keys), Goes(r, stage, key), UNCHANGED <<keys, cached>>
  PROVE  ContentInv'
<1> DEFINE next == [readers[r] EXCEPT !.stage = stage, !.key = key]
<1>1. /\ readers' = [readers EXCEPT ![r] = next]
      /\ UNCHANGED <<uploads, walrus>>
  BY DEF Goes, ContentInv
<1>2. next \in Reads(Len(keys))
  <2>1. stage \in ReadStage /\ Len(keys) \in Nat /\ key \in 0..Len(keys)
    BY ReaderTypes, Stages
  <2>2. QED  BY <2>1, ReadMoves
<1>3. readers'[r] = next
  BY <1>1, ReaderTypes
<1>4. ReaderOK(r)'
  BY <1>1, <1>3, ReaderTypes DEF ReaderOK
<1> HIDE DEF next
<1>5. QED  BY <1>1, <1>2, <1>4, ReadStep

\* A key is minted for a read when none is cached, or when the shared one is spent.
LEMMA MintKeeps ==
  ASSUME ContentInv, NEW r \in Reader, Mint(r), readers[r].stage \in {"building", "sharing"},
         cached = 0 \/ \E k \in DOMAIN keys : Bad(k)
  PROVE  ContentInv'
<1> DEFINE next == [readers[r] EXCEPT !.stage = "minting", !.key = Len(keys) + 1]
           new == [state |-> "minting", expired |-> FALSE]
<1>1. /\ readers' = [readers EXCEPT ![r] = next]
      /\ UNCHANGED <<uploads, walrus>>
      /\ keys' = Append(keys, new)
      /\ cached' = Len(keys) + 1
  BY DEF Mint, Goes, ContentInv
<1>2. new \in KeyState /\ keys \in Seq(KeyState)
  BY DEF KeyState, ContentInv
<1> HIDE DEF new
<1>3. Len(keys') = Len(keys) + 1 /\ Len(keys) \in Nat /\ keys' # keys
  BY <1>1, <1>2
<1>4. next \in Reads(Len(keys'))
  <2>1. "minting" \in ReadStage /\ Len(keys') \in Nat /\ Len(keys) + 1 \in 0..Len(keys')
    BY <1>3, Stages
  <2>2. QED  BY <2>1, ReadMoves
<1>5. readers'[r] = next
  BY <1>1, ReaderTypes
<1>6. ReaderOK(r)'
  BY <1>1, <1>3, <1>5, ReaderTypes DEF ReaderOK
<1> HIDE DEF next
<1>7. readers' \in [Reader -> Reads(Len(keys'))]
  <2>1. readers \in [Reader -> Reads(Len(keys'))]
    <3>1. readers \in [Reader -> Reads(Len(keys))]
      BY DEF ContentInv
    <3>2. \A read \in Reads(Len(keys)) : read \in Reads(Len(keys'))
      BY <1>3 DEF Reads
    <3>3. QED  BY <3>1, <3>2
  <2>2. QED  BY <1>1, <1>4, <2>1
<1>8. \A q \in Reader \ {r} : readers'[q] = readers[q]
  BY <1>1 DEF ContentInv
<1>9. Len(keys) > 0 => SomeReadFailed \/ \E k \in DOMAIN keys : Bad(k)
  BY DEF ContentInv
<1>10. QED  BY <1>1, <1>3, <1>6, <1>7, <1>8, <1>9, ReaderKeeps DEF new

LEMMA GetSessionKeyKeeps ==
  ASSUME ContentInv, NEW r \in Reader, GetSessionKey(r)
  PROVE  ContentInv'
<1>1. CASE cached = 0
  BY <1>1, MintKeeps DEF GetSessionKey
<1>2. CASE cached # 0
  <2>1. Goes(r, "sharing", cached) /\ UNCHANGED <<keys, cached>> /\ readers[r].stage = "building"
    BY <1>2 DEF GetSessionKey
  <2>2. cached \in 1..Len(keys)
    BY <1>2, ReaderTypes
  <2>3. QED  BY <2>1, <2>2, GoesKeeps
<1>3. QED  BY <1>1, <1>2

LEMMA KeyOfRead ==
  ASSUME ContentInv, NEW r \in Reader,
         readers[r].stage \in {"sharing", "minting", "decrypting"}
  PROVE  /\ readers[r].key \in 1..Len(keys)
         /\ readers[r].key \in DOMAIN keys
         /\ keys[readers[r].key] \in KeyState
<1>1. readers[r].key \in 0..Len(keys) /\ readers[r].key # 0
  BY ReaderTypes DEF ReaderOK
<1>2. keys \in Seq(KeyState) /\ Len(keys) \in Nat
  BY DEF ContentInv
<1>3. QED  BY <1>1, <1>2

LEMMA SharedKeeps ==
  ASSUME ContentInv, NEW r \in Reader, Shared(r)
  PROVE  ContentInv'
<1>1. readers[r].stage = "sharing" /\ Key(r).state # "minting"
  BY DEF Shared
<1>2. /\ readers[r].key \in 1..Len(keys)
      /\ readers[r].key \in DOMAIN keys
      /\ keys[readers[r].key] \in KeyState
  BY <1>1, KeyOfRead
<1>3. CASE Key(r).state = "signed" /\ ~Key(r).expired
  <2>1. Goes(r, "decrypting", readers[r].key) /\ UNCHANGED <<keys, cached>>
    BY <1>3 DEF Shared
  <2>2. QED  BY <1>1, <1>2, <2>1, GoesKeeps
<1>4. CASE ~(Key(r).state = "signed" /\ ~Key(r).expired)
  <2>1. Mint(r)
    BY <1>4 DEF Shared
  <2>2. Bad(readers[r].key)
    BY <1>1, <1>2, <1>4 DEF Bad, Key, KeyState
  <2>3. QED  BY <1>1, <1>2, <2>1, <2>2, MintKeeps
<1>5. QED  BY <1>3, <1>4

LEMMA MintedKeeps ==
  ASSUME ContentInv, NEW r \in Reader, Minted(r)
  PROVE  ContentInv'
<1>1. readers[r].stage = "minting" /\ UNCHANGED keys
  BY DEF Minted
<1>2. CASE Goes(r, "decrypting", readers[r].key) /\ cached' = cached
  BY <1>1, <1>2, KeyOfRead, GoesKeeps
<1>3. CASE DecryptFails(r)
  BY <1>1, <1>3, ErrorKeeps DEF DecryptFails
<1>4. QED  BY <1>2, <1>3 DEF Minted

LEMMA SealDecryptsKeeps ==
  ASSUME ContentInv, NEW r \in Reader, SealDecrypts(r)
  PROVE  ContentInv'
BY KeyOfRead, GoesKeeps DEF SealDecrypts

\* A key changes, and is not better than it was.
LEMMA KeyKeeps ==
  ASSUME ContentInv, NEW k \in DOMAIN keys, NEW key \in KeyState,
         keys' = [keys EXCEPT ![k] = key],
         UNCHANGED <<uploads, walrus, readers, cached>>,
         Bad(k) => key.expired \/ key.state = "failed"
  PROVE  ContentInv'
<1>1. /\ keys' \in Seq(KeyState)
      /\ Len(keys') = Len(keys)
      /\ DOMAIN keys' = DOMAIN keys
      /\ \A j \in DOMAIN keys : keys'[j] = IF j = k THEN key ELSE keys[j]
  BY DEF ContentInv
<1>2. \A j \in DOMAIN keys : Bad(j) => Bad(j)'
  BY <1>1 DEF Bad
<1>3. \A r \in Reader : ReaderOK(r)'
  BY DEF ContentInv, ReaderOK
<1>4. QED  BY <1>1, <1>2, <1>3 DEF ContentInv, SomeReadFailed

LEMMA KeySettlesKeeps ==
  ASSUME ContentInv, NEW k \in DOMAIN keys, NEW state \in {"signed", "failed"},
         KeySettles(k, state)
  PROVE  ContentInv'
<1> DEFINE key == [keys[k] EXCEPT !.state = state]
<1>1. keys[k] \in KeyState
  BY DEF ContentInv
<1>2. /\ keys' = [keys EXCEPT ![k] = key]
      /\ keys[k].state = "minting"
      /\ UNCHANGED <<uploads, walrus, readers, cached>>
  BY DEF KeySettles
<1>3. key \in KeyState /\ key.expired = keys[k].expired
  BY <1>1 DEF KeyState
<1>4. Bad(k) => key.expired
  BY <1>2, <1>3 DEF Bad
<1> HIDE DEF key
<1>5. QED  BY <1>2, <1>3, <1>4, KeyKeeps

LEMMA KeyExpiresKeeps ==
  ASSUME ContentInv, NEW k \in DOMAIN keys, KeyExpires(k)
  PROVE  ContentInv'
<1> DEFINE key == [keys[k] EXCEPT !.expired = TRUE]
<1>1. keys[k] \in KeyState
  BY DEF ContentInv
<1>2. /\ keys' = [keys EXCEPT ![k] = key]
      /\ UNCHANGED <<uploads, walrus, readers, cached>>
  BY DEF KeyExpires
<1>3. key \in KeyState /\ key.expired
  BY <1>1 DEF KeyState
<1> HIDE DEF key
<1>4. QED  BY <1>2, <1>3, KeyKeeps

LEMMA ContentStepKeeps == ContentInv /\ ContentStep => ContentInv'
<1> SUFFICES ASSUME ContentInv, ContentStep PROVE ContentInv'
  OBVIOUS
<1>1. ASSUME NEW c \in Content, ResolvePayload(c) \/ WriteBlob(c) \/ Propagate(c)
      PROVE  ContentInv'
  BY <1>1, ResolvePayloadKeeps, WriteBlobKeeps, PropagateKeeps
<1>2. ASSUME NEW c \in Content, NEW retryable \in BOOLEAN, WriteFails(c, retryable)
      PROVE  ContentInv'
  BY <1>2, WriteFailsKeeps
<1>3. ASSUME NEW r \in Reader, NEW c \in Content, ReadContent(r, c)
      PROVE  ContentInv'
  BY <1>3, ReadContentKeeps
<1>4. ASSUME NEW r \in Reader, NEW retryable \in BOOLEAN, ReadFails(r, retryable)
      PROVE  ContentInv'
  BY <1>4, ReadFailsKeeps
<1>5. ASSUME NEW r \in Reader,
             ReadBlob(r) \/ BuildFails(r) \/ GetSessionKey(r) \/ Shared(r) \/ Minted(r)
      PROVE  ContentInv'
  BY <1>5, ReadBlobKeeps, BuildFailsKeeps, GetSessionKeyKeeps, SharedKeeps, MintedKeeps
<1>6. ASSUME NEW r \in Reader, SealDecrypts(r) \/ SealFails(r)
      PROVE  ContentInv'
  BY <1>6, SealDecryptsKeeps, SealFailsKeeps
<1>7. ASSUME NEW k \in DOMAIN keys, NEW state \in {"signed", "failed"}, KeySettles(k, state)
      PROVE  ContentInv'
  BY <1>7, KeySettlesKeeps
<1>8. ASSUME NEW k \in DOMAIN keys, KeyExpires(k)
      PROVE  ContentInv'
  BY <1>8, KeyExpiresKeeps
<1>9. QED  BY <1>1, <1>2, <1>3, <1>4, <1>5, <1>6, <1>7, <1>8 DEF ContentStep

-----------------------------------------------------------------------------
\* The dashboard.
PageOK ==
  \/ page = NoPage
  \/ page \in AppsPage /\ AppsShown
  \/ page \in MemoriesPage /\ MemoriesShown
  \/ page \in SessionsPage /\ SessionsShown
  \/ page \in TracePage /\ TraceShown
  \/ page \in StreamPage /\ StreamShown

DashInv ==
  /\ ControlsInv
  /\ PatchesInv
  /\ MemoryInv
  /\ RequestsInv
  /\ ContentInv
  /\ visits \in 0..MaxVisits
  /\ focus \in Focus
  /\ PageOK

LEMMA PageKinds ==
  ASSUME PageOK
  PROVE  /\ page.name = "apps" => page \in AppsPage /\ AppsShown
         /\ page.name = "memories" => page \in MemoriesPage /\ MemoriesShown
         /\ page.name = "sessions" => page \in SessionsPage /\ SessionsShown
         /\ page.name = "trace" => page \in TracePage /\ TraceShown
         /\ page.name = "stream" => page \in StreamPage /\ StreamShown
         /\ page.name \in {"none", "apps", "memories", "sessions", "trace", "stream"}
         /\ page.name = "none" => page = NoPage
<1>1. NoPage.name = "none"
  BY DEF NoPage
<1>2. /\ \A p \in AppsPage : p.name = "apps"
      /\ \A p \in MemoriesPage : p.name = "memories"
      /\ \A p \in SessionsPage : p.name = "sessions"
      /\ \A p \in TracePage : p.name = "trace"
      /\ \A p \in StreamPage : p.name = "stream"
  BY DEF AppsPage, MemoriesPage, SessionsPage, TracePage, StreamPage
<1>3. QED  BY <1>1, <1>2 DEF PageOK

\* The parts that a step does not touch.
LEMMA ControlsStay ==
  ASSUME ControlsInv, PatchesInv, UNCHANGED <<controlVars, patches>>
  PROVE  ControlsInv' /\ PatchesInv'
BY DEF controlVars, ControlsInv, ControlsTypeOK, EditsSurvive, PatchesInv

LEMMA RequestsStay ==
  ASSUME RequestsInv, UNCHANGED <<recallVars, focus>>, focus # "recorders" \/ UNCHANGED memoryVars
  PROVE  RequestsInv'
<1>1. asked' = asked /\ clientPromise' = clientPromise /\ focus' = focus
  BY DEF recallVars
<1>2. CASE focus # "recorders"
  BY <1>1, <1>2 DEF RequestsInv, OneWay, AskedOK, MemoryRecorderTypeOK, NotAsked
<1>3. CASE UNCHANGED memoryVars
  <2>1. adds' = adds /\ blobs' = blobs /\ events' = events
    BY <1>3 DEF memoryVars
  <2>2. QED
    BY <1>1, <2>1 DEF RequestsInv, OneWay, AskedOK, MemoryRecorderTypeOK
<1>4. QED  BY <1>2, <1>3

LEMMA ContentStays == ContentInv /\ UNCHANGED contentVars => ContentInv'
BY DEF contentVars, ContentInv, ReaderOK, SomeReadFailed, Bad

\* A page stays as it was while what it depends on does.
LEMMA OtherPagesStay ==
  ASSUME PageOK, page.name # "apps", UNCHANGED <<page, events>>
  PROVE  PageOK'
<1>1. page' = page /\ events' = events
  OBVIOUS
<1>2. CASE page \in MemoriesPage /\ MemoriesShown
  <2>1. page' \in MemoriesPage'
    BY <1>1, <1>2 DEF MemoriesPage
  <2>2. MemoriesShown'
    BY <1>1, <1>2, <2>1, ListStays DEF MemoriesShown
  <2>3. QED  BY <2>1, <2>2 DEF PageOK
<1>3. CASE page \in SessionsPage /\ SessionsShown
  BY <1>1, <1>3 DEF PageOK, SessionsShown
<1>4. CASE page \in TracePage /\ TraceShown
  BY <1>1, <1>4 DEF PageOK, TraceShown
<1>5. CASE page \in StreamPage /\ StreamShown
  BY <1>1, <1>5 DEF PageOK, StreamShown
<1>6. CASE page = NoPage
  BY <1>1, <1>6 DEF PageOK
<1>7. CASE page \in AppsPage
  BY <1>7, AppsTypes
<1>8. QED  BY <1>2, <1>3, <1>4, <1>5, <1>6, <1>7 DEF PageOK

LEMMA PageStays ==
  ASSUME PageOK, UNCHANGED <<controlVars, patches, page, events>>
  PROVE  PageOK'
<1>1. CASE page.name = "apps"
  <2>1. page \in AppsPage /\ AppsShown
    BY <1>1, PageKinds
  <2>2. /\ controls' = controls /\ edit' = edit /\ patches' = patches /\ page' = page
        /\ \A u, x : Settled(u, x)' <=> Settled(u, x)
    BY DEF controlVars, Settled
  <2>3. page' \in AppsPage /\ AppsShown'
    BY <2>1, <2>2, AppsStay
  <2>4. QED  BY <2>3 DEF PageOK
<1>2. CASE page.name # "apps"
  BY <1>2, OtherPagesStay
<1>3. QED  BY <1>1, <1>2

\* Pages are counted as they are opened.
LEMMA VisitsAreCounted ==
  ASSUME visits \in 0..MaxVisits,
         AppsStep \/ MemoriesStep \/ SessionsStep \/ TraceStep \/ StreamStep
  PROVE  visits' \in 0..MaxVisits
<1>1. CASE visits' = visits
  BY <1>1
<1>2. CASE visits < MaxVisits /\ visits' = visits + 1
  BY <1>2, SessionPagesConstants
<1>3. visits' = visits \/ (visits < MaxVisits /\ visits' = visits + 1)
  <2>1. CASE AppsStep
    BY <2>1 DEF AppsStep, OpenApps, TogglePause, ToggleTrace, SendPatch, Patches, Writes, EditErrs,
                PatchAnswered, PatchErrored, PatchLost, OtherEdit, pageVars, Opens, On
  <2>2. CASE MemoriesStep
    BY <2>2 DEF MemoriesStep, OpenMemories, FetchPage, FetchFails, SelectMemory, VerifyOrigin,
                OriginAnswered, CloseMemory, Opens, On
  <2>3. CASE SessionsStep
    BY <2>3 DEF SessionsStep, OpenSessions, OpenDrawer, VerifyAnswered, VerifyErrored, ExportAnswered,
                ExportErrored, CloseDrawer, Waiting, Opens, On
  <2>4. CASE TraceStep
    BY <2>4 DEF TraceStep, OpenTrace, OpenVerify, ToggleTamper, StartWalk, WalkStep, CloseVerify,
                SelectCall, Decrypt, DecryptAnswered, Opens, On
  <2>5. CASE StreamStep
    BY <2>5 DEF StreamStep, OpenStream, SessionOpens, StartPoll, PollReads, PollAnswered, PollFails,
                Opens, On
  <2>6. QED  BY <2>1, <2>2, <2>3, <2>4, <2>5
<1>4. QED  BY <1>1, <1>2, <1>3

\* The Apps page and the processes that edit the file.
LEMMA AppsKeep ==
  ASSUME DashInv, focus = "controls", AppsStep, UNCHANGED <<recallVars, contentVars, focus>>
  PROVE  DashInv'
<1>1. ControlsInv /\ PatchesInv /\ MemoryInv /\ RequestsInv /\ ContentInv /\ PageOK
  BY DEF DashInv
<1>2. UNCHANGED memoryVars
  BY DEF AppsStep, OpenApps, TogglePause, ToggleTrace, SendPatch, Patches, Writes, EditErrs,
         PatchAnswered, PatchErrored, PatchLost, OtherEdit
<1>3. /\ ControlsInv' /\ PatchesInv'
      /\ page.name = "apps" \/ page' # page => page' \in AppsPage /\ AppsShown'
  <2>1. page.name = "apps" => page \in AppsPage /\ AppsShown
    BY <1>1, PageKinds
  <2>2. QED  BY <1>1, <2>1, AppsStepKeeps
<1>4. PageOK'
  <2>1. CASE page.name = "apps" \/ page' # page
    BY <1>3, <2>1 DEF PageOK
  <2>2. CASE ~(page.name = "apps" \/ page' # page)
    <3>1. events' = events
      BY <1>2 DEF memoryVars
    <3>2. QED  BY <1>1, <2>2, <3>1, OtherPagesStay
  <2>3. QED  BY <2>1, <2>2
<1>5. MemoryInv' /\ RequestsInv' /\ ContentInv'
  BY <1>1, <1>2, MemoryStays, RequestsStay, ContentStays
<1>6. visits' \in 0..MaxVisits /\ focus' \in Focus
  BY VisitsAreCounted DEF DashInv
<1>7. QED  BY <1>3, <1>4, <1>5, <1>6 DEF DashInv

\* The Memories page and the runs of add.
LEMMA MemoriesKeep ==
  ASSUME DashInv, focus = "memories", MemoriesStep \/ Memory,
         UNCHANGED <<recallVars, contentVars, focus>>
  PROVE  DashInv'
<1>1. ControlsInv /\ PatchesInv /\ MemoryInv /\ RequestsInv /\ ContentInv /\ PageOK
  BY DEF DashInv
<1>2. UNCHANGED <<controlVars, patches>>
  BY DEF MemoriesStep, OpenMemories, FetchPage, FetchFails, SelectMemory, VerifyOrigin, OriginAnswered,
         CloseMemory, Memory
<1>3. MemoryInv' /\ PageOK'
  <2>1. CASE MemoriesStep
    <3>1. page' \in MemoriesPage' /\ MemoriesShown'
      BY <1>1, <2>1, PageKinds, MemoriesStepKeeps
    <3>2. UNCHANGED memoryVars
      BY <2>1 DEF MemoriesStep, OpenMemories, FetchPage, FetchFails, SelectMemory, VerifyOrigin,
                  OriginAnswered, CloseMemory
    <3>3. QED  BY <1>1, <3>1, <3>2, MemoryStays DEF PageOK
  <2>2. CASE Memory
    <3>1. MemoryStep /\ page' = page
      BY <2>2 DEF Memory, pageVars
    <3>2. MemoryInv'
      BY <1>1, <3>1, MemoryStepKeeps
    <3>3. CASE page.name = "memories"
      <4>1. page' \in MemoriesPage' /\ MemoriesShown'
        BY <1>1, <3>1, <3>3, PageKinds, MemoriesPageStays
      <4>2. QED  BY <3>2, <4>1 DEF PageOK
    <3>4. CASE page.name = "apps"
      <4>1. page \in AppsPage /\ AppsShown
        BY <1>1, <3>4, PageKinds
      <4>2. /\ controls' = controls /\ edit' = edit /\ patches' = patches
            /\ \A u, x : Settled(u, x)' <=> Settled(u, x)
        BY <1>2 DEF controlVars, Settled
      <4>3. page' \in AppsPage /\ AppsShown'
        BY <3>1, <4>1, <4>2, AppsStay
      <4>4. QED  BY <3>2, <4>3 DEF PageOK
    <3>5. CASE page.name \notin {"memories", "apps"}
      <4>1. \/ page = NoPage
            \/ page \in SessionsPage /\ SessionsShown
            \/ page \in TracePage /\ TraceShown
            \/ page \in StreamPage /\ StreamShown
        BY <1>1, <3>5, PageKinds
      <4>2. PageOK'
        BY <3>1, <4>1 DEF PageOK, SessionsShown, TraceShown, StreamShown
      <4>3. QED  BY <3>2, <4>2
    <3>6. QED  BY <3>3, <3>4, <3>5
  <2>3. QED  BY <2>1, <2>2
<1>4. ControlsInv' /\ PatchesInv' /\ RequestsInv' /\ ContentInv'
  BY <1>1, <1>2, ControlsStay, RequestsStay, ContentStays
<1>5. visits' \in 0..MaxVisits /\ focus' \in Focus
  <2>1. CASE Memory
    BY <2>1 DEF DashInv, Memory, pageVars
  <2>2. CASE MemoriesStep
    BY <2>2, VisitsAreCounted DEF DashInv
  <2>3. QED  BY <2>1, <2>2
<1>6. QED  BY <1>3, <1>4, <1>5 DEF DashInv

\* The pages about sessions, and the page that is left.
LEMMA SessionsKeep ==
  ASSUME DashInv, Sessions \/ Leave, UNCHANGED <<recallVars, contentVars, focus>>
  PROVE  DashInv'
<1>1. ControlsInv /\ PatchesInv /\ MemoryInv /\ RequestsInv /\ ContentInv /\ PageOK
  BY DEF DashInv
<1>2. UNCHANGED <<controlVars, memoryVars, patches>>
  BY DEF Sessions, Leave
<1>3. PageOK'
  <2>1. CASE SessionsStep
    BY <1>1, <2>1, PageKinds, SessionsStepKeeps DEF PageOK
  <2>2. CASE TraceStep
    BY <1>1, <2>2, PageKinds, TraceStepKeeps DEF PageOK
  <2>3. CASE StreamStep
    BY <1>1, <2>3, PageKinds, StreamStepKeeps DEF PageOK
  <2>4. CASE Leave
    BY <2>4 DEF Leave, LeavePage, PageOK
  <2>5. QED  BY <2>1, <2>2, <2>3, <2>4 DEF Sessions
<1>4. ControlsInv' /\ PatchesInv' /\ MemoryInv' /\ RequestsInv' /\ ContentInv'
  BY <1>1, <1>2, ControlsStay, MemoryStays, RequestsStay, ContentStays
<1>5. visits' \in 0..MaxVisits /\ focus' \in Focus
  <2>1. CASE Leave
    BY <2>1 DEF DashInv, Leave, LeavePage
  <2>2. CASE Sessions
    BY <2>2, VisitsAreCounted DEF DashInv, Sessions
  <2>3. QED  BY <2>1, <2>2
<1>6. QED  BY <1>3, <1>4, <1>5 DEF DashInv

LEMMA ContentKeeps ==
  ASSUME DashInv, ContentOnly, UNCHANGED focus
  PROVE  DashInv'
<1>1. ControlsInv /\ PatchesInv /\ MemoryInv /\ RequestsInv /\ ContentInv /\ PageOK
  BY DEF DashInv
<1>2. UNCHANGED <<controlVars, memoryVars, recallVars, pageVars, patches>> /\ ContentStep
  BY DEF ContentOnly
<1>3. ContentInv'
  BY <1>1, <1>2, ContentStepKeeps
<1>4. ControlsInv' /\ PatchesInv' /\ MemoryInv' /\ RequestsInv'
  BY <1>1, <1>2, ControlsStay, MemoryStays, RequestsStay
<1>5. PageOK' /\ visits' = visits
  BY <1>1, <1>2, PageStays DEF pageVars, memoryVars
<1>6. QED  BY <1>3, <1>4, <1>5 DEF DashInv

LEMMA RecordersKeep ==
  ASSUME DashInv, RecordersOnly, UNCHANGED focus
  PROVE  DashInv'
<1>1. ControlsInv /\ PatchesInv /\ MemoryInv /\ RequestsInv /\ ContentInv /\ PageOK
  BY DEF DashInv
<1>2. /\ focus = "recorders" /\ RecorderStep
      /\ UNCHANGED <<controlVars, pageVars, contentVars, patches>>
  BY DEF RecordersOnly
<1>3. MemoryInv' /\ RequestsInv'
  BY <1>1, <1>2, RecorderStepKeeps
<1>4. events' = events
  BY <1>1, <1>2, <1>3 DEF RequestsInv, OneWay
<1>5. ControlsInv' /\ PatchesInv' /\ ContentInv'
  BY <1>1, <1>2, ControlsStay, ContentStays
<1>6. PageOK' /\ visits' = visits
  BY <1>1, <1>2, <1>4, PageStays DEF pageVars
<1>7. QED  BY <1>3, <1>5, <1>6 DEF DashInv

LEMMA DashStart == Init => DashInv
<1> SUFFICES ASSUME Init PROVE DashInv
  OBVIOUS
<1>1. ControlsInv /\ MemoryInv /\ RequestsInv /\ ContentInv
  BY ControlsStart, MemoryStart, RequestsStart, ContentStart DEF Init
<1>2. PatchesInv
  BY DEF Init, PatchesInv, Maybe
<1>3. visits \in 0..MaxVisits /\ PageOK
  BY SessionPagesConstants DEF Init, PagesInit, PageOK
<1>4. QED  BY <1>1, <1>2, <1>3 DEF Init, DashInv

LEMMA DashStep == DashInv /\ [Next]_vars => DashInv'
<1> SUFFICES ASSUME DashInv, [Next]_vars PROVE DashInv'
  OBVIOUS
<1>1. CASE Step /\ UNCHANGED <<recallVars, contentVars>> /\ UNCHANGED focus
  <2>1. CASE focus = "controls" /\ AppsStep
    BY <1>1, <2>1, AppsKeep
  <2>2. CASE focus = "memories" /\ (MemoriesStep \/ Memory)
    BY <1>1, <2>2, MemoriesKeep
  <2>3. CASE Sessions \/ Leave
    BY <1>1, <2>3, SessionsKeep
  <2>4. QED  BY <1>1, <2>1, <2>2, <2>3 DEF Step
<1>2. CASE ContentOnly /\ UNCHANGED focus
  BY <1>2, ContentKeeps
<1>3. CASE RecordersOnly /\ UNCHANGED focus
  BY <1>3, RecordersKeep
<1>4. CASE UNCHANGED vars
  <2>1. UNCHANGED <<controlVars, memoryVars, recallVars, contentVars, patches, page, visits, focus>>
    BY <1>4 DEF vars, pageVars
  <2>2. ControlsInv /\ PatchesInv /\ MemoryInv /\ RequestsInv /\ ContentInv /\ PageOK
    BY DEF DashInv
  <2>3. ControlsInv' /\ PatchesInv' /\ MemoryInv' /\ RequestsInv' /\ ContentInv'
    BY <2>1, <2>2, ControlsStay, MemoryStays, RequestsStay, ContentStays
  <2>4. PageOK'
    BY <2>1, <2>2, PageStays DEF memoryVars
  <2>5. QED  BY <2>1, <2>3, <2>4 DEF DashInv
<1>5. QED  BY <1>1, <1>2, <1>3, <1>4 DEF Next

\* In every state the file, the requests, the runs of add, the recorders, the content and
\* the open page are what the steps of their parts rely on (packages/dashboard,
\* runtime-controls.ts, memory.ts).
THEOREM DashboardInvariant == Spec => []DashInv
BY DashStart, DashStep, PTL DEF Spec

LEMMA DashInvTypes == DashInv => DashboardTypeOK
<1> SUFFICES ASSUME DashInv PROVE DashboardTypeOK
  OBVIOUS
<1>1. ControlsTypeOK /\ MemoryTypeOK /\ ContentTypeOK /\ MemoryRecorderTypeOK
  BY ContentInvSays DEF DashInv, ControlsInv, MemoryInv, RequestsInv
<1>2. \A t \in Edit : \A p \in patches[t] : p \in [runtime : Runtime, patch : Patch]
  BY DEF DashInv, PatchesInv, Maybe, Request
<1>3. page \in {NoPage} \cup AppsPage \cup MemoriesPage \cup SessionsPage \cup TracePage
               \cup StreamPage
  BY DEF DashInv, PageOK
<1>4. QED  BY <1>1, <1>2, <1>3 DEF DashInv, DashboardTypeOK

\* The file, the memories, the contents, the requests and the open page are of their
\* types in every state (runtime-controls.ts, memory.ts, the pages of packages/dashboard).
THEOREM DashboardTypes == Spec => []DashboardTypeOK
BY DashboardInvariant, DashInvTypes, PTL

LEMMA DashInvPolicy == DashInv => PolicyHolds
<1> SUFFICES ASSUME DashInv PROVE PolicyHolds
  OBVIOUS
<1>1. page.name = "apps" => page \in AppsPage /\ AppsShown
  BY PageKinds DEF DashInv
<1>2. RowsShowTheFile
  BY <1>1, AppsShownSays DEF DashInv
<1>3. QED  BY <1>2 DEF DashInv, ControlsInv, PolicyHolds

\* However many processes edit the controls, in whatever order the answers of the server
\* come and whichever are lost: an edit is undone only by one that raced it, and a row
\* of the Apps page whose requests are answered shows the file, but for the exceptions
\* RowsShowTheFile names (runtime-controls.ts 132-159, AppsView.tsx 37-83).
THEOREM PolicyIsKept == Spec => []PolicyHolds
BY DashboardInvariant, DashInvPolicy, PTL

LEMMA DashInvStorage == DashInv => StorageIsFaithful
<1> SUFFICES ASSUME DashInv PROVE StorageIsFaithful
  OBVIOUS
<1>1. AnswersAreTrue /\ CapturesAreTrue /\ NobodyWaitsForNothing
  BY MemoryInvSays, RequestsInvSays DEF DashInv
<1>2. ContentIsKept /\ OneSignatureServesAll /\ FailedKeyIsDropped
  BY ContentInvSays DEF DashInv
<1>3. page.name = "memories" => page \in MemoriesPage /\ MemoriesShown
  BY PageKinds DEF DashInv
<1>4. ListIsNewest
  BY <1>3, MemoriesShownSays
<1>5. QED  BY <1>1, <1>2, <1>4 DEF StorageIsFaithful

\* For any number of writers, readers and retries: what add, a recorder or an upload
\* answered is so, the list of memories is the newest of those there were, whatever the
\* size of a page of events, and a signature is shared only while it is good (memory.ts
\* 170-215, dashboard memory.ts 55-97, walrus.ts 171-217, seal.ts 146-225).
THEOREM StorageIsKept == Spec => []StorageIsFaithful
BY DashboardInvariant, DashInvStorage, PTL

LEMMA DashInvPages == DashInv => PagesTellTheTruth
<1> SUFFICES ASSUME DashInv PROVE PagesTellTheTruth
  OBVIOUS
<1>1. /\ page.name = "memories" => page \in MemoriesPage /\ MemoriesShown
      /\ page.name = "sessions" => page \in SessionsPage /\ SessionsShown
      /\ page.name = "trace" => page \in TracePage /\ TraceShown
      /\ page.name = "stream" => page \in StreamPage /\ StreamShown
  BY PageKinds DEF DashInv
<1>2. OriginIsVerified
  BY <1>1, MemoriesShownSays
<1>3. DayVerdictIsEarned
  BY <1>1, SessionsShownSays DEF DayVerdictIsEarned
<1>4. TraceVerdictIsEarned /\ PlaintextIsOfItsCall
  BY <1>1, TraceShownSays DEF TraceVerdictIsEarned, PlaintextIsOfItsCall
<1>5. StreamGoesForward
  BY <1>1, StreamShownSays DEF StreamGoesForward
<1>6. QED  BY <1>2, <1>3, <1>4, <1>5 DEF PagesTellTheTruth

\* A page calls a day, a session or the origin of a memory verified only if it verifies,
\* shows a plaintext with the call it is of, and a stream never goes back, whatever is
\* clicked while requests are under way, but for the exceptions those properties name
\* (VerifyAllDrawer.tsx, TraceView.tsx, VerifyDrawer.tsx, MemoryDrawer.tsx 29-36).
THEOREM PagesAreTrue == Spec => []PagesTellTheTruth
BY DashboardInvariant, DashInvPages, PTL
=============================================================================
