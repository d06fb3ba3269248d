------------------------------- MODULE Dashboard ------------------------------
(********************************************************************************)
(* The local dashboard (packages/dashboard) on what it shows and changes: the   *)
(* runtime controls, which other processes edit too, the memories added on the  *)
(* same machine, and trace sessions.  The Apps and Memories pages are here, the *)
(* others in SessionPages; ContentStore is what is behind a call's content, and *)
(* MemoryRecorder who else writes memories.                                     *)
(*                                                                              *)
(* The server of the dashboard is one process and runs setRuntimeControl to     *)
(* its end, but its answers may arrive in any order, or not at all.             *)
(********************************************************************************)
EXTENDS RuntimeControls, SessionPages, ContentStore, MemoryRecorder, Ordering

CONSTANTS
  Server,         \* the process of Process that is the dashboard's server
  EventPage,      \* events on a page of queryEvents
  ListLimit,      \* memories the list asks for
  OtherPatch      \* bound: the edits other processes make

ASSUME DashboardConstants ==
  /\ Server \in Process
  /\ EventPage \in Nat \ {0}
  /\ ListLimit \in Nat \ {0}
  /\ OtherPatch \subseteq Runtime \X Patch

VARIABLES
  patches,        \* the PATCH requests the page has sent
  focus           \* bound: the part that is used, chosen at the start; the parts share
                  \* nothing but the one page that is open

vars == <<controlVars, memoryVars, recallVars, pageVars, contentVars, patches, focus>>

Focus == {"controls", "memories", "recorders", "sessions", "content"}
Unused(t) == edit[t] = NoEdit /\ patches[t] = {}

Init ==
  /\ ControlsInit
  /\ MemoryInit
  /\ PagesInit
  /\ ContentInit
  /\ MemoryRecorderInit
  /\ patches = [t \in Edit |-> {}]
  /\ focus \in Focus

-----------------------------------------------------------------------------
\* The Apps page.  pending are its unanswered requests; crossed tells whether two of
\* different rows were under way at once, unseen the rows of which it cannot know.

\* fetchRuntimeInventory throws when the file cannot be read: a page without rows.
OpenApps ==
  /\ controls.readable
  /\ Opens([name |-> "apps", rows |-> controls.runtimes, saving |-> {}, pending |-> {},
            crossed |-> FALSE, unseen |-> {}])
  /\ UNCHANGED <<controlVars, memoryVars, patches>>

Busy(r) == page.saving = {r}

SendPatch(t, r, patch) ==
  /\ On("apps")
  /\ Unused(t)
  /\ ~Busy(r)
  /\ patches' = [patches EXCEPT ![t] = {[runtime |-> r, patch |-> patch]}]
  /\ page' = [page EXCEPT !.saving = {r}, !.pending = @ \cup {t},
                          !.crossed = @ \/ \E q \in page.pending :
                                             \A p \in patches[q] : p.runtime # r]
  /\ UNCHANGED <<controlVars, memoryVars>>

TogglePause(t, r) ==
  On("apps") /\ SendPatch(t, r, [field |-> "paused", value |-> ~page.rows[r].paused])

ToggleTrace(t, r) ==
  /\ On("apps")
  /\ ~page.rows[r].paused
  /\ SendPatch(t, r, [field |-> "traceCapture", value |-> ~page.rows[r].traceCapture])

\* PATCH /api/runtimes/:id, up to the reading of the file.
Patches(t) ==
  /\ \E p \in patches[t] : BeginEdit(t, Server, p.runtime, p.patch)
  /\ UNCHANGED <<memoryVars, pageVars, patches>>

EditErrs(t) ==
  /\ FailEdit(t)
  /\ UNCHANGED <<memoryVars, pageVars, patches>>

\* The rows a write changes unasked are unseen by the page.
Writes(t) ==
  /\ CommitEdit(t)
  /\ page' = IF page.name = "apps"
             THEN [page EXCEPT !.unseen = @ \cup
                     {r \in Runtime : /\ controls'.runtimes[r] # controls.runtimes[r]
                                      /\ ~(t \in page.pending /\ edit[t].runtime = r)}]
             ELSE page
  /\ UNCHANGED <<memoryVars, visits, patches>>

Back(t) == [page EXCEPT !.saving = {}, !.pending = @ \ {t}]

PatchAnswered(t) ==
  /\ On("apps")
  /\ t \in page.pending
  /\ edit[t].stage = "done"
  /\ page' = [Back(t) EXCEPT !.rows[edit[t].runtime] = edit[t].answer]
  /\ UNCHANGED <<controlVars, memoryVars, patches>>

\* An error answer changes no row; nor does a lost one, whose edit may be made.
PatchErrored(t) ==
  /\ On("apps")
  /\ t \in page.pending
  /\ edit[t].stage = "failed"
  /\ page' = Back(t)
  /\ UNCHANGED <<controlVars, memoryVars, patches>>

PatchLost(t) ==
  /\ On("apps")
  /\ t \in page.pending
  /\ page' = [Back(t) EXCEPT !.unseen = @ \cup {p.runtime : p \in patches[t]}]
  /\ UNCHANGED <<controlVars, memoryVars, patches>>

\* Another process, or the user's editor.
OtherEdit(t, w, r, patch) ==
  /\ w # Server
  /\ Unused(t)
  /\ BeginEdit(t, w, r, patch)
  /\ UNCHANGED <<memoryVars, pageVars, patches>>

AppsStep ==
  \/ OpenApps
  \/ \E t \in Edit, r \in Runtime : TogglePause(t, r) \/ ToggleTrace(t, r)
  \/ \E t \in Edit : Patches(t) \/ Writes(t) \/ EditErrs(t)
  \/ \E t \in Edit : PatchAnswered(t) \/ PatchErrored(t) \/ PatchLost(t)
  \/ \E t \in Edit, w \in Process, o \in OtherPatch : OtherEdit(t, w, o[1], o[2])
  \/ BreakFile /\ UNCHANGED <<memoryVars, pageVars, patches>>

-----------------------------------------------------------------------------
\* The Memories page: the server walks the events from the newest back, a page at a
\* time; next is the newest event not yet read.
OpenMemories ==
  /\ Opens([name |-> "memories", status |-> "loading", start |-> Len(events), next |-> Len(events),
            list |-> <<>>, selected |-> 0, verdict |-> "idle"])
  /\ UNCHANGED <<controlVars, memoryVars, patches>>

Rest(end) == IF end < EventPage THEN 0 ELSE end - EventPage
Memories(after, end) == {i \in (after + 1)..end : events[i].tool = MEMORY_TOOL}
MemoriesBelow(end) == InOrder(Memories(Rest(end), end), >)
Upto(s) == IF Len(s) < ListLimit THEN s ELSE SubSeq(s, 1, ListLimit)

FetchPage ==
  /\ On("memories")
  /\ page.status = "loading"
  /\ LET list == Upto(page.list \o MemoriesBelow(page.next))
         over == Rest(page.next) = 0 \/ Len(list) = ListLimit
     IN page' = [page EXCEPT !.list = list, !.next = Rest(@),
                             !.status = IF over THEN "shown" ELSE @]
  /\ UNCHANGED <<controlVars, memoryVars, patches>>

FetchFails ==
  /\ On("memories")
  /\ page.status = "loading"
  /\ page' = [page EXCEPT !.status = "error", !.list = <<>>]
  /\ UNCHANGED <<controlVars, memoryVars, patches>>

\* A row, or a related memory of the drawer, which is keyed by the call.
SelectMemory(k) ==
  /\ On("memories")
  /\ page.status = "shown"
  /\ k \in DOMAIN page.list
  /\ page.list[k] # page.selected
  /\ page' = [page EXCEPT !.selected = page.list[k], !.verdict = "idle"]
  /\ UNCHANGED <<controlVars, memoryVars, patches>>

VerifyOrigin ==
  /\ On("memories")
  /\ page.selected # 0
  /\ page.verdict # "loading"
  /\ page' = [page EXCEPT !.verdict = "loading"]
  /\ UNCHANGED <<controlVars, memoryVars, patches>>

OriginAnswered ==
  /\ On("memories")
  /\ page.verdict = "loading"
  /\ \E v \in Found(events[page.selected].session) : page' = [page EXCEPT !.verdict = v]
  /\ UNCHANGED <<controlVars, memoryVars, patches>>

CloseMemory ==
  /\ On("memories")
  /\ page.selected # 0
  /\ page' = [page EXCEPT !.selected = 0, !.verdict = "idle"]
  /\ UNCHANGED <<controlVars, memoryVars, patches>>

MemoriesStep ==
  \/ OpenMemories
  \/ FetchPage
  \/ FetchFails
  \/ \E k \in 1..ListLimit : SelectMemory(k)
  \/ VerifyOrigin
  \/ OriginAnswered
  \/ CloseMemory

-----------------------------------------------------------------------------
Memory == MemoryStep /\ UNCHANGED <<controlVars, pageVars, patches>>

Sessions ==
  (SessionsStep \/ TraceStep \/ StreamStep) /\ UNCHANGED <<controlVars, memoryVars, patches>>

Leave == LeavePage /\ UNCHANGED <<controlVars, memoryVars, patches>>

Step ==
  \/ focus = "controls" /\ AppsStep
  \/ focus = "memories" /\ (MemoriesStep \/ Memory)
  \/ focus = "sessions" /\ Sessions
  \/ Leave

ContentOnly ==
  /\ focus = "content"
  /\ ContentStep
  /\ UNCHANGED <<controlVars, memoryVars, recallVars, pageVars, patches>>

RecordersOnly ==
  /\ focus = "recorders"
  /\ RecorderStep
  /\ UNCHANGED <<controlVars, pageVars, contentVars, patches>>

Next == /\ (Step /\ UNCHANGED <<recallVars, contentVars>>) \/ ContentOnly \/ RecordersOnly
        /\ UNCHANGED focus

Spec == Init /\ [][Next]_vars

-----------------------------------------------------------------------------
AppsPage ==
  [name : {"apps"}, rows : [Runtime -> Control], saving : Maybe(Runtime),
   pending : SUBSET Edit, crossed : BOOLEAN, unseen : SUBSET Runtime]

MemoriesPage ==
  LET newest == Len(events) IN
  [name : {"memories"}, status : {"loading", "shown", "error"}, start : 0..newest,
   next : 0..newest, list : Seq(1..newest), selected : 0..newest,
   verdict : {"idle", "loading", "ok", "broken", "error"}]

\* Types of the files, the memories and the open page.
DashboardTypeOK ==
  /\ ControlsTypeOK
  /\ MemoryTypeOK
  /\ ContentTypeOK
  /\ MemoryRecorderTypeOK
  /\ visits \in 0..MaxVisits
  /\ focus \in Focus
  /\ \A t \in Edit : \A p \in patches[t] : p \in [runtime : Runtime, patch : Patch]
  /\ page \in {NoPage} \cup AppsPage \cup MemoriesPage \cup SessionsPage \cup TracePage
               \cup StreamPage

\* A row of the Apps page shows the file once its requests are answered, unless requests
\* of two rows were under way at once (one `saving` for all rows then frees the first),
\* or the row was written elsewhere or an answer got lost (AppsView.tsx 37-83).
RowsShowTheFile ==
  page.name = "apps" /\ controls.readable /\ ~page.crossed =>
    \A r \in Runtime :
      (\A t \in page.pending : \A p \in patches[t] : p.runtime # r) =>
        r \in page.unseen \/ page.rows[r] = controls.runtimes[r]

\* The list of memories is the newest of those anchored when it was asked for, each once,
\* however many are added while it is read (dashboard memory.ts 55-97).
ListIsNewest ==
  page.name = "memories" /\ page.status = "shown" =>
    LET listed == {page.list[k] : k \in DOMAIN page.list} IN
    /\ Len(page.list) <= ListLimit
    /\ \A k, m \in DOMAIN page.list : k < m => page.list[k] > page.list[m]
    /\ listed \subseteq Memories(0, page.start)
    /\ \A i \in Memories(0, page.start) \ listed :
         Len(page.list) = ListLimit /\ \A k \in DOMAIN page.list : page.list[k] > i

\* The drawer calls the originating trace verified only if it verifies (MemoryDrawer.tsx
\* 29-36).
OriginIsVerified ==
  page.name = "memories" /\ page.verdict = "ok" =>
    events[page.selected].session \notin Tampered

\* What an edit of a runtime's control set stays set, and the Apps page shows it.
PolicyHolds == EditsSurvive /\ RowsShowTheFile

\* Memories are stored and attested as add and its callers answer, and listed as they are
\* attested; contents are kept as the upload answers, and their reads share a key only while it is good.
StorageIsFaithful ==
  /\ AnswersAreTrue
  /\ CapturesAreTrue
  /\ NobodyWaitsForNothing
  /\ ListIsNewest
  /\ ContentIsKept
  /\ OneSignatureServesAll
  /\ FailedKeyIsDropped

\* What a page says of a session, a call or a memory is what was found of that one.
PagesTellTheTruth ==
  /\ DayVerdictIsEarned
  /\ TraceVerdictIsEarned
  /\ PlaintextIsOfItsCall
  /\ StreamGoesForward
  /\ OriginIsVerified
=============================================================================
