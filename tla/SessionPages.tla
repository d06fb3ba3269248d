----------------------------- MODULE SessionPages -----------------------------
(******************************************************************************)
(* The pages of the local dashboard that show verdicts about trace sessions:  *)
(* the session list with "Verify all" and its export, the trace page with its *)
(* verify drawer, and the event stream of recent sessions.                    *)
(*                                                                            *)
(* One page is open at a time; leaving it drops its state and the answers it  *)
(* still waits for.                                                           *)
(******************************************************************************)
EXTENDS MemoryStore, FiniteSets

CONSTANTS
  Tampered,       \* the sessions whose chain does not verify
  Day,            \* groups of the session list
  SessionsOf,     \* the sessions of each group, oldest first
  MaxVerifyIds,   \* MAX_VERIFY_IDS and MAX_GROUPED_EXPORT_IDS
  CallCount,      \* the calls of a session
  MaxNew,         \* bound: sessions that open while a stream is read
  Poll,           \* polls of one stream that may be under way at once
  MaxVisits       \* bound: pages opened

ASSUME SessionPagesConstants ==
  /\ Tampered \subseteq Session
  /\ SessionsOf \in [Day -> Seq(Session)]
  /\ MaxVerifyIds \in Nat \ {0}
  /\ CallCount \in Nat \ {0}
  /\ {MaxNew, MaxVisits} \subseteq Nat

VARIABLES
  page,           \* the open page
  visits          \* pages opened so far

pageVars == <<page, visits>>

NoPage == [name |-> "none"]

\* Only a session that verifies can be found intact, but it need not be: the node may
\* answer late or not at all.
Found(s) == {"error", "broken"} \cup (IF s \in Tampered THEN {} ELSE {"ok"})

Verdicts(S) == {f \in [S -> {"ok", "broken", "error"}] : \A s \in S : f[s] \in Found(s)}

\* A request names every session of the group; only the first of them are looked at.
Looked(d) == {SessionsOf[d][i] : i \in {j \in DOMAIN SessionsOf[d] : j <= MaxVerifyIds}}

VerifySessionsOk_Available(f) == \A s \in DOMAIN f : f[s] # "broken"  \* mutant
VerifySessionsOk(f) == DOMAIN f # {} /\ \A s \in DOMAIN f : f[s] = "ok"

-----------------------------------------------------------------------------
PagesInit == page = NoPage /\ visits = 0

Opens(p) ==
  /\ page = NoPage
  /\ visits < MaxVisits
  /\ page' = p
  /\ visits' = visits + 1

LeavePage == page # NoPage /\ page' = NoPage /\ UNCHANGED visits

On(name) == page.name = name /\ UNCHANGED visits

-----------------------------------------------------------------------------
NoDrawer == [kind |-> "none"]

OpenSessions ==
  Opens([name |-> "sessions", drawer |-> NoDrawer, verified |-> [d \in Day |-> FALSE]])

\* VerifyAllDrawer or GroupedReplayModal: mounted with a request under way.
OpenDrawer(kind, d) ==
  /\ On("sessions")
  /\ page.drawer = NoDrawer
  /\ page' = [page EXCEPT !.drawer = [kind |-> kind, day |-> d, status |-> "loading", result |-> <<>>]]

Waiting(kind) ==
  /\ On("sessions")
  /\ page.drawer.kind = kind
  /\ page.drawer.status = "loading"

VerifyAnswered ==
  /\ Waiting("verify")
  /\ \E f \in Verdicts(Looked(page.drawer.day)) :
       page' = [page EXCEPT !.drawer.status = "done", !.drawer.result = f,
                            !.verified[page.drawer.day] = VerifySessionsOk(f)]

VerifyErrored ==
  /\ Waiting("verify")
  /\ page' = [page EXCEPT !.drawer.status = "error", !.verified[page.drawer.day] = FALSE]

ExportAnswered ==
  /\ Waiting("export")
  /\ \E f \in Verdicts(Looked(page.drawer.day)) :
       page' = [page EXCEPT !.drawer.status = "done", !.drawer.result = f]

ExportErrored ==
  /\ Waiting("export")
  /\ page' = [page EXCEPT !.drawer.status = "error"]

\* The cleanup of the drawer's effect aborts its request.
CloseDrawer ==
  /\ On("sessions")
  /\ page.drawer # NoDrawer
  /\ page' = [page EXCEPT !.drawer = NoDrawer]

SessionsStep ==
  \/ OpenSessions
  \/ \E kind \in {"verify", "export"}, d \in Day : OpenDrawer(kind, d)
  \/ VerifyAnswered
  \/ VerifyErrored
  \/ ExportAnswered
  \/ ExportErrored
  \/ CloseDrawer

-----------------------------------------------------------------------------
\* verify of the session as the page was rendered: brokenAt is 0 for a chain without a
\* broken link, whose root may still not match.
Verified(s) ==
  {[ok |-> FALSE, brokenAt |-> k] : k \in 0..CallCount}
    \cup (IF s \in Tampered THEN {} ELSE {[ok |-> TRUE, brokenAt |-> 0]})

NotWalking == [stage |-> "closed", i |-> 0, tamper |-> FALSE, done |-> "none"]
NotRevealed == [state |-> "idle", of |-> 0]

\* A session that cannot be read shows no TraceView.
OpenTrace(s) ==
  \E verify \in Verified(s) :
    Opens([name |-> "trace", session |-> s, verify |-> verify, verified |-> "none",
           simulated |-> FALSE, drawer |-> NotWalking, selected |-> 1,
           reveal |-> NotRevealed, moved |-> FALSE])

OpenVerify ==
  /\ On("trace")
  /\ page.drawer.stage = "closed"
  /\ page' = [page EXCEPT !.drawer = [NotWalking EXCEPT !.stage = "waiting"]]

\* The effect's cleanup clears both timers; the drawer keeps what it shows until start.
ToggleTamper ==
  /\ On("trace")
  /\ page.drawer.stage # "closed"
  /\ page' = [page EXCEPT !.drawer.stage = "waiting", !.drawer.tamper = ~@]

StartWalk_KeepsPlace ==                                             \* mutant
  /\ On("trace")
  /\ page.drawer.stage = "waiting"
  /\ page' = [page EXCEPT !.drawer.stage = "walking", !.drawer.done = "none"]

StartWalk ==
  /\ On("trace")
  /\ page.drawer.stage = "waiting"
  /\ page' = [page EXCEPT !.drawer.stage = "walking", !.drawer.i = 0, !.drawer.done = "none"]

\* The call at which the walk stops, 0 for none.
BreakAt ==
  IF page.drawer.tamper THEN (IF CallCount < 3 THEN CallCount ELSE 3)
  ELSE page.verify.brokenAt

\* setDone and onResult.
Shows(ok) ==
  LET label == IF ok THEN "verified" ELSE "broken" IN
  [page EXCEPT !.drawer.i = @ + 1, !.drawer.stage = "finished", !.drawer.done = label,
               !.verified = label, !.simulated = page.drawer.tamper]

\* One tick of the interval.
WalkStep ==
  /\ On("trace")
  /\ page.drawer.stage = "walking"
  /\ page' = IF page.drawer.i + 1 = BreakAt THEN Shows(FALSE)
             ELSE IF page.drawer.i + 1 >= CallCount
             THEN Shows(~page.drawer.tamper /\ page.verify.ok)
             ELSE [page EXCEPT !.drawer.i = @ + 1]

CloseVerify ==
  /\ On("trace")
  /\ page.drawer.stage # "closed"
  /\ page' = [page EXCEPT !.drawer = NotWalking]

\* Detail keeps its state when another call is selected.
SelectCall(c) ==
  /\ On("trace")
  /\ page.drawer.stage = "closed"
  /\ c # page.selected
  /\ page' = [page EXCEPT !.selected = c, !.moved = @ \/ page.reveal.state = "loading"
                                                       \/ page.reveal.state = "done"]

Decrypt ==
  /\ On("trace")
  /\ page.drawer.stage = "closed"
  /\ page.reveal.state \in {"idle", "error"}
  /\ page' = [page EXCEPT !.reveal = [state |-> "loading", of |-> page.selected], !.moved = FALSE]

DecryptAnswered(state) ==
  /\ On("trace")
  /\ page.reveal.state = "loading"
  /\ page' = [page EXCEPT !.reveal.state = state]

TraceStep ==
  \/ \E s \in Session : OpenTrace(s)
  \/ OpenVerify
  \/ ToggleTamper
  \/ StartWalk
  \/ WalkStep
  \/ CloseVerify
  \/ \E c \in 1..CallCount : SelectCall(c)
  \/ Decrypt
  \/ \E state \in {"done", "error"} : DecryptAnswered(state)

-----------------------------------------------------------------------------
\* The stream: newest numbers the sessions in the order they open; a poll has read
\* the newest one or not yet.
OpenStream ==
  Opens([name |-> "stream", newest |-> 0, polls |-> [p \in Poll |-> "idle"], read |-> [p \in Poll |-> 0],
         lastTop |-> 0, highest |-> 0, overlapped |-> FALSE])

SessionOpens ==
  /\ On("stream")
  /\ page.newest < MaxNew
  /\ page' = [page EXCEPT !.newest = @ + 1]

\* The interval starts a poll whether or not the last one has come back.
StartPoll(p) ==
  /\ On("stream")
  /\ page.polls[p] = "idle"
  /\ page' = [page EXCEPT !.polls[p] = "asked",
                          !.overlapped = @ \/ \E q \in Poll : page.polls[q] # "idle"]

PollReads(p) ==
  /\ On("stream")
  /\ page.polls[p] = "asked"
  /\ page' = [page EXCEPT !.polls[p] = "read", !.read[p] = page.newest]

\* The event "sessions" when the newest session differs from the last one sent.
PollAnswered(p) ==
  /\ On("stream")
  /\ page.polls[p] = "read"
  /\ LET top == page.read[p] IN
     page' = [page EXCEPT !.polls[p] = "idle", !.read[p] = 0,
                          !.lastTop = IF top # 0 THEN top ELSE @,
                          !.highest = IF top > @ THEN top ELSE @]

PollFails(p) ==
  /\ On("stream")
  /\ page.polls[p] # "idle"
  /\ page' = [page EXCEPT !.polls[p] = "idle", !.read[p] = 0]

StreamStep ==
  \/ OpenStream
  \/ SessionOpens
  \/ \E p \in Poll : StartPoll(p) \/ PollReads(p) \/ PollAnswered(p) \/ PollFails(p)

-----------------------------------------------------------------------------
Results == {<<>>} \cup UNION {Verdicts(Looked(d)) : d \in Day}
SessionsDrawer ==
  [kind : {"verify", "export"}, day : Day, status : {"loading", "done", "error"}, result : Results]
SessionsPage ==
  [name : {"sessions"}, verified : [Day -> BOOLEAN], drawer : {NoDrawer} \cup SessionsDrawer]

Walk ==
  [stage : {"closed", "waiting", "walking", "finished"}, i : 0..CallCount, tamper : BOOLEAN,
   done : {"none", "verified", "broken"}]
Reveal == [state : {"idle", "loading", "done", "error"}, of : 0..CallCount]
TracePage ==
  [name : {"trace"}, session : Session, verify : [ok : BOOLEAN, brokenAt : 0..CallCount],
   verified : {"none", "verified", "broken"}, simulated : BOOLEAN, drawer : Walk,
   selected : 1..CallCount, moved : BOOLEAN, reveal : Reveal]

StreamPage ==
  [name : {"stream"}, newest : 0..MaxNew, polls : [Poll -> {"idle", "asked", "read"}],
   read : [Poll -> 0..MaxNew], lastTop : 0..MaxNew, highest : 0..MaxNew, overlapped : BOOLEAN]

\* "All verified" is shown only for a day none of whose first MaxVerifyIds sessions was
\* tampered with; sessions past them are not looked at (sessions.ts 72-85).
DayVerdictIsEarned ==
  page.name = "sessions" =>
    /\ \A d \in Day : page.verified[d] => Looked(d) \cap Tampered = {}
    /\ page.drawer # NoDrawer /\ page.drawer.status = "done" =>
         \A s \in DOMAIN page.drawer.result :
           page.drawer.result[s] = "ok" => s \in Looked(page.drawer.day) \ Tampered

\* The trace page's badge is the verdict of the last finished walk: "Verified" never for
\* a session that does not verify, "Broken" for one that does only after a simulation
\* (VerifyDrawer.tsx 28-62).
TraceVerdictIsEarned ==
  page.name = "trace" =>
    /\ page.verified = "verified" => page.verify.ok /\ ~page.simulated
    /\ page.verified = "broken" => ~page.verify.ok \/ page.simulated
    /\ page.drawer.done # "none" => page.drawer.done = page.verified

\* A decrypted input stands beside another call than its own only when that call was
\* selected after "Reveal" (TraceView.tsx 189-213).
PlaintextIsOfItsCall ==
  page.name = "trace" /\ page.reveal.state = "done" =>
    page.reveal.of = page.selected \/ page.moved

\* The stream goes back to an older session only if two polls overlapped
\* (stream/route.ts 25-39).
StreamGoesForward ==
  page.name = "stream" => page.lastTop = page.highest \/ page.overlapped
=============================================================================
