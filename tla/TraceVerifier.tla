--------------------------- MODULE TraceVerifier ----------------------------
(*****************************************************************************)
(* The verifiers of a session, reading it while the contract of Trace goes   *)
(* on: verifyTraceChain (sdk-ts traces.ts) behind the public page, the       *)
(* dashboard, the CLI and the MCP server; app.js of the static verifier      *)
(* site; verify_session (sdk-python).  Beside the verdict, most of them list *)
(* the session's calls, which a second walk over the events reads.           *)
(*                                                                           *)
(* A verifier reads the session object first and the events afterwards,      *)
(* page by page.  queryEvents returns the events of all sessions in ledger   *)
(* order; the verifier keeps those of its session.  The full node is         *)
(* external: its event index may trail the ledger (horizon), and in either   *)
(* walk it may leave out or repeat a row (faults), which is what verifying   *)
(* is there to notice.  Event timestamps never decrease along the ledger;    *)
(* rows read newest first are sorted by them, and come out with calls of one *)
(* millisecond reversed.                                                     *)
(*****************************************************************************)
EXTENDS Trace, Ordering, SequencesExt

CONSTANTS
  PageSize,       \* events per page of an ascending walk (100)
  ListPageSize,   \* events per page of a descending walk (50)
  MaxFaults       \* bound: rows the node leaves out or repeats

ASSUME PagesAreNumbers == {PageSize, ListPageSize} \subseteq Nat \ {0} /\ MaxFaults \in Nat

\* What a reader was asked for, and what a session object says.
Request == [id : SessionId, walk : {"none", "ascending", "descending"}]
SessionObject == [id : SessionId, merkleRoot : Seq(ContentHash), callCount : Nat]
ASSUME NoneIsNoAnswer == NONE \notin Request \cup SessionObject

VARIABLES
  ledger,         \* ActionCallEmittedEvents of all sessions, oldest first
  reader,         \* what was asked for: the session and the order of its list
  phase,          \* of the verifier: "idle", "opened", "reading" or "done"
  session,        \* the id and the fields of the session object that was read
  cursor,         \* ledger position of the last page read
  horizon,        \* how much of the ledger the node's index held at that page
  rows,           \* the session's events read so far
  begun,          \* ledger length when the session object was read
  faults,         \* what the node did wrong in the verifier's walk so far
  list            \* the walk of the list: its newest and its next ledger position, the
                  \* positions of the events it was given, and what the node did wrong in it

verdictVars == <<phase, session, cursor, horizon, rows, begun, faults>>
readerVars == <<reader, verdictVars, list>>
verifierVars == <<vars, ledger, readerVars>>

Row_RootForLink(s, event) ==                             \* mutant
  [session_id |-> s, content_hash |-> event.content_hash,
   prev_hash |-> event.new_session_merkle_root]
Row(s, event) ==
  [session_id |-> s, content_hash |-> event.content_hash, prev_hash |-> event.prev_hash]

-----------------------------------------------------------------------------
VerifierInit ==
  /\ Init
  /\ ledger = <<>>
  /\ reader = NONE
  /\ phase = "idle"
  /\ session = NONE
  /\ cursor = 0
  /\ horizon = 0
  /\ rows = <<>>
  /\ begun = 0
  /\ faults = 0
  /\ list = [state |-> "none", newest |-> 0, next |-> 0, rows |-> <<>>, faults |-> 0]

\* A transaction; the event of emit_call goes to the end of the ledger.
ContractStep ==
  /\ Next
  /\ LET grown == {s \in DOMAIN emitted : Len(emitted'[s]) > Len(emitted[s])} IN
     IF grown = {} THEN ledger' = ledger
     ELSE \E s \in grown : ledger' = Append(ledger, Row(s, Last(emitted'[s])))
  /\ UNCHANGED readerVars

\* A reader asks for a session.  The object must exist before anything is verified
\* or listed: an absent one has an empty chain, which would verify.
Open(s, walk, first) ==
  /\ reader = NONE
  /\ s \in DOMAIN sessions
  /\ reader' = [id |-> s, walk |-> walk]
  /\ phase' = first
  /\ list' = [list EXCEPT !.state = IF walk = "none" THEN "none" ELSE "start"]
  /\ UNCHANGED <<vars, ledger, session, cursor, horizon, rows, begun, faults>>

\* The public page: the verifier and the list of calls run side by side.
LoadPublicVerifySession(s) == Open(s, "ascending", "opened")
\* The trace page of the dashboard: the same, with the list newest first.
FetchSession(s) == Open(s, "descending", "opened")
\* onemem verify, and the verify tools: a verdict without a list of its own.
VerifyCommand(s) == Open(s, "none", "opened")
\* onemem trace events, and the list and replay tools: no verdict.
TraceEvents(s) == Open(s, "descending", "idle")
ReplaySession(s) == Open(s, "ascending", "idle")

\* The object is read (again), and what it says is what the events are held against.
FetchTraceSession ==
  /\ phase = "opened"
  /\ session' = [id |-> reader.id, merkleRoot |-> sessions[reader.id].merkle_root,
                 callCount |-> sessions[reader.id].call_count]
  /\ phase' = "reading"
  /\ begun' = Len(ledger)
  /\ UNCHANGED <<vars, ledger, reader, cursor, horizon, rows, faults, list>>

\* The events of session id among those at the ledger's positions from first to last.
OfSession(id, first, last) == {i \in first..last : ledger[i].session_id = id}
At(positions) == [i \in DOMAIN positions |-> ledger[positions[i]]]

\* What the node may answer instead of page: page without a row, or with one twice.
Faulty(page) ==
  {RemoveAt(page, i) : i \in DOMAIN page} \cup {InsertAt(page, i, page[i]) : i \in DOMAIN page}
MayErr == faults + list.faults < MaxFaults

\* The page after cursor, when the node's index holds h events.
PageEnd(h) == IF h < cursor + PageSize THEN h ELSE cursor + PageSize
Page(h) == At(InOrder(OfSession(session.id, cursor + 1, PageEnd(h)), <))
HasNextPage_Empty(h) == Page(h) # <<>> /\ h > PageEnd(h)       \* mutant
HasNextPage(h) == h > PageEnd(h)

\* One round of the loop in fetchActionCallEmittedEvents.
FetchPage(h) ==
  /\ phase = "reading"
  /\ \/ rows' = rows \o Page(h) /\ faults' = faults
     \/ /\ MayErr
        /\ faults' = faults + 1
        /\ \E answer \in Faulty(Page(h)) : rows' = rows \o answer
  /\ cursor' = PageEnd(h)
  /\ horizon' = h
  /\ phase' = IF HasNextPage(h) THEN "reading" ELSE "done"
  /\ UNCHANGED <<vars, ledger, reader, session, begun, list>>

-----------------------------------------------------------------------------
(*****************************************************************************)
(* The list of calls, from the same node.  Ascending, it has walked over the *)
(* positions 1..newest; the descending walk starts at the newest event and   *)
(* has walked over next+1..newest.  Nothing is filtered but by session, and  *)
(* no row is looked for twice.  An index that trails the ledger only makes   *)
(* the list as old as an earlier read would have been.                       *)
(*****************************************************************************)
\* The walk gets to newest and next with one more page of positions, or with what the
\* node answers instead.
ListPage(newest, next, state, page) ==
  /\ \/ list' = [state |-> state, newest |-> newest, next |-> next,
                  rows |-> list.rows \o page, faults |-> list.faults]
     \/ /\ MayErr
        /\ \E answer \in Faulty(page) :
             list' = [state |-> state, newest |-> newest, next |-> next,
                      rows |-> list.rows \o answer, faults |-> list.faults + 1]
  /\ UNCHANGED <<vars, ledger, reader, verdictVars>>

ListPageAscending ==
  /\ list.state \in {"start", "walking"}
  /\ reader.walk = "ascending"
  /\ LET end == IF Len(ledger) < list.newest + PageSize
                THEN Len(ledger) ELSE list.newest + PageSize IN
     ListPage(end, 0, IF Len(ledger) > end THEN "walking" ELSE "done",
              InOrder(OfSession(reader.id, list.newest + 1, end), <))

ListPageDescending ==
  /\ list.state \in {"start", "walking"}
  /\ reader.walk = "descending"
  /\ LET newest == IF list.state = "start" THEN Len(ledger) ELSE list.newest
         from == IF list.state = "start" THEN newest ELSE list.next
         next == IF from < ListPageSize THEN 0 ELSE from - ListPageSize IN
     ListPage(newest, next, IF next = 0 THEN "done" ELSE "walking",
              InOrder(OfSession(reader.id, next + 1, from), >))

\* The session's positions among those walked over.
ListedPositions == OfSession(reader.id, list.next + 1, list.newest)

\* The calls as shown, when the events at the positions ties have the timestamp of
\* the event before them: as read, or, read newest first, in a stable sort by time.
Listed(ties) ==
  LET Time(i) == Cardinality(1..i \ ties)
      Earlier(i, j) == \/ Time(list.rows[i]) < Time(list.rows[j])
                       \/ Time(list.rows[i]) = Time(list.rows[j]) /\ i < j
      sorted == InOrder(DOMAIN list.rows, Earlier)
  IN IF reader.walk = "ascending" THEN At(list.rows)
     ELSE At([i \in DOMAIN list.rows |-> list.rows[sorted[i]]])

VerifierNext ==
  \/ ContractStep
  \/ \E s \in SessionId :
       \/ LoadPublicVerifySession(s) \/ FetchSession(s) \/ VerifyCommand(s)
       \/ TraceEvents(s) \/ ReplaySession(s)
  \/ FetchTraceSession
  \/ \E h \in cursor..Len(ledger) : FetchPage(h)
  \/ ListPageAscending
  \/ ListPageDescending

VerifierSpec == VerifierInit /\ [][VerifierNext]_verifierVars

-----------------------------------------------------------------------------
(***************************************************************************)
(* The verdicts.                                                           *)
(***************************************************************************)
Contents(events) == [i \in DOMAIN events |-> events[i].content_hash]
\* The root a verifier recomputes.
RootOf(contents) ==
  LET root[i \in 0..Len(contents)] ==
        IF i = 0 THEN ZERO_HASH ELSE ChainHash(root[i - 1], contents[i])
  IN root[Len(contents)]

\* verifyTraceChain, and verifyChain of app.js: the links, the folded root, the count.
BrokenLinks(events) ==
  {i \in DOMAIN events :
     events[i].prev_hash # (IF i = 1 THEN ZERO_HASH ELSE events[i - 1].content_hash)}
RootMatches(events) == RootOf(Contents(events)) = session.merkleRoot
CountMatches == Len(rows) = session.callCount

VerifyTraceChain_LinksOnly == BrokenLinks(rows) = {}           \* mutant
VerifyTraceChain == BrokenLinks(rows) = {} /\ RootMatches(rows) /\ CountMatches

\* The Python verifier counts nothing, and asks for the events of the configured
\* package; an upgrade makes that one a package that defines no event types, while
\* the TypeScript verifiers take the package from the session's type.
PythonRows(configuredDefines) == IF configuredDefines THEN rows ELSE <<>>
VerifySessionPython_LinksOnly(configuredDefines) ==            \* mutant
  BrokenLinks(PythonRows(configuredDefines)) = {}
VerifySessionPython(configuredDefines) ==
  /\ BrokenLinks(PythonRows(configuredDefines)) = {}
  /\ RootMatches(PythonRows(configuredDefines))

\* The public page: "Root match" shows the verdict, and a note is shown unless as
\* many calls are listed as were verified.
RootMatchShown == VerifyTraceChain
CallEvidenceMatchesVerifier == Len(list.rows) = Len(rows)

Done == phase = "done"
ListDone == list.state = "done"

\* Types of what the verifier holds (VerifyResult and EmittedEventRow).
VerifierTypeOK ==
  /\ phase \in {"idle", "opened", "reading", "done"}
  /\ IF phase \in {"idle", "opened"} THEN session = NONE ELSE session \in SessionObject
  /\ reader # NONE => reader \in Request
  /\ reader = NONE => phase = "idle" /\ list.state = "none"
  /\ begun \in 0..Len(ledger) /\ horizon \in 0..Len(ledger) /\ cursor \in 0..horizon
  /\ list.newest \in 0..Len(ledger) /\ list.next \in 0..list.newest
  /\ Range(list.rows) \subseteq 1..Len(ledger)
  /\ {faults, list.faults} \subseteq Nat /\ faults + list.faults <= MaxFaults
  /\ Range(ledger) \cup Range(rows) \subseteq
       [session_id : SessionId, content_hash : ContentHash,
        prev_hash : ContentHash \cup {ZERO_HASH}]

\* A positive verdict vouches for a beginning of the session's history, and goes
\* on doing so while the session grows: whatever the node left out or repeated,
\* and whatever was emitted between the reads, the rows are the calls the session
\* had when its object was read (traces.ts 312-363: "no insert/drop", "no content
\* forgery").  The calls listed beside it come from another walk, at other moments,
\* and nothing hashes them: the page adds a note unless they are as many
\* (public-verify.ts 144-179, page.tsx 115-133).  Without a note they are the calls
\* verified, if that walk was answered without a fault: in the order of the chain if
\* no two of them have one timestamp, and always when read oldest first (trace.ts of
\* the dashboard 101-105 and 141-180).  One fault goes without a note only when the
\* session had another number of calls by then; two may cancel out.
PositiveVerdictIsRight ==
  Done /\ VerifyTraceChain =>
    /\ session.callCount <= Len(emitted[session.id])
    /\ Contents(rows) = Contents(SubSeq(emitted[session.id], 1, session.callCount))
    /\ ListDone /\ CallEvidenceMatchesVerifier =>
         /\ list.faults = 0 =>
              /\ Contents(Listed({})) = Contents(rows)
              /\ reader.walk = "ascending" =>
                   \A ties \in SUBSET (2..Len(ledger)) : Contents(Listed(ties)) = Contents(rows)
         /\ list.faults = 1 => Cardinality(ListedPositions) # session.callCount

\* A negative verdict about an honest ledger has a cause: the node erred, its
\* index had not yet reached what the ledger held when the session was read, or
\* the session grew since.  A sealed, indexed session always verifies.  And unless
\* the node erred, the root does differ when the page says so (it shows the whole
\* verdict under "Root match", page.tsx 114).
NegativeVerdictHasCause ==
  Done /\ ~VerifyTraceChain =>
    /\ \/ faults > 0
       \/ horizon < begun
       \/ Len(emitted[session.id]) > session.callCount
    /\ faults = 0 => RootMatchShown = RootMatches(rows)

\* The count check of the TypeScript verifiers never decides alone: the Python
\* verifier, which has none, returns the same verdict (traces.py 85: "Mirrors TS
\* exactly") as long as the configured package defines the event types.  Once it
\* has been upgraded, Python verifies a session if, and only if, it has no calls.
VerifiersAgree ==
  Done => /\ VerifyTraceChain <=> VerifySessionPython(TRUE)
          /\ VerifySessionPython(FALSE) <=> session.callCount = 0
=============================================================================
