# OneMem in TLA+

OneMem lets AI agents keep memory and an audit trail on Sui. A Move package holds namespaces,
capabilities and trace sessions; TypeScript and Python SDKs, hook plugins and framework providers
write to it; verifiers, dashboards and commands read it back. This project models the parts whose
behaviour depends on the order in which several actors act, checks them with TLC on small instances
and proves with TLAPS, for every instance, the safety properties of the contract, of the verifiers, of
the tracers and recorders, of onboarding and login, of sharing and revoking, and of the dashboard.
Paths below are relative to the repository; Move files are in `contracts/onemem/sources/`, packages in
`packages/`, the hosted dashboard in `apps/hosted-dashboard/`.

## 1. Inventory

| Component | State | Operations | What is hard | What makes it correct |
|---|---|---|---|---|
| `registry.move`, `version.move` | (owner, name) index, version | `register` (public), `bump_package_version` | foreign registrations, version gate closing and opening | one owner, one name, one namespace |
| `namespace.move`, `seal_policy.move` | namespaces with active flag and revocation markers; capability objects | `create`, two mints, burn, admin revoke, deactivate/reactivate, `seal_approve` | two ways to revoke in either order, markers for foreign capabilities, self-revocation of the admin | lost authority stays lost; events decide who has authority |
| `trace.move`, `events.move` | sessions (tail, root, count, status), calls, four event types | `open_session`, `emit_call`, `close_call_with_namespace`, `close_session_with_namespace` | many writers on a shared session, authority changing between calls, closing late or twice | one intact hash chain; a root commits to its history; close events are final |
| verifiers and lists of calls (`traces.ts`, `fetchers/trace.ts`, `traces.py`, `app.js`, the public page, the CLIs, the MCP server) | rows, cursors | read session, read event pages in two walks, fold, sort | reads at different moments, index lag, pages, equal timestamps, an upgraded package | a positive verdict is right, a negative one has a cause |
| recording CLI (`runtime.ts`, `bin/onemem-trace.mjs`, `client.ts`) | one process per run | start, append/close per call, end or end as failed | each transaction may be refused, lost or silently aborted | the session never claims more than happened |
| Python tracers (CrewAI, LiveKit, ElevenLabs, Hermes) | call buffer, CLI child, daemon threads | capture, flush, timeout, retry, exit | callbacks and a second flush during the dump and the child's run; killed parent, live child; values json cannot dump | lost, repeated or skipped calls have a known cause |
| provisioning (`resolveSigner`, `ensureNamespace`) | wallet file, target file | read, generate, create, mint, rename | crash between steps, two processes, two wallets | the saved target is usable |
| in-process recorders (OpenClaw plugin, `createTraceRecorder` under the OpenAI and Vercel providers) | calls in memory for each run of an agent, memoised client and target | capture, flush | overlapping flushes, a failing attempt others await, a run that throws before its end | one attempt at a time; loss has a known cause |
| Claude Code and Codex hooks | state file, buffer file, on-chain session | SessionStart, PostToolUse, SessionEnd/Stop | separate processes, kills, drain after read, torn lines | loss has a known cause, nothing recorded twice |
| runtime controls (`runtime-controls.ts`, Apps page) | one JSON file; rows of a page | read-modify-write, optimistic page | two processes; answers out of order | an edit survives; the page shows the file |
| capability history (`namespace-history.ts`, `ShareHistoryPanel`) | two event streams | concurrent paginated reads | revoke between the reads, an edited field | history is right and current |
| sharing and revoking (CLI, MCP tools, hosted pages, sponsored route) | owned capability objects, sponsored transactions | share, revoke, admin-revoke | effects never read, outdated object versions, lost answers | what is reported is in force |
| hosted onboarding and `onemem login` | connected account, local storage, callback server, credentials file | provision, look up, approve, validate, save, resolve | account switches between steps; a timer and a second callback during validation | what is remembered, posted and saved is true of the chain |
| memory (`memory.ts`, `runtime-memory.ts`, bridge, Python, CLI, MCP) | MemWal, attesting calls, shared client | add, attest, search, list | second step fails, answers lost, creation of the client fails | the answer says what happened |
| content (`seal.ts`, `walrus.ts`) | blobs, session key | encrypt and upload, read and decrypt | retries, a shared key that expires or fails | stored is kept; one signature serves all |
| local dashboard pages | open page, unanswered requests | day verdicts, trace walk, reveal, stream | late answers, overlapping polls | a page tells what was found of that session |
| settings, landing page, docs, demos, deployment scripts, Nautilus stub | none of their own | – | – | – |

Interaction: every writer sends transactions that Sui executes atomically and totally ordered per
shared object; a Move function that aborts has no effect. Recorders talk to the chain through the SDK,
Python recorders through a child process and its exit code and last output line. Processes on one
machine share files and no lock. Pages talk to their server by requests whose answers may be late,
lost or out of order. Verifiers and histories only read, from a full node that may trail the chain.

`PROJECT.json` lists the hazards with their lines and the properties that cover them.

## 2. Modules

| Module | Models | On top of |
|---|---|---|
| `Objects` | stores of Sui objects: `Put`, `Drop`, `Empty`, written without `@@`, which the proof system does not define | |
| `Namespace` | `registry.move`, `version.move`, `namespace.move`, `seal_policy.move`; `minted`, `revokedLog` are event streams | `Objects` |
| `Trace` | `trace.move`, `events.move` | `Namespace` |
| `AuditLog` | abstract specification: logs that grow by one entry until sealed, outcomes written once; implemented by `Trace` and by `Recorder` | |
| `Ordering` | sorting: the members of a finite set in an order, a definition the proof system can expand | |
| `TraceVerifier` | the verdicts and the two walks of the lists over a running `Trace` | `Trace`, `Ordering` |
| `Recorder` | `recordSession`, `onemem-trace`, `execute` and the four SDK calls; one state machine per run | `Objects` |
| `TraceFlush` | capture and `flush` of the four Python tracers | `Recorder` |
| `RuntimeControls` | the controls file | |
| `HostCapture` | what local recorders share: the host, its calls, why one may be lost | `Recorder`, `RuntimeControls` |
| `Hooks` | the hook scripts of Claude Code and Codex | `HostCapture` |
| `Provisioning` | wallet and target files, `ensureNamespace` | `Recorder` |
| `InProcess` | OpenClaw's `TraceRecorder` and the SDK's `createTraceRecorder` | `HostCapture`, `Provisioning` |
| `LocalRecorders` | one of the four hosts beside edits of its controls | `Hooks`, `InProcess` |
| `CapHistory` | the two event streams, requests and pages | `Namespace` |
| `SponsoredRequest` | pure: which sponsored requests are valid, the Move call built, the limits, what is looked for afterwards | |
| `Sharing` | commands, tools and pages that share and revoke, and the history panel | `CapHistory`, `SponsoredRequest` |
| `SponsoredProvisioning` | onboarding by two sponsored transactions | `SponsoredRequest` |
| `CliLogin` | the login page, the callback server, the credentials file and its readers | `SponsoredProvisioning` |
| `HostedOnboarding` | both pages in one browser | `CliLogin` |
| `MemoryStore` | `add`, its attestation and its retry | |
| `MemoryRecorder` | the callers of `add` and `search` | `MemoryStore` |
| `ContentStore` | uploads, reads, decrypts and session keys | |
| `SessionPages` | sessions page, trace page, event stream | |
| `Dashboard` | Apps and Memories pages, and all of the above that one user has before them | `RuntimeControls`, `SessionPages`, `ContentStore`, `MemoryRecorder`, `Ordering` |
| `MC*` | model values, bounds, symmetry | |
| `NamespaceProofs`, `TraceProofs`, `TraceFlushProofs`, `LocalRecordersProofs`, `HostedOnboardingProofs`, `SharingProofs`, `DashboardProofs` | theorems | the module of the name; `TraceProofs` also covers `TraceVerifier` |
| `RecorderProofs` | lemmas about one recording run, shared by the tracers and the local recorders | `Recorder` |

### Correspondence

*Namespace.* A Move entry function is one action; its `assert!`s are conjuncts of the guard and an abort
is a disabled action. The phantom kind of a capability is a field, because a call with another kind does
not type-check. `TransferCapability` is Sui's `public_transfer`. `Create` includes its mint and its
registration, `Register` is the same function called directly, which its `public` visibility allows.
Object ids are fresh: an id that was minted never returns.

*Trace.* `sha2_256` is ideal: a content hash is the tuple of what was hashed, a root is the sequence of
what was chained to `ZERO_HASH`. `Payload` stands for tool name, tool namespace and input hash as one
value, since the code hashes their plain concatenation. Timestamps, labels, blobs and `captured_by` are
left out: no guard reads them. Sequence lengths stand for the `u64` count; overflow is out of reach.
The namespace's own `merkle_root`, `last_action_call_id` and `walrus_blob_count` are never written by
any function and do not appear.

*TraceVerifier.* `ledger` is the order in which events entered the chain. A reader opens one session: for a
verdict, for a list of calls in ascending or descending order, or for both. Pages come from a node that
holds `h` events at that moment; it may leave out or repeat a row, in the verdict's walk and in the list's, which
asks the same node (`MayErr`, `MaxFaults` for both together; `faults` and `list.faults` count them apart). `ties`
are the events with the timestamp of the one before.

*Recorder.* Each SDK call has an outcome. *ok*; *refused*: no effect, throws (upload, dry run or request
failed, or the missing object or event of an aborted `startSession`/`appendCall` was noticed); *lost*:
executed, throws; *aborted*: `closeCall` and `endSession` only, no effect, does not throw, because
`execute` does not look at `effects.status`. The catch block ends the session as Failed whatever comes
of that and exits with an error.

*TraceFlush.* `BeginFlush` takes the list, not a copy; `DumpCall` writes the call at the index `json.dump` has
come to, in the list as it is by then; at its end `StartCli` hands what was written to the CLI; `EndFlush`
treats the exit. The buffer is not locked: between any two of these steps callbacks append and another flush may
empty it (`Emptied`). The three tracers `clear()` the list that dumps under way are iterating (`cut` names their
runs), Hermes (`hermes`) pops it from its dictionary and leaves it whole to them (`popped`). `FlushTimeout` is
`subprocess.run`'s timeout: it kills `npx`, and the node process below it dies too or goes on. A value is plain,
an object (of which `_safe` makes a string) or nested in a list or dict (which `_safe` passes through and
`json.dump` raises on): such a call is in `poison`. `HostExits` ends the daemon threads and the buffer.
`exposed` and `concurrent` are history variables.

*LocalRecorders.* The host is chosen at the start, so that one state space holds all four recorders. Every hook
is a process; what it read before a step it uses after it: `summary` holds the calls a SessionEnd or Stop hook
has read, while it awaits the controls and the client. The buffer file is the calls of its whole lines, whether
there is a line that does not parse, and whether the last one has no end, so that the next call is appended to
it. `atRisk` records the calls a step of the code may lose, with the reason, and only properties read it. The
calls of a process are kept for each `Context`: a RunContext of the OpenAI provider, a session key of OpenClaw.
`RunErrors` is a run of the OpenAI provider that throws before its `agent_end`. In-process flushes take a step
per await. `capOwner` tells whose key owns a namespace's ReadWrite capability: the contract refuses everybody
else.

*Sharing.* A run begins with its dry run; a transaction names owned objects by version, so whatever uses or
moves one of them makes the others *stale*, which the network rejects. That is why ignored effects do no
harm here (and do in `Recorder`, whose capabilities and sessions others can change).

*HostedOnboarding.* Handlers keep the account, lookup and namespace of the click, as React closures do; the
wallet signs with the account of the moment. Local storage has one key for all accounts.

*Dashboard.* `focus` is a bound: the parts share nothing but the open page, so a behaviour uses one of them.
`MaxVisits` bounds how often a page is opened; an answer for a page that was left changes nothing.

## 3. Runs

| Run | Instance | Distinct states | Question |
|---|---|---|---|
| `namespace` | 2 owners, 1 name, 2 namespaces, 3 capabilities, kinds and versions on both sides of their bound | ~35 000 | names, events and authority under every order of calls |
| `trace` | 1 namespace, 2 capabilities, 2 sessions, 3 calls, statuses 0, 3, 4 | ~150 000 | chains, close events, the audit log |
| `verifier` | 2 sessions, 3 calls, pages of 2 (lists newest first: 1), 2 node faults in either walk | ~156 000 | what verdicts and lists mean |
| `flush` | 2 flushers, 2 CLI runs, 3 calls, 2 faults | ~606 000 | loss, gaps, duplication, honesty of sessions |
| `flush_live` | 1 flusher, 2 CLI runs, 2 calls, 2 faults, no symmetry | ~73 000 | sessions are sealed |
| `local_recorders` | 4 hosts, 3 sessions, 2 or 3 calls, 2 processes (SDK: 1), 2 contexts, 1 fault or kill, 1 edit | ~759 000 | loss, duplication, provisioning |
| `hosted_login` | 2 accounts, 2 onboarding runs, 2 approvals, 2 switches, 1 failure | ~909 000 | is what is remembered, posted and saved true |
| `sharing` | 2 namespaces, 3 capabilities, 2 runs, 2 histories, pages of 2, lag 1 | ~982 000 | histories, panel, reported outcomes |
| `dashboard` | 2 runtimes, 3 edits, 2 memories, 3 sessions, 3 reads of 1 content | ~1 437 000 | controls, memories, contents, pages |
| `inactive_writes` | as `trace` | violation | finding 1 |
| `flush_drop`, `flush_return` | as `flush`, with 3 CLI runs and 2 calls | violation | findings 2 and 3 |

Why the bounds suffice. *Contract*: one name and two owners give a collision and a foreign entry; three
capabilities give an admin, a delegate and one of another namespace; three calls over two sessions give a chain
of two links beside another chain, an interleaving, and a page boundary inside a session. *Flush*: two calls
give a dumped and a late call, or a poison one before or after a plain one; a gap takes a third, for the dump
must have written one, skip one and write one; two flushers are one that dumps and one that empties the list
under it; two runs are a first attempt and its retry, which overlaps it if a timeout left it behind; two faults
are a failure during the handling of a failure. In `flush_live` one thread is enough: its second run meets the
first one's remains. The invariants of all passing runs and both refinements of the log are also proved for all
sizes. *Local recorders*: two calls give one read and one appended since, two contexts one that throws beside
one that ends, three flushes of one process are what a failing attempt with one waiter and one newcomer needs;
two processes race for the two files. *Login*: two of everything make a stale lookup, a stale namespace and a
second callback; two switches lead away and back. *Sharing*: two runs make one outdate the other, two histories
a late answer; pages of two with three capabilities end exactly full and in the middle. *Dashboard*: a day with
one session more than is verified, which is the tampered one; two edits that race and one that crosses them;
three readers are one that mints a key, one that shares it and one that finds it expired or dropped.

`verifier` uses the constraint `WritersStay`, which leaves out revocations and deactivations: to a verifier
they only stop writers, as a writer that does nothing more does. Symmetry is used in safety runs only, over
values no definition tells apart. Deadlock is not an error in any run: ids, runs and visits get used up.

What each property says is in its comment. In short:

- `EventsTellAuthority`: a capability works iff no Revoked event names it; what history readers assume.
- `AuthorityFrozenWithoutAdmin`: with the admin capability gone, nothing about the namespace changes and
  the sets of readers and writers only shrink.
- `ChainIntact`, `RootCommitsToHistory`, `CallsMatchEvents`: the tamper-evidence of a session.
- `SessionClosedIsFinal`, `CallClosedIsFinal`: events and objects never come apart.
- `PositiveVerdictIsRight`: with any faults of the node in either walk and any interleaving, a positive verdict
  vouches for the calls the session had when it was read. The calls listed beside it without a note are those
  calls if the list's own walk was answered without a fault; nothing hashes them, so one fault goes without a
  note when the session had another number of calls by then, and two may cancel out. `NegativeVerdictHasCause`:
  no false alarm on a sealed, indexed session. `VerifiersAgree`: Python's missing count check makes no
  difference as long as the configured package defines the event types.
- `SessionsTellTheTruth`: a session holds a beginning of its batch, and Completed or a reported success means
  all of it. `GapsNeedClearing`: the batch is in order, without repetition, and consecutive unless another flush
  cleared the list under its dump.
- `LossNeedsOverlap`, `ConfirmedOnce`: only calls captured during a flush can be lost before the host exits,
  except that one value that cannot be dumped holds back itself and all later ones; only flushes that overlap
  can both succeed with the same call.
- `SessionsGetSealed`: a run that records calls seals its session, also after one failure.
- `LossHasCause`, `RecordedOnce`: for each host exactly which hazards may lose or repeat a call; under the OpenAI
  provider, an error before `agent_end` loses the calls of that run and no others.
- `SavedTargetIsUsable`, `OneAttemptAtATime`: crashes and failures in provisioning leave no unusable target,
  except when two processes generated a wallet at once; one process makes one namespace at a time, except
  that OpenClaw clears its memo blindly after a failure.
- `RememberedIsComplete`, `CredentialsAreTrue`, `PairedMeansSettled`, `ConfigWorks`: whatever the account does
  meanwhile, nothing untrue is remembered, settled with or resolved, and the page says paired only when the
  CLI settled or was beaten to it.
- `HistoryIsRight`, `PanelIsCurrent`, `ReportedIsInForce`: what is listed as active was; what is shown belongs
  to the field; what is reported as shared or revoked is, and the sponsor's limits fit what is built.
- `PolicyHolds`, `StorageIsFaithful`, `PagesTellTheTruth`: conjunctions of named parts, one for each page or
  store; the comments of the parts name the code.

Fairness (`flush_live` only): weak fairness of every CLI process step and of `EndFlush`. An HTTP request
ends in an answer or an error, so the process goes on to its next statement; `subprocess.run` returns when
the child has exited. Nothing is assumed about captures, about when flushes start, about timeouts, exits or
outcomes. The property excuses a killed process, a second fault, and a failure of the last `endSession`,
which stands outside the `try`.

## 4. Findings

Refuted by a run:

1. *Closes ignore the active flag* (`inactive_writes`). `namespace.move` 324-326 says every
   state-mutating call of trace.move asserts that the namespace is active; the two closes do not.
2. *A flush drops calls it did not write* (`flush_drop`). All four tracers dump the buffer, wait for
   minutes and then clear what the buffer holds by then, against `provider.py` 132-134. Exactly the calls
   captured meanwhile are at risk (`LossNeedsOverlap`).
3. *A session id does not mean a recorded session* (`flush_return`). `closeCall` and `endSession` do not
   notice a transaction that was aborted on chain.

Stated as exceptions in properties that hold, each the exact condition under which the code departs from
what it says or seems to intend:

- *Upgrades* (`VerifiersAgree`). `traces.py` 85 says "Mirrors TS exactly", but Python asks for events of the
  configured package id, while the TypeScript verifier takes the package from the session's type. After an
  upgrade (on testnet the published id differs from the original one) no event has the configured type, and
  Python verifies a session only if it has no calls. `traces.ts` 137 and 192, `namespaces.ts` 85, 176 and
  288, `namespace-history.ts` 116, `memory.ts` 266 and the sponsored route compare or query with the
  configured id too; the other models assume that it defines the types.
- *A gap in a session* (`GapsNeedClearing`). `json.dump` iterates `self._calls` (`tracer.py` of CrewAI 112-119,
  of ElevenLabs 192-199, of LiveKit 156-163). If another flush clears that list meanwhile and callbacks append
  to it, the dump goes on at its index: with c1 written, the list cleared and c2 and c3 appended, it writes c1,
  c3. Such a session verifies like any other. Hermes pops the list and has no gaps (`provider.py` 137-154, 176,
  195).
- *A value that cannot be dumped* blocks a tracer for good (`LossNeedsOverlap`, `tracer.py` 119), and the
  daemon flush dies with the interpreter.
- *A run that throws before `agent_end`* takes the calls the OpenAI provider has buffered for it along, without an
  event or a warning (`LossHasCause`). `index.ts` 51-52 presents the `WeakMap` as the way not to leak such a buffer
  ("no leak if a run errors before agent_end"); that its tools ran is then recorded nowhere.
- *OpenClaw* clears a memo that may stand for another attempt (`OneAttemptAtATime`); *two first runs* at once
  may leave a target of the wallet that lost (`SavedTargetIsUsable`).
- *Codex* may record a batch again after a run it did not see succeed, and gives up all lines for one that is
  torn (`RecordedOnce`, `LossHasCause`); *Claude Code* drops lines appended while it drains.
- *Admin revocation* of another namespace's capability reports success and revokes nothing
  (`ReportedIsInForce`, `namespaces.ts` 260).
- *"Pairing complete"* may be shown for a callback that lost against the timer or another callback
  (`PairedMeansSettled`). No credentials file holds an embedding key, so without the environment's no reader
  resolves a configuration (`ConfigWorks`).
- *All verified* is said of a day of more than `MAX_VERIFY_IDS` sessions of which only the first are looked at
  (`DayVerdictIsEarned`); a *simulated tamper* leaves "Broken" behind (`TraceVerdictIsEarned`); a *revealed
  input* stays beside a call selected later (`PlaintextIsOfItsCall`); overlapping *polls* announce an older
  session (`StreamGoesForward`); one *saving id* for all rows lets requests of a row overlap
  (`RowsShowTheFile`); an *edit of the controls* is lost to one of another process that read the file before it
  and renames it after it (`EditsSurvive`). These exceptions (`moved`, `overlapped`, `crossed`, `raced`) are the
  hazards `TraceView.tsx` 204, the polls, `AppsView.tsx` 38 and `runtime-controls.ts` 141 themselves: what the
  properties show is that the code goes wrong under these conditions only, not that it is right under them.
- *The note on the public page* compares counts (`public-verify.ts` 176). The verification notes say "R7: Incomplete
  display evidence is honest" (`.thoughts/verification/2026-06-17-public-verifier-parity.md` 43). That holds of
  evidence that has another number of rows; if a call is emitted after the verdict's read and the list's walk leaves
  out another one, the counts agree and other calls are listed than were verified (`PositiveVerdictIsRight`).
- *Root match* on the public page shows the whole verdict; lists read newest first show calls of one
  millisecond reversed (`PositiveVerdictIsRight` claims the chain's order for ascending lists only).
- None of the commands, tools and recorders that write memories passes a session, so nothing they write is
  attested or listed (`CapturesAreTrue`). `runtime-memory.ts` 58 says "Store a memory (MemWal + on-chain
  attestation)", `sdk-python/onemem/memory.py` 68 "Store a memory (Seal-encrypted on Walrus + on-chain ActionCall
  attestation)", and `dashboard/lib/memory.ts` 3-4 "the memory LIST is derived from the on-chain truth: every
  `memory.add` emits an ActionCall"; `add` emits one only when it is given a session.

## 5. Proofs

`NamespaceProofs` proves of `NsSpec`: type correctness, `NamesUnique`, `EventsTellAuthority`,
`AuthorityFrozenWithoutAdmin`. The inductive invariant `NsInv` adds `IndexPointsHome` (the index leads from
every namespace's key to that namespace, so a second one with the same key would have had to pass
`register`'s duplicate check), `CapsComeFromMinting` and `OneAdminCap` (only `create` mints an Admin
capability, for a fresh namespace, so no second one can appear after the first is lost).

`TraceProofs` first proves that `Spec` implements `NsSpec` (trace.move only reads the authority objects),
so the theorems above hold of the whole package. Its inductive invariant `TraceInv` adds `RootIsHistory`:
the i-th root lists the first i content hashes. `RootCommitsToHistory` is not inductive and follows
from it. One lemma per entry function says what it changes (`*Effect`), one that it preserves the
invariant (`*Step`), one that it is a step of the log (`*IsLog*`). `TraceImplementsAuditLog` is the refinement.

It then proves the four invariants of `TraceVerifier`. Two facts carry them. The ledger numbers the events of a
session as the session does (`Numbered`: the n-th row of a session is its n-th event), so what was read without
a fault up to a position is a beginning of the session (`RowsArePrefix`), whatever was emitted since; and the
object that was read describes the beginning the ledger held then (`ObjectIsPrefix`). And the root recomputed
from a list of contents is that list (`RootIsContents`), so that a matching root fixes the rows: this is why
faults of the node in the verdict's walk need no case of their own. Those of the list's walk do: nothing fixes
its rows but their number. As long as there was none, the list holds the positions it has walked over
(`Listing`; `PagesJoin` adds a page); after one, it holds one more or one less than these. The order of the
lists is reasoned about through `AscendingCounts`: of a set of positions in ascending order, the i-th has i - 1
below it. `RootIsContents` and `PositionsAscend`, which is that such an order exists, are inductions;
`LeastNumber` is the induction principle they use, as a statement about sets of numbers.

`TraceFlushProofs` proves of `TraceFlush`: type correctness, `SessionsTellTheTruth`, `LossNeedsOverlap`,
`GapsNeedClearing`, `ConfirmedOnce`. `RecorderInv` adds `WhereItSays`: how far the session of a run is at each
of its stages; one lemma per SDK call (`*Step`) shows that a run keeps it, leaves the other runs alone
(`Others`) and takes nothing off the chain (`GoesOn`). For the buffer, `FlushInv` adds that it holds the last
calls captured (`BufferIsLatest`). `DumpsOK` says how far every dump is: it has written the beginning of its list,
without a poisoned call, unless that list was cleared under it (`cut`); then all that is buffered since is exposed,
and what it has written was captured before what it has left to go over. So a run is given its calls in order, and
consecutive ones unless it was cut (`RunsAreOrdered`, from which `GapsTakeAClear` follows); the calls a dump may
still write (`Listed`) stay known to the end. A run a flusher waits for has all of the buffer but the exposed calls
(`Dumped`: why clearing it loses nothing else), and a confirmed run shares nothing with the buffer (`Taken`) and
with a dump, an awaited run or another confirmed one only if both were under way at once (`Paired`: why a second
confirmation takes an overlap). `EmptiedLists` says what emptying the buffer does to the lists of the dumps.
`RunsImplementAuditLog` is the refinement: one lemma per SDK call says which step of the log it is, if it has an
effect (`*IsLog*`); that a call gets one outcome rests on `WhereItSays` too, for a run about to close its n-th call
has closed none but the n - 1 before it. All other steps leave the sessions alone.

`LocalRecordersProofs` proves the five invariants of `LocalRecorders`. `SavedTargetIsUsable` and
`OneAttemptAtATime` follow from `LocalInv`: unless the wallet was raced, every signer and every capability is
the saved wallet's (`OneWallet`); whoever is past `getClient` has a signer (`Signed`); what is saved or about to
be saved has its capability (`CapsMade`); a process remembers and awaits attempts of its own (`Own`); and what a
flush awaits has failed or is what its process remembers (`Remembers`). `LossHasCause` and `RecordedOnce` follow
from `LossInv`, which says for each kind of recorder where a call is between capture and chain: for Claude Code
(`ClaudeHas`) in the buffer, with a hook, with the summary, or in the one session, and the summary's calls are
never in the buffer once it has drained; for Codex (`CodexHas`) in the buffer or with the one CLI run its Stop
hook waits for, and whatever else holds it is unconfirmed; in a process (`MemoryHas`) in the buffer of one
context or with the one flush that took it. A step of a CLI run is the same lemma as in `RecorderProofs`;
flushes that only change their stage share one (`FlushesMove`).

`HostedOnboardingProofs` proves the five invariants of `HostedOnboarding`. `HostedInvariant` adds how far each
onboarding run is on chain (`FlowsOnChain`: the namespace of a run past its first transaction is its sender's, the
capability of one past its second too, whatever account is connected by then), that the login page's lookup and
namespace are those of the address it holds (`PageIsCurrent`), that a callback that is validated is counted once
(`CallbacksCounted`: why a page that says "paired" was settled with or beaten) and that what the CLI settled with
had been validated against the chain (`SettledIsValid`).

`SharingProofs` proves the four invariants of `Sharing`, from `SharingInv`: the invariant of the contract (`NsInv`,
since every step of `Sharing` takes at most one step of `Namespace`); the ledger lists each event once, in its
order, and no capability works that has a Revoked event in it (`LedgerOK`); a request has read all events of its
kind up to its cursor, and what it calls up to date had caught up when it began (`RequestsOK`); a built transaction
succeeds if it executes, because whatever could undo it makes its objects stale (`OpsOK`, `OthersSucceed`), and a
report is about an event on the ledger; what the page has reported was there before the request shown began
(`PanelOK`).

`DashboardProofs` proves the four invariants of `Dashboard`. Its parts share the open page only, so `DashInv` is
a conjunction of one invariant for each of them and of what the open page shows and why. *Controls*: an edit
that nobody raced has read what is still in the file, and one that failed has changed nothing (`ControlsInv`).
*Apps*: as long as no requests of two rows were under way at once there is at most one, and every row the page
can know of shows the file or is about to, because the answer of its request does (`AppsShown`). *Memories*:
what happens to a run of `add` and its calls one after the other (`MemoryInv`); the page has listed the memories
between the event it began at and the one it is to read next (`MemoriesShown`), which calls added meanwhile
cannot change, since the log only grows (`EventsGrow`); that positions can be listed newest first
(`PositionsDescend`) is an induction on the greatest one. *Recorders*: a request that was told `true` ended with
its memory stored, and one that awaits the client finds a promise (`RequestsInv`). *Content*: a read that failed
on a key has dropped it, and a second key was minted only because one was bad or a read had failed
(`ContentInv`). *Sessions*: a drawer's result is a verdict of the sessions it looked at (`SessionsShown`), the
badge is that of the walk (`TraceShown`), and polls that do not overlap come back in the order they were read
(`StreamShown`).

Assumptions: `KindArg` and `StatusArg` are byte values, version arguments are naturals, `NONE` is no call id and
no output, and no request or session object of a reader, page sizes, the length of the list of memories, the
calls of a session and the retries are positive, the bounds of `Recorder`, `TraceFlush`, `LocalRecorders`,
`SponsoredProvisioning` and `SessionPages` are naturals, the hosts are runtimes (`HostsAreRuntimes`), the
dashboard's server is one of the processes, tampered and attested sessions are sessions and some session is
attested in, there are finitely many namespace ids and names. TLC evaluates all of them. The hash is ideal by
construction of the model, not by an assumption: the proofs say nothing about collisions of SHA-256 or of the
undelimited concatenation.

Only model-checked: liveness (`SessionsGetSealed`), which is beyond the prover.

## 6. Not modelled

The emit functions of `events.move` are public; the models take them as called by `trace.move` only, as
the module's comment assigns them. Capabilities that are shared or wrapped in other objects. The transaction
of an upgrade (all objects of this version carry `VERSION`, only the registry can be bumped); what it does to
readers is in `VerifiersAgree`. Encoding, formatting, network presets and the ranking of search results.
`namespaces.ts`' `deactivate`, `reactivate`, `list`, `get` and `findByName`: the first two are the contract's
actions without further steps, the others single reads. The temporary file a tracer leaves behind when
dumping raises. Layout, navigation, replay animation and settings of the pages; landing page, docs, demos on
mock data, and the deployment scripts, which a person runs step by step; the Nautilus relayer is a stub.

The Codex hazard that Stop ends the capture although the host's session goes on has no property: such calls
are never captured, so the model does not know them.

## 7. Order of work

Written first: the contract and its proofs, then the verifiers, the recorder and the tracers; then local
recorders, login, sharing and the dashboard; then the proofs about the tracers, the local recorders, onboarding and
login, sharing, the verdicts, and the dashboard, and that the recorder implements the log. What is left: theorems
about `AuditLog` itself (a sealed log is frozen, an outcome is final), which both refinements would inherit; and a
liveness run of the login (every validated callback is answered).
