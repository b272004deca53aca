# dream_team in TLA+

dream_team runs a chart of 28 language-model agents over a ticketing web app.
Two programs write the same Postgres database: the Next.js app in `app/`, whose
server actions take a ticket through classification, specialist work, review
and recovery, and the governed runtime in `runtime/` (hosted by the Electron
shell in `desktop/`), which runs agents with tools under a grant matrix and
writes their trace, failure packets and artifacts. Neither uses transactions
that span two calls. What the product promises its readers is *evidence*: a
numbered trace per ticket, packets that name the event they belong to, statuses
that never run ahead of what is on record, agents that stay inside their grant.
This project says what those promises are, in which interleavings they hold,
and in which the code does not keep what a document says of it.

Paths below are relative to the repository root (`src/` in `PROJECT.json`).

## 1. Inventory

| component | state it keeps | operations | modules |
|---|---|---|---|
| Ticket server actions, `app/src/app/actions/orchestration.ts` | `tickets`, `trace_events`, `packets`, `artifacts`, `workflow_runs` rows | nine exported actions | `TicketLifecycle` |
| Calendar hold, `actions/connectors.ts` | an event at the provider, a trace row and a packet | `createCalendarHoldForTicket` | `TicketLifecycle` |
| Trace numbering, migrations 0001 and 0008 | `trace_events`, unique `(ticket_id, seq)` | append | `TraceLedger` |
| Governance, `runtime/src/gate/*`, `tools/registry.ts` | none: tables and pure functions | `gate`, `mayRoute`, `intersectGrants`, `toolsForRole` | `Governance` |
| Agent loop and spawn tree, `loop/run-loop.ts`, `tools/spawn.ts`, `index.ts` | loop frames, tree spend, approvals | turns, tool calls, spawn, four halts, exceptions | `RunTree` |
| Run persistence, `*/rpc-sink.ts`, `artifacts/*`, `db/client.ts`, `host/electron-adapter.ts`, migrations 0008/0011/0012 | pending sets, rows, stored objects, the IPC reply | append, RPC, upload, link, flush, reply | `RunSinks` |
| Ticket page, `app/src/app/w/[slug]/tickets/[ticketId]/page.tsx`, `components/tickets/*` | the rows of the last render | four selects, the buttons it offers, polling | `TicketPage` |
| Connectors: consent, callback, disconnect, refresh, hold, the runtime's tokens; migrations 0006, 0013 | `connectors` and `connector_tokens` rows, the nonce cookie | nine kinds of request | `Connectors` |
| Calendar ingest and automation rules, `actions/automations.ts`, `actions/connectors.ts` | tickets, marker rows, the rule's last result | `createAutomationRule`, `runAutomationRuleNow`, `createBriefFromCalendarEvent` | `CalendarIngest` |
| Workspaces, members, invites, `actions/invites.ts`, `actions/onboarding.ts`, migrations 0001-0004 | profile, workspace, membership and invite rows | sign-up, onboarding, create and accept an invite | `Membership`, `Members` |
| `write_file`, recorder and uploader, `tools/write-file.ts`, `artifacts/record.ts`, `artifacts/upload.ts`, `index.ts` | the files of a folder, the calls of a loop, what became of each artifact | open, write, stat, append, upload | `RunFiles` |
| Model client and provider | none | one answer, or a rejection | inside `RunTree`, `TicketLifecycle` |
| Tools of the runtime | none between calls | `execute` | inside `RunTree` (how it ends), `Connectors` (their token) |
| Desktop shell | key store, session, the run's inputs | `run:start` | inside `RunSinks`, approvals in `RunTree` |
| Confinement and shell, path resolution, auth, other pages, prompts and packaging | | | not modelled, see section 7 |

How they interact:

* A **server action** is a chain of separate Supabase calls: read the ticket and
  decide whether it is eligible; read what makes the action idempotent; read
  `max(seq)`; insert one, two or three events at the numbers computed from that
  read; insert the packet; update the ticket. Two tabs may be anywhere in two such
  chains. The unique index is the only thing that makes one of them fail, and
  what a failing chain has written stays.
* A **run** is started over IPC. `runLoop` awaits each tool, and the spawn tool
  awaits the child's whole `runLoop`, so a tree of agents is a stack. Every
  event, packet and artifact is handed to a sink that starts an RPC and does not
  wait. At the end of the loop three flushes collect what failed; the reply
  depends on them.
* The two meet in `trace_events`: the RPC numbers under an advisory lock that
  the server actions do not take.
* They meet again in `connector_tokens`: the web app refreshes a token and writes
  it back by connector id, the runtime reads it in one RPC and writes nothing;
  a consent or a disconnect of the same provider may run between any two calls.
* The **ticket page** reads the same rows in four selects and repeats, in its own
  words, the eligibility rules of the actions it offers.
* **Onboarding and invites** are two-call actions around functions of the database,
  each of which is one transaction and may wait for a row lock.

The hard behaviours, and what must hold in spite of them:

| behaviour | correctness |
|---|---|
| numbers computed from a stale read, several at once, refused half-way | the trace is 1, 2, 3, ... without gap or duplicate and only grows at the end |
| any action stops between two writes (refused, database error, dead server) | packets name an event of their kind; a status has its packet; a signature has its loop |
| every update of a ticket is unconditional | whoever writes last, the status is justified; an accepted verdict rests on an artifact |
| the tool surface, the gate, the chart and three counters overlap | effects are in the grant, chains follow the chart, every run ends |
| budget shared by a stack of loops, checked after the answer | once it is spent the tree only winds down |
| a render of four selects while actions write | a status is shown with its evidence, what is offered is accepted, an open page catches up |
| a connector row and its token row written by separate calls of three actors | connected means there is a token; a token used was linked; a hold goes to the account confirmed |
| check-then-create of a ticket for a calendar event | a marker on record is never overlooked, and lost only to work on its ticket |
| two people on one link, two forms of one person | one membership per invite, roles from whoever may grant them, nobody waits for ever |
| a file looked at four times while others write it | the row describes the object; exactly the successful writes are recorded |
| fire-and-forget writes racing the flush, three-step artifacts, lost answers | `ok` means durable; a path has its bytes; every request is answered |

Section 4 says which property states which; `PROJECT.json` lists each hazard at
its line.

## 2. The modules

### TicketLifecycle (and TicketProperties, TicketClaims)

One ticket. `ticket`, `trace`, `packets`, `artifacts`, `openRuns` are the rows,
`holds` counts events created at the calendar provider, `call[c]` are the locals
of the invocation in slot `c`: which action (`op`), which call is next (`at`),
and what it has read (`status`, `seq`, `link`, `ref`, `note`, `skip`). One
definition per exported action, named after it; each disjunct is one Supabase
call. The calls are instances of a few operators: `Begin` (read the ticket,
return unless eligible), `Guard` (an idempotence read), `ReadSeq`, `InsertEvent`
(which ends the action on a unique violation), `InsertPacket`, `UpdateTicket`.
Where the code ignores an error, that is an action of its own:
`IgnoreFailWriteError` (the catch block of the classification), `IgnoreQaReadError`
(four reads of the review), `IgnoreSeqReadError` (the calendar hold). `Fault` is
every other database error and the death of the server: the action is gone and
what it wrote stays.

Adjacent calls are one step only where no other action can tell: two reads of
rows that are only ever inserted, or a read next to the insert of a row nobody
reads. A `workflow_runs` row is modelled only while it is `running`.

Left out: sign-in and row-level security (a refused read is an early return),
packet texts, `layer` and `current_agent`, error codes of the model provider
(`"model_error"` stands for whichever it is).

A ticket created from the calendar is open to everybody before its creator has
put the marker of where it came from on its trace (`InsertMarker`): always at
number 1, without a read of `max(seq)`, and without looking at the error.
Whoever is first takes the number; every other insert comes after it, or fails.

### TraceLedger

The abstract specification of a ticket's trace, nine lines: a step appends one
row at the next number, or does nothing to the trace. Both writers are checked
against it by `INSTANCE TraceLedger WITH rows <- trace`, and both proved to
implement it: the server actions, for any number of them, and the runtime's RPCs with
a server action beside them, for any number of runs.

### Governance

The tiers, the grant matrix of all 28 roles, the routing chart, the tools with
their capability and tier, and `Gate`, `IntersectGrants`, `ChildGrant`: pure
operators, with `"none"` for an absent capability. A target is `"path"` for
anything that resolved and `"*"` otherwise, which is all the gate looks at.

### RunTree (and RunTreeProperties)

`stack` holds one frame per `runLoop` in progress: the role, its grant, `depth` and
`orchCount` as threaded by the spawn tool, `iteration`, and whether it waits for
the model, has tool calls `left`, or waits for a child. `treeSpend` is shared.
`Answer` is one `createMessage` with everything up to the next await: cost added,
budget compared, then `end_turn`, `max_tokens`, tool calls, or an exception on
anything else. `ModelRejects` is the rejection. `EndTurn` is the comparison with
the previous turn and the counter. `Blocked`, `Execute`, `RefuseSpawn` and `Spawn`
are `handleToolUse` by outcome. `Pop` is a loop returning to its parent, which is
told `ok` whatever the child's state was; `Throw` unwinds everything, as nothing
catches below the host.

Abstracted: messages and observations. Whether a turn repeats the one before is a
choice (never on the first). Money is counted in units; the code's $20, 15 turns
and depth 3 are constants. Blocked and refused calls are traced by the code as
well, which nothing here needs: `traced` holds what permitted calls left.

### RunSinks (and RunSinksProperties)

`phase[r]` is how far `startRun` is, `writes[r]` the calls it handed over, each with
its own progress on the server: an event is `sent`, `numbered` (holding the
ticket's lock, number taken), then inserted or refused; an artifact is `sent`,
has its `row`, its bytes are `stored`, then its path is set. `Answered` is where an
answer may be lost although the server did its part, `Reject` where nothing was
done. `Flush` waits for one kind and replies `run_failed` if any failed. The loop
is any sequence of hand-overs a loop can make; verdicts block and error are one
`"break"`. `WebReads` and `WebInserts` are a server action that reads `max(seq)` and
inserts later, without the lock.

### TicketPage (and TicketPageProperties)

Extends `TicketLifecycle` by one variable, `page`: the rows a render has read and the
select it is at. `Read` is one of the four selects, the `tickets` row first; `Poll` and
`Refresh` start over. What the page derives is one operator per constant of the
component, named after it (`CanRunQaTruth`, `ShouldPoll`, `Completion`, ...), applied to
the rows of a render or, as `Now`, to the database. `Offered` is the set of buttons.
Nothing is said of a render still reading: the browser shows the last complete one.

### Connectors and CalendarIngest (with CalendarProperties)

`connectors[p]` and `tokens[p]` are the rows of the four Google providers of one
workspace. A token is the account it opens; `fresh` is an expiry more than a minute
ahead. `request[r]` is a request in flight: what it is for (`op`), which call is next
(`at`) and what it has read. `Start`, `Exchange`, `StoreConnector` and `StoreToken` are the
consent, two upserts per granted provider in the code's order; `Disconnect` and
`WipeToken` the two calls of a disconnect; `LookupConnector`, `ReadRow`, `Refresh`, `Persist`
are `getConnectorAccessToken`, whichever page or action called it;
`ResolveGoogleToken` is the runtime's single statement. `raced` and `crossed` remember
that a consent met a disconnect half-way, or replaced a row that a request was using;
`linked` the accounts whose access or refresh token a connected provider's row held.
They are history: no action reads them.

`CalendarIngest` adds the tickets opened from events and the rule's `last_result`.
Number 1 of a new ticket's trace is `first`: nothing yet, the marker, or the event of
whoever worked on the ticket before the marker came.

### Members (and MemberProperties)

The four tables of migration 0001 and the functions of 0002 to 0004. A function is a
transaction that becomes visible when it ends, and a failed one leaves nothing.
`accept_invite` may wait twice, so it has three steps: `LockInvite` (the row lock, after
which it sees what the other transaction committed), `InsertMember` ("on conflict do
nothing", which waits for an uncommitted row of the same key), `MarkAccepted`. Expiry is
compared with the time the transaction *began*. Identifiers are random in the code
and the lowest free number here.

### Membership

The abstract specification of the above: who founded a workspace, the role of each user
in it, and for each invite its workspace, role and taker. A workspace is founded with its
owner, an owner or admin writes an invite, an invite is taken once, in one step, and a
member keeps the role they have. `Members` maps to it by `Creators`, `RolesHeld` and
`Offers`, which forget slugs, profiles, expiry, the inviter and everything about
requests; locking, inserting, expiring and failing are stutters.

### RunFiles (and RunFilesProperties)

The files of a folder with a `version` that counts changes, the `write_file` calls of the
loops that work in it, and for each call what became of its artifact.
`OpenOnce` empties the file, `WriteThroughHandle` writes from the start of it;
`StatWrite` and `EmitArtifact` are the recorder, which starts when the loop is done;
`AppendArtifact`, `ReadBytes` and `UploadObject` the sink, each record on its own.
`EditFile` is the user, on a file that no call holds open.

Operators named `..._Mut` in these modules are single bugs each property is known
to catch. Nothing in a specification uses them.

## 3. Runs

Each run takes between a second and two minutes with two workers.

| run | instance | checks |
|---|---|---|
| `ticket_all` | all eleven operations, two in flight, four begun, one fault; 1.4 M states | `TypeOK`, `GapFree`, `TraceIsLedger`, `EvidenceLinked`, `StatusHasEvidence`, `SignatureShowsLoop`, `ChainInOrder`, `AcceptedHasArtifact` |
| `ticket_returns` | three begun, fairness | `CallsReturn` |
| `ticket_page` | a page and two tabs, three actions begun, no fault, fairness; 582 k states | `StatusExplained`, `StripIsPrefix`, `OfferedIsAccepted`, `PageSettles` |
| `run_tree` | orchestrator, a coordinator, a specialist; spawn, `write_file`, `calendar_write`, an unknown tool; both approval sets; 143 k states | `TypeOK`, `ChainInChart`, `ExecutedInGrant`, `ExecutedIsTraced`, `BudgetWindsDown`, `LoopsAdvance`, `RunEnds` |
| `run_sinks` | two runs on one ticket, three writes, one web insert, one fault; 1.1 M states | `TypeOK`, `OnlyWebCollides`, `OkIsDurable`, `PathHasBytes`, `TraceIsLedger` |
| `run_replies` | one run, fairness | `RunReplies` |
| `calendar` | two accounts, all operations, two in flight, four begun, one fault, two tickets; 3.0 M states | `TypeOK`, `ConnectedHasToken`, `UsedWasLinked`, `ConfirmedAccountIsUsed`, `MarkersTell` |
| `members` | two people, two workspaces, two invites, two in flight, five begun, one fault, fairness; 389 k states | `TypeOK`, `SingleUse`, `RolesAreGranted`, `OnboardedLands`, `InvitesAreAtomic`, `RequestsReturn` |
| `run_files` | two loops on one file, two calls, three edits; 2.9 M states | `StoredAsRecorded`, `RecordsAreTheWrites` |
| `claim_*` | the smallest instance that shows it | one statement of the repository each, section 5 |

Why the bounds are enough to be interesting. Two invocations are what it takes
to collide on a number or a packet, and four begun reach the longest chain of
preconditions (classify, specialist, review, and one more beside any of them; or
request input, respond, and two others). The longest histories that need five
actions (a second review after a reopened ticket, say) are covered by the
theorems, which hold for any number. One fault is enough to leave any prefix of any action. In `run_tree` three turns
distinguish the cap from a repeat, two calls per answer let a call follow a
spawn, three layers is the height of the chart, and a free answer (`0` in
`Costs`) makes sure termination does not rest on the budget. In `run_sinks` three
writes are an event with its packet, or an event with its artifact, beside one of
another run. In `ticket_page` three actions take a ticket to its verdict; the injected
failure is left out, as a classification that fails leaves the same rows, and so
are the calendar writes, which change nothing the page derives anything from. In
`calendar` four requests are a connect, a use, and a disconnect or a second connect
beside it; the consent grants the scopes of two providers, so that the callback is
half-way between them. In `members` five requests are a workspace, two
invites and two acceptances of them, or two forms of one person and more. In
`run_files` the three contents are an empty one, one at the cap and one over it, and
three edits let the file change before the stat, before the read of the recorder
and before that of the uploader.

Symmetry is used between the two tabs and between the two runs, which are
interchangeable in every property of those runs; not under fairness, where a run
has one process or no symmetry set. `CHECK_DEADLOCK FALSE` is given where every
invocation has returned and the bound is spent; `run_tree` has an explicit step
for a finished run and is checked for deadlock.

## 4. What is checked

* Numbering. `GapFree`: 1, 2, 3, ..., no gap, no duplicate. `TraceIsLedger`: no step
  changes or removes a row. `OnlyWebCollides`: an event of a run is lost only
  to a fault or to a server action that took its number.
* Evidence. `EvidenceLinked`: a packet names an event of its own kind (only the
  catch block's may name none). `StatusHasEvidence`: the packet that explains the
  status is on record, a looped ticket's told apart from a failed one's by its
  failure type. `SignatureShowsLoop`: two iterations and the termination at
  consecutive numbers. `ChainInOrder`: routing after classification, specialist
  directly after routing, QA after specialist, verdict after QA.
  `AcceptedHasArtifact`: an accepted verdict follows an artifact packet.
  `CallsReturn`.
* The page. `StatusExplained`: a render that shows a status shows the packet for it.
  `StripIsPrefix`: no step of the progress strip is done before an earlier one.
  `OfferedIsAccepted`: the page's eligibility rules and the actions' are the same.
  `PageSettles`: an open page ends up showing the ticket, or its verdict.
* Connectors. `ConnectedHasToken`, `UsedWasLinked`: a call goes out with a token of an
  account the provider was connected to. `ConfirmedAccountIsUsed`: what the row
  shows, opens and refreshes is one account, and a hold is in the calendar of the one
  that was confirmed. `MarkersTell`: no second ticket for an event whose marker was
  there when the rule run began; a marker is lost only to work on its ticket.
* Members. `SingleUse`, `RolesAreGranted`, `OnboardedLands`, `RequestsReturn`.
  `InvitesAreAtomic`: all of it implements `Membership`; in one that does not wait for
  the uncommitted row of another link, a member's role would change.
* Governance. `ChainInChart`: agents at work are a path down the chart.
  `ExecutedInGrant`: nothing outside the role's row, nothing at T1 that was not approved. `ExecutedIsTraced`: no effect without event, spawns in progress
  and exceptions apart. `BudgetWindsDown`: past the hard stop every step shortens
  what is left. `LoopsAdvance`: every step ends the run or brings one loop further on
  without setting back those that wait for it. `RunEnds`.
* Persistence. `OkIsDurable`, `PathHasBytes`, `RunReplies`. `StoredAsRecorded`: row and
  object agree in length unless the file changed between the two reads, which the
  versions tell. `RecordsAreTheWrites`: nothing else is recorded than successful writes of
  loops that ended well, and all of them but empty or overwritten ones.

Fairness. *Server actions*: weak fairness on the steps of each invocation already
begun, since the platform runs a handler to its end, every database call returns
a row or an error, and the model call is aborted after 30 seconds; nobody has to begin
one. *Loop*: weak fairness on its step as a whole, since it awaits only promises that
settle. *Sinks*: weak fairness on each run's host steps and each call's service.
`RunReplies` takes from `RunEnds` that a loop ends; in the model the bound on
writes does it. *Page*: a render runs to its end, the interval of a visible tab
keeps firing, handlers as above; nobody has to press refresh. *Members*: weak
fairness on what the server and the database do for a request that is there,
since statements end and a lock that is released is granted; nobody has to send
a form. *Connectors* and *files* have no liveness property and no fairness.

## 5. Where the repository says otherwise

Each of these is a run TLC finds violated; the traces are short and each is a
legal history of the code.

| run | statement | what happens |
|---|---|---|
| `claim_verdict_follows_qa` | `docs/briefs/phase2_t4_qa_truth_evidence_report.md:109`, the verdict maps the QA result | a second review skips the QA half but uses a result of its own: a verdict contradicts the QA packet it names |
| `claim_hold_account` | `connectors.ts:298`, "verify the user confirmed against the correct account before issuing the write" | the account is checked on one read, the token is read anew: a consent with another account in between sends the hold to that one |
| `claim_reopened_runs` | `RecoveryActions.tsx:59`, reopening "hands back to orchestrator" | the classified event of before the failure makes Run Orchestrator return at once, for ever, while the page goes on offering it |

Differences met while reading that no run is spent on:

* `orchestration.ts:1425` says the specialist pass writes "atomically from the action's
  perspective"; its inserts are separate calls, and what was written before a
  refused one stays.
* `phase4_t5` report, line 98, "No transition out of `done`": a reopen that read `failed`
  before another tab finished the ticket sets it to open. Lines 85-86, a held ticket will
  "never acquire an unresolved question packet": a request for input that began
  before the loop files one afterwards.
* `docs/GOVERNANCE_SPEC.md:198`, "$20 / run (halt)": a child halts, its parent is told
  ok, runs the rest of its answer and pays for one more. `BudgetWindsDown` is what
  does hold.
* `docs/ADR-001-executable-core.md:380`, any exception becomes a failure packet: a
  rejected model call, or `mkdir` outside the `try` of `write_file`, ends the run
  without one.
* `contracts/trace-emitter-contract.md:48` and `:50`, the first break is the first row and
  routing is recorded before the handoff: events are numbered in the order they
  reach the lock, and the spawn's event follows the child's whole loop.
* `write-file.ts:52`, "every failure path ... writes nothing": the open has already emptied an
  earlier file when the re-check or the write fails.
* `record.ts:240-247` leaves it to the caller to surface a write that is not live;
  `recordWrites` ignores the result.
* `TicketAutoRefresh.tsx`, "full evidence chain recorded": polling stops at the verdict's event,
  which is written before its packet and before the status.

## 6. What is proved

TLAPS checks these for every value of the constants. Every safety invariant and every
action property of a passing run has a theorem.

**Tickets** (`TicketProofs`, `TicketEvidenceProofs`; any set of invocations, any number
begun, any number of faults; from `OpsAssumption` and `BoundsAssumption`).

1. `TypeCorrect`, `TraceIsGapFree`. `GapFree` is not inductive: an insert keeps it
   only because of what the number was computed from. The strengthening is
   `Ledger == TypeOK /\ GapFree /\ Reserved`, where `Reserved` says that every number
   below the one an invocation has in hand is on the trace. That holds when
   `max(seq)` is read, is kept because rows are never deleted, and makes an
   insert either a collision or an append at the end.
2. `EvidenceIsLinked`, from `Ledger` and `LinkKnown`: an invocation about to write a
   packet has in hand the number of an event whose type belongs to its operation
   and step.
3. `StatusIsJustified`, from `UpdateJustified`: the packet is on record before
   the update that needs it. `AcceptedIsBacked`, from the same: a review that will
   accept has seen the artifact's packet.
4. `ImplementsLedger == Spec => TraceIsLedger`: the refinement. By 1, a successful insert
   is at `Highest + 1`; every other step leaves the trace alone.
5. `SignatureIsEarned`, `ChainReadsInOrder`. The order of the chain is spread over calls:
   a specialist pass checks for the classification, reads `max(seq)`, inserts two
   events with a row of another table between them. `Chain` adds `InHand`, which says
   for each step of the three actions that write several rows which of them, or of
   other actions' rows, are on the trace and below the number in hand. It is kept by
   everybody else because rows are only added, and a number in hand is above
   every row that was there when it was computed.

**Ticket page** (`TicketPageProofs`; as above, and any interleaving with the page's
selects). `PageExplainsStatus`, `StripHasNoHole`: the invariant `PageInv` says after each
select what its rows hold *and* what the database held when they were read. From the
ticket's select on, `RowExplained` keeps in the database the evidence for the status
that was read, although the ticket may have moved on, so the later selects find it; from the
trace's select on, the chain that was read is closed downwards, by `Chain`.
`OfferedNotRefused` (an action property, for all operations but Run Orchestrator): an
invocation at its precondition read, while a page of that moment would offer it, is not
turned away: that read (`PreconditionReads`) asks what the page asks, in other words
(`SameQuestions`).

**Governance** (`RunTreeProofs`). `IntersectionNarrows`: what the gate permits
under an intersected grant it permits under the parent's and under the requested
role's, for any grants, targets and approvals. `MatrixTyped`, and
`OnlyDispatchersSpawn`: no specialist has `SPAWN`, so only dispatchers confer grants.

**Run tree** (`RunTreeProofs`; any root, roles, tools, caps and costs; from
`RolesAssumption`, `AskedAssumption`, `LimitsAssumption`). `RunTypeCorrect`,
`AgentsFollowChart`, `RoutingIsAcyclic`, `GrantsAreRespected`, `EntriesAreTraced`,
`SpentRunsWindDown`, `EveryStepAdvances`. The invariant is
`Sound == TypeOK /\ ChainInChart /\ InTurn`: `ChainInChart` says among other things that
a frame waits for a child exactly while one is above it, `InTurn` that a loop past its
model call had a turn left. Acyclicity is then arithmetic: every chart edge goes one
layer down, so no path has a fourth loop. `Ended` adds that the stack
is empty exactly when the run is over, which the tracing theorem needs.
`SpentRunsWindDown` adds up weights over the path: since it has at most three loops, the
sum is one of three terms (`RemainingSum`), and a step changes at most two neighbouring
ones (`Lighter`). `EveryStepAdvances` is the descent `RunEnds` rests on, in
lexicographic form: turns are capped, the calls of an answer are used up one by one,
and the path is bounded. That the order it goes down in is well-founded, and that
steps keep being taken, is not part of the theorem.

**Run persistence** (`RunSinksProofs`; any runs, writes, server actions and faults; from
`RunsAssumption`, that no run is named like the web app's rows, and `BoundsAssumption`).
`TypeCorrect`, `SinksImplementLedger == Spec => TraceIsLedger`, `LockKeepsRunsApart`,
`PathsHaveBytes`, `OkMeansDurable`. The invariant is `SinksInv`. `Numbered` and `Reserved` are the
tickets' argument again, for a transaction between its read and its insert and for a
server action between its own. `Locked` says one transaction at a time is there, hence
a number it took can only have been taken since by the web app (`TakenByWeb`). `OnRecord`
says of each write how far it is and what is in the tables by then; `Flushed` says which
kinds a run has waited for, so that a reply of `ok` is one after all of them were `done`.

**Members** (`MemberProofs`; any people, workspaces, invites, requests and bounds; from
`MembersAssumption`). `MembersTypeCorrect`, `InvitesAreSingleUse`, `RolesComeFromGrants`,
`OnboardedHaveAHome`. A transaction writes what it decided when it read, so
the invariant is `IInv == TypeOK /\ RowsAreSound /\ InFlight`. `RowsAreSound` adds to the
properties that a workspace not created yet has no members and that an invite's author
is an owner or admin. `InFlight` says what each request may rely on
(`Ready`: an invite it holds is not accepted, a member it inserted is not there yet)
and what two of them never do at once (`Apart`: hold one invite, insert one member);
the row lock and the unique conflict are what keeps `Apart`.

`AcceptIsAtomic == Spec => InvitesAreAtomic` is the refinement. The step that counts is
the commit, `MarkAccepted`, and it must do what `Take` does in *its* state, while the
code decided on an earlier one. `InFlight` covers the half of that where the taker was
not a member yet (nobody else may insert the row); `Counted` the other half: a request
past its insert that did not add a row found a member, and still does, since no step
takes a membership away.

**Files of a run** (`RunFilesProofs`; any loops, paths, sizes, cap, number of writes and
edits; from `RunFilesAssumption`). `RunFilesTypeCorrect`, `ObjectsAgreeWithRows`,
`RecordsMatchWrites`. Versions only grow, so two looks that saw one version saw one
content. The invariant has for each call what it knows of its file (`Sound`: the
version it wrote, saw and read, in this order, and the sizes that go with them), and
where it may stand given how far its loop is (`Placed`, `LoopSound`).

**Connectors and calendar tickets** (`CalendarProofs`; any accounts, consents, events,
requests, tickets and bounds; from `ConnectorsAssumption`). `CalendarTypeCorrect`,
`ConnectedRowsHaveTokens`, `UsedTokensWereLinked`, `HoldsGoWhereConfirmed`,
`MarkersTellOrigins`. None of the properties is inductive, since a request acts on rows
it read some calls ago. The invariant is `IInv == TypeOK /\ RowsSound /\ TicketsSound`
and, for each request, `RequestSound`: the account of a token it has in hand has been
linked to the provider, and, as long as no consent has crossed it, is the one it
confirmed and still the row's (`UseSound`, `RowStands`); a consent between its two calls
has left the provider connected, a disconnect not (`ConsentSound`); the markers it
has seen are of other events than the one it is about to open a ticket for (`KnownSound`).

Only model-checked: the liveness properties, `CallsReturn`, `RunEnds`, `RunReplies`,
`PageSettles`, `RequestsReturn`. Liveness under fairness and `ENABLED` are beyond the
prover, and so is induction over data.

## 7. Not modelled

* Confinement and the shell tool: wrappers around child processes and docker with
  no state between calls. Auth: thin calls of Supabase Auth. The pages other than
  the ticket's: one or two selects, rendered, without a rule of their own. The
  desktop renderer: what a form submits. Prompts, contracts, distributions and
  packaging: prose, and scripts that bundle it.
* Path resolution of `write_file`: links and containment are one refusal that may or
  may not happen. A link swapped between the resolution and the open is not
  modelled.
* The OAuth protocol, the encryption of tokens and the signature of the state: an
  account is what its token opens, and a callback whose state does not verify
  is refused.
* Row-level security policies: a denied row is an early return, except where a
  policy is what a property is about (who reads a workspace, in `Members`).
* Removing a member, an invite or a workspace: the code has no such operation.
* Contents of packets, messages and files, prices, prompts and wording.

## 8. Plan

1. Done: the modules of section 2 and the proofs of section 6.
2. Done: a theorem for every safety invariant and action property of a passing run.
   Left: measures like that of `EveryStepAdvances` behind the other liveness properties
   (an invocation of a server action only goes forward in its chain of calls, a
   render in its selects, a run in its flushes).
3. Abstract specifications: a token vault for `Connectors` (one account, one token, or
   none), and for `RunSinks` a run whose reply and evidence change in one step.
4. Path resolution of `write_file` against a folder whose links change, and the
   confinement of shell commands to it.
