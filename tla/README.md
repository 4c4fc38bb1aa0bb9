# Verification of the spectrum-connect backend

TLA+ modules, TLC configurations and TLAPS proofs for the NestJS backend under `src/`. They cover the
predictive dialer (the loops that take leads from the queue and originate calls, the event handlers
that carry a call from there to its end, transfers by DTMF), the SIP debugger's packet handlers, the
IVR trees of the system manager, the CRM's tables, the back office (accounts, settings, recordings,
SIP providers, the board of agents online) and the billing of SMS. Source lines below are those of
`src/src/dialer/dialer.service.ts` unless a file is named; files are under `src/src/`.

## 1. The system

A Node process serves REST and socket.io, keeps its records in Postgres (Prisma), and drives an
Asterisk PBX through ARI (channels, bridges, events) and AMI (endpoint queries). Everything that is
hard happens because one Node process interleaves many handlers: a handler gives up the processor at
every `await`, and what it read before may be stale when it goes on. No sequence of queries that writes
is in a transaction but one, the charge of a delivery report, whose default isolation (read committed)
does not protect the balance it has read; files are written between queries.

| Component | State | Operations | Works with | What makes it correct | Module |
| --- | --- | --- | --- | --- | --- |
| Dialing loops (`DialerService`) | `agentRunning`, `agentTimers`; `isInPredictiveDialer` | `startAgentDial`, `stopAgentDial`, `blastDial` | lead queue, settings, AMI query, hold queue, ARI originate | a running agent has a loop, a stopped one drains, no loop dials a lead twice | `BlastLoop` |
| Lead queue (`nextLead`) | `cRMLeads.locked`, `isContacted` | find the oldest, lock it | loops; marked by `onChannelDestroyed` and CRM users | oldest first, each lead to one caller | `LeadQueue`, `BlastLoop` |
| Endpoint query (`findAllFreeAgent`) | listeners on the AMI connection | ask for the endpoints, count, end | loops, Asterisk | free agents are counted once | `BlastLoop` |
| Predictive call (`DialerService`) | `channelToMeta`, `holdQueue`, `onHoldTimers`; call log, lead and agent rows; channels and bridge | `onStasisStart`, `onChannelStateChange`, `onChannelDestroyed`, the hold timer | ARI events, agent status, loops | legs end together, records tell what happened, nobody waits for ever | `CallLifecycle`, `LeadLedger` |
| DTMF, blind transfer | `pendingTransfers`, `lastDtmf` | `onDtmfReceived`, `handleBlindTransfer` | the legs of a call | the keyed extension is the one reached, the agent is freed | `BlindTransfer` |
| Agents, users, subscriptions, voicemail | rows; `pjsip-agent.conf` | register; create, update, remove; `syncNewMail` | PJSIP file, call handlers | quota is kept, a section has its rows, one row per mail | `AgentAccounts` |
| Call logs, authentication | call log rows | create, list; login | agent status (both reset it to AVAILABLE) | the agent is returned after the call | `CallLifecycle` |
| CRM (leads, appointments, statuses, services, members) | rows | CRUD, default status | lead queue | one default status per company, no orphaned appointment | `AppointmentBook` |
| System manager: IVR trees | rows, `extensions_custom.conf` | save, update, delete | AMI reload | rows and dialplan agree, sections share no key | `IvrTrees` |
| System manager: IVR files | rows, `public/sounds` | upload and convert, delete | ffmpeg | a row has its own sound | `SoundFiles` |
| System manager: settings, SIP endpoints, DIDs, extensions | rows | save, create, delete | loops (settings) | one settings row per company | `CompanySettings` |
| Presence gateway (`WsGatewayGateway`) | `agents`, `socketToAgent`, rooms | connect, status, disconnect, 10-second broadcast | frontends, dialer (emit) | an agent is listed while he is connected, consoles show the list | `PresenceBoard` |
| SIP debugger | session and message rows; chats bound to companies | HEP packets, `sendToCompany`, bind | Telegram, sockets | one session per call id, every chat is told | `SipTrace` |
| SMS, SMPP | SMS logs, balances, two queues | send, submit, delivery report | BullMQ, message centre | a message is billed once; inert at this commit (`app.module.ts` 60, 71) | `SmsBilling` |
| SIP providers, companies, RTP addresses | rows; `pjsip-provider.conf` | update, remove; create, update, remove | PJSIP file, `scripts/addUser.js` | a trunk in the file has its rows, who names a provider finds it | `SipTrunks` |
| Parked calls; infrastructure | rows; none | list; adapters | | | none, section 6 |

What is hard to test is listed with its line under `hazards` in `PROJECT.json`: handlers of two legs
of a call in any order, statuses read before an await and written after it, events that overtake
each other, timers that cannot be cleared any more, look-ups and writes in separate queries, AMI
events without a request id, files written before or after their rows, reports that arrive early or
twice, early returns that must re-arm a loop, restarts that lose memory and keep locks.

## 2. Conventions of the modules

* **Steps.** An action is the code between two awaits together with the database or ARI call that
  ends it; the call takes effect when it is issued. A result that is used after the await is kept in
  a variable (`company`, `freeAgents`, `picked`, `seen`; `lead`, `left`; `request`), so it may be stale.
  A query that only reads and whose answer no later step uses is no step.
* **Several events.** The StasisStart and Up events of an answered channel may be handled in either
  order, and each handler may overlap any other; a ChannelDestroyed is handled after both have begun.
  An originated channel that is not answered has no StasisStart. A hangup over ARI reaches a channel
  that lives.
* **Failures.** A query or file operation that the database or the disk may refuse has an action for
  that (`...Rejected`, `...Fails`), which ends the request and leaves its earlier steps done. The end of
  the process (`Restart`, `Die`, `Crash`) loses the memory and keeps rows, files and queues.
* **Data.** A phone number, an id or a name is a model value; a meta is the agent it names (its call
  and role are the index). Logging, socket events and music on hold change no state and are left out,
  but for the events of the presence gateway, whose consoles are part of the model.
* **History** variables (`dials`, `changed`, `madeDefaultBy`, `counted`, `unlinked`, ...) are read by no guard.
* **`Bad...` operators** stand before the definition they get wrong. They are no part of a
  specification: each shows, by a mutant in `PROJECT.json`, that a property depends on the code.

## 3. The modules

### CallLifecycle

One call per element of `Calls` with two legs, `Customer(c)` and `AgentLeg(c)`. `chan` and `bridged`
are Asterisk's state, `callLog`, `crmLead`, `agentStatus` the database, `channelToMeta`, `holdQueue`,
`holdTimer` the memory of `DialerService`; `startPc`, `upPc`, `endPc` are the places of the handlers.

| Handler | Actions |
| --- | --- |
| `blastDial` 470-509 | `Originate`, `OriginateRefused`, `OriginateRefusedLead` (its error callback makes two updates) |
| `onStasisStart` 535-628 | `StasisStart`, then for a customer `StartFindCompany`, `StartHold` |
| `onChannelStateChange` 631-758, customer | `FindFreeAgents`, then `NoFreeAgent`, or `PickAgent`, `LinkAgent`, and `CallAgent` or `AgentVanished` |
| the same, agent | `FindCustomer`, then `Join` or `JoinRejected`, `Connected`, `AgentBusy` |
| `setHoldTimeout` 308-328 | `HoldTimeout`, `HoldDrop`, `HoldRelease` |
| `onChannelDestroyed` 765-901 | `Destroyed`, `CloseLog`, `MarkLead` (customer), `HangUpPair`, `Forget` |
| `call-log.service.ts` 30, `auth.service.ts` 56, `startAgentDial` 128 | `AgentReturns` |
| Asterisk and the parties | `Answer`, `End`, `AgentRefused` |

`VarsExposed` says whether `ari.conf` (which is not in the repository) copies `CALLLOG_ID` into
`channelvars`. When it does not, `onStasisStart` works for the customer on a call log of its own
(550-563): `Logs` has a `"stray"` row per call for it.

`LeadLedger` is what the CRM may expect of all that, without handlers, channels or call logs: leads are
dialed, talked to, and have calls that end; a record is closed only after a call to its lead has ended, and for
good, and says "Answered" only of a lead that an agent was joined with; a refused originate is noted
and closes nothing. `CallLifecycle` implements it (`LedgerKept`) with `dialed`, `talked` and `ended` read off
`leadOf`, `bridged` and `chan`, and `record <- crmLead`. Several calls may share a lead, which is what finding
2 lets happen.

`addChannel` is rejected when a leg is gone or has left the application (a transferred customer), and
may be rejected when a leg's StasisStart has not been handled yet; otherwise it joins. `AgentVanished`
is an agent row that the pick does not find any more; no request of this commit deletes one
(`AgentAccounts`), a hand on the database may.

### BlindTransfer

Extends CallLifecycle by the keys of both parties. `Press` is `onDtmfReceived` (904-961): a key equal
to the leg's last one is taken for a duplicate, `#` opens a transfer (`handleBlindTransfer`, 963-990),
digits of either leg are appended, and a second `#` ends it: its handler (`finishing`, one per key)
sends the customer to the extension (or `'200'`), hangs up the agent and deletes the pending transfer,
with everything else in between. `CallStep` is any step of CallLifecycle; the first thing
`onChannelDestroyed` does is to delete the pending transfer (780), and a customer in the dialplan can be
in no bridge any more.
`Lifecycle` says that nothing else changes in a call.

### BlastLoop and LeadQueue

`BlastLoop` is one company's dialing loops. Each start request is a loop (`Loops` bounds their
number); nothing keeps an agent from having several. `StartRequest`, `StartRefused`, `StartFlag`,
`StartRunning` are `startAgentDial` 83-136; `Stop`, `StopFlag` are `stopAgentDial` 155-212 (its
lookups may throw after the memory is changed); the other loop actions are `blastDial` 397-519 with
every early return, and `FindLead`, `LockLead` the two queries of `nextLead`
(`customer-crm/customer-crm.service.ts` 67-82). Only the timer of a completed blast is recorded in
`agentTimers`; a loop that waits on it is `"resting"`, on any other timer `"sleeping"`. `Restart` loses
the memory and keeps the database.

`findAllFreeAgent` (`agent/agent.service.ts` 43-73) asks for a list over the one AMI connection and
counts what it hears until a list ends. The events carry no request id, so Asterisk's side is only the
number of `lists` asked for and not ended, and how much of the current one is sent (`listed`);
`found` counts for every query that listens, and the end of a list ends them all. The look-up of the
available agents and the request for the list are one step, and the continuation of the query
runs in the microtask of the list's end. `ConnectionLost` drops what is owed; the client library
(external) reconnects and holds actions meanwhile, so a query is never refused, but one that has lost
its list (`cutOff`) waits until a list that another asks for ends. Whether an endpoint is a free
agent, the settings and the held calls are free choices.

Between any two queries of a loop a lead may be marked: `LeadContacted` when a call to it ends, and
`UpdateLead` when a user of the CRM sets or clears `isContacted` (`customer-crm.service.ts` 224-227), which
needs no lock; the leads that exist when the loops begin may be created marked already (86-132). A loop
between `findFirst` and `update` does not see it; `changed` is history and says what each has missed.

`LeadQueue` is what callers of `nextLead` rely on, without loops, calls or timers: a caller looks and then
takes a lead, for ever; at that moment no lead that waits is older, and this one waits too unless another
caller has taken it, but for leads put aside or back since he looked. `BlastLoop`
implements it with `taken <- locked`, `aside <- contacted`, `looking <-` the loops at `"locking"` and
`missed <- changed` (`HandedOutInOrder`).

`LeadContacted` is the effect on the lead of a call that CallLifecycle describes in full
(`MarkLead`), and `AgentReturns` there is the status that `StartRunning`'s code resets: these are the
two joints of the components (section 7).

### AppointmentBook

The tables of `CustomerCrmService` and `CompanyMembersService` with the foreign keys of the schema
(`prisma/schema.prisma`, as far as these services meet them: a refused delete, a reference set to null).
`createStatus`, `updateStatus` and `deleteStatus` (`customer-crm/customer-crm.service.ts` 234-285) are
several queries each: `ClearToCreate` and `CreateDefault`, `ClearToUpdate` and `MakeDefault`,
`FindDefault`, `CountAppointments`, `MoveAppointments` and `DeleteStatus`. Other requests are one query.
`madeDefaultBy` and `chosen` are history: which client made a status the default, and which status a
user gave an appointment.

### BackOffice: AgentAccounts, CompanySettings, SoundFiles, SipTrunks, PresenceBoard

`BackOffice` composes five parts that run in one process and share clients, agents and companies: it
EXTENDS `AgentAccounts`, instantiates the other four, counts the requests that are taken up
(`MaxRequests`), and ends the process for all of them at once (`Restart`).

* `AgentAccounts`: `AgentService.create` counts the company's agents and compares them with the
  subscription long before its inserts (`agent/agent.service.ts` 86-180); the section of
  `pjsip-agent.conf` comes last. `remove` (224-237) deletes the configuration, then the agent; the call
  that would erase the section is a comment. Its last query is always refused: an agent who gets that
  far had a configuration, hence an AgentInformation row, whose foreign key keeps him. A user's section
  is appended by `register` without waiting (`appending`), and stays when the user is removed.
  `syncNewMail` (`voicemail/voicemail.service.ts` 12-50) looks up and creates file by file; `copies`
  counts rows by the client that created them. The agents are counted in the company of the user who asks
  and inserted into the one the body names (131): `counted` is history, and `SentTo(c)` are the agents of `c`
  whose request had counted another. `updatePassword` stores what it is given, not a hash.
* `CompanySettings`: `saveUserSettings` finds and then updates or creates
  (`system-manager/system-manager.service.ts` 688-719); endpoints, DIDs and extensions with their foreign
  keys. `updateExtension` and `removeExtension` (666-675) have no action: they look the extension's id up
  among the SIP endpoints and answer 404.
* `SoundFiles` (458-563 of the same file): `saveIVRFiles` starts ffmpeg on the uploaded file, names the
  output after the file on the user's disk, and writes the row when ffmpeg has ended; `deleteIVRFile`
  unlinks the sound, then deletes the row. ffmpeg truncates its output when it opens it (`OpenOutput`), and
  a conversion that fails leaves the upload and what it wrote. `sound` is whose recordings a file holds.
* `SipTrunks`: `SIPProviderService.update` writes the provider's row, upserts its configuration and
  replaces its sections of `pjsip-provider.conf` (`sip-provider/sip-provider.service.ts` 65-110;
  `replaceProviderInPJSIPFile`, `utils/pjsip-writer.ts` 74-126): `UpdateProvider`, `UpsertConfig`,
  `ReplaceProvider`, and `UpdateFails` between them. `remove` is refused while a configuration, a company
  or an address refers to the provider. There is no `create`: Prisma refuses it (section 6), and
  `AddProvider` is `scripts/addUser.js`. Providers have different section names, and `Tenants` are the companies
  that no user, agent or lead refers to, hence those that can be removed.
* `PresenceBoard`: every handler of `WsGatewayGateway` runs without an await, so it is one step. A
  console is modelled by what the events sent to it say (`shown`). An agent's company is fixed.

### SmsBilling

The SMPP path: `sendSMPPSms` checks the sender's subscription, creates a pending row and queues a job
per number; the one worker of `smppQueue` (`SMPPSmsConsumer`) submits and creates the row of the answer;
the message centre answers, or not, and reports; the workers of `dlrQueue` (`DLRConsumer`, one per
module that provides it) look the row up, update it, and charge a user of the company by writing a
balance read before. `Crash` ends the process; BullMQ runs an active job again, once. No job has
`attempts`, so one that throws is over, and a submit that is never answered blocks the worker. The unit
of money is the 0.05 that a message costs.

### SipTrace and FindOrCreate

One handler per HEP packet (`debugger/sip/sip-listener/sip-listener.service.ts` 24-171). `FindSession`,
`CreateSession` and `RefindSession` are the three queries of `findOrCreateSession`
(`sip-session.service.ts` 35-68), whose insert the unique index on `callId` refuses to all but the first;
`SaveMessage` is the row of the message; `FindDid`, `FindChats` and one `AlertOne` per chat are the alert
(`utils/telegram/telegram.service.ts` 103-170). A BYE is alerted but never stored; packets without a
correlation id all have the id `'no-id'` and so one session. `DatabaseFails` is the catch at 168:
nothing is retried. `Bind` is the owner's bind command. `steady` is history: the chats bound to the
packet's company ever since its handler began.

`FindOrCreate` is what a caller relies on: one atomic step. `SipTrace` implements it with
`row <- sipSession`, `got <- session` (`SessionsAreAtomic`).

### IvrTrees

`saveIVRTree` and `deleteIVRTree` (`system-manager/system-manager.service.ts` 195-251, 437-455) over the
rows, and the sections of `extensions_custom.conf` that `dialplan-manager.ts` appends and erases. A
section is a name and a tree; `twice` are those that stand in the file more than once. `Handwritten` are
sections an administrator put there. The file work is synchronous, so it is one step with the code around
it: `Save` is `saveIvrDialplan` with every check it makes, `UpdateSections` and `DeleteSections` are `Erase`.
Lookup, file and row are separate steps, and so are those of other requests in between.

A tree is whether it is valid, its keys as they are read back from the file (`Exts`), and those of them that
`findConflicts` can find there (`Checked`): it compares with `===`, and nothing keeps a request from giving
a key as a number, which equals no string. `deleteIVRTree` (`dialplan-manager.ts` 216-231) makes a regular
expression of the name as it is, so `Erases` says for each name the headers that it matches, or that it is
no regular expression and throws: `Sales (EU)` erases `[Sales EU]` and not its own section.

`saveIVRTree` is not awaited by the controller (`system-manager.controller.ts` 176) and nothing handles
unhandled rejections, so each of its refusals is `Die`: the process ends, and with it all requests where
they are. `DeleteDies` is the one rejection of a delete that is not awaited either. `disturbed` is
history: the names two of whose requests overlapped, one of whose requests died, or of which an erasure
took a section that was another's or left one that was its own (`Mistaken`).

## 4. What TLC checks

| Run | Instance | Shows |
| --- | --- | --- |
| `call_safety` | one call, two agents of two companies, one lead, variables exposed; 96,710 states | the safety properties of a call, over all interleavings of all handlers |
| `call_liveness` | the same with variables not exposed, `FairSpec`; 51,198 states | the three liveness properties, with the stray call log |
| `answered_lead` | as `call_safety`, with the history `talked` of the calls that were in conversation (`MCAnsweredLead`) | **violation**, finding 1 |
| `transfer` | one call from the moment both legs are known, talking or ringing, two digits and `#`, four keys; 994,132 states | the properties of a transfer, and that the call goes on as CallLifecycle says |
| `blast` | two loops, one agent, two leads that users mark at any time, blasts of up to 2, one endpoint, two lists owed, one loss of the AMI connection, `FairSpec`; 935,460 states | invariants, refinement and draining |
| `lead_grabbed` | two loops, two agents, two leads | **violation**, finding 2 |
| `crm` | two clients of two companies, two statuses, one appointment, lead, member and service; 958,220 states | the three invariants of the tables |
| `accounts` | two clients, two users, two companies, three agents, quota 1, two uploads of one name, two SIP providers, a company and an address that name them, two sockets, two consoles; four requests of one part, three of any two; 196,252 states | the invariants of the back office |
| `sms` | one user, two jobs (one without a session), two message ids, two reports, two workers, one crash; 2,048,898 states | the billing |
| `sip_trace` | four packets (INVITE, ringing and BYE of one call, a message of another), two companies, two chats; 873,501 states | invariants and refinement |
| `ivr_trees` | two requests, three names (one matches itself as a pattern, one another, one is no pattern), two valid trees with the same key (a string, a number) and an invalid one, a handwritten section, two rows; 1,009,262 states | the invariants |
| `conflicting_tree` | as `ivr_trees` | **violation**, finding 3 |

**A call**: `NoFalseAnswer` (what is recorded as a conversation was one), `AttributedToLinkedAgent` (the row
stays with the linked agent through all later writes), `LedgerKept` and `EndedLeadIsClosed` (the refinement
of LeadLedger: a lead is closed only after its call ended, and it always is), `KnownUntilForgotten` (a leg
has its meta until its own clean-up), `NobodyLeftAlone` and `PairEndsTogether` (a bridged party never
outlives the clean-up of the other), `WaitingIsTimed` and `AnsweredIsResolved` (a waiting customer has a
timer that ends the wait).

**A transfer**: `ExtensionAsKeyed` (a customer goes where the keys of both legs say: to the digits
between a `#` and a later one, a repeated key counting at its odd presses;
the definition reads the history of keys, not the handlers' state),
`SentFreesAgent`, `PendingHasLiveLeg` (no entry of `pendingTransfers` outlives the call), `Lifecycle`
(the refinement of CallLifecycle).

**The loops**: `LoopNeverRedials`, `HandedOutInOrder` (the refinement of LeadQueue: no lead that stayed open
is passed over, whatever is marked meanwhile), `AgentsCountedOnce` (overlapping endpoint
queries; a query that lost its connection may count twice), `RunningHasLoop` (up to callLimit, which
really ends a loop, and a query cut off), `StoppedDrains` (agent by agent).

**The CRM**: `OneDefaultPerClient` (what is left of "only one default": two defaults come from two
clients), `NoOrphan`, `ChosenOrDefault` (`deleteStatus` moves an appointment only to a status that has been
the default).

**The back office**: `QuotaOvershoot` (a company exceeds the highest quota by fewer agents than there
are clients, and by as many more as requests put into it that had counted another company, which the
code does not bound; that it exceeds it at all is reachable), `FilesMatchRows` (a section in `pjsip-agent.conf`
or `pjsip-provider.conf` has its rows, and a provider that a company or an address names is there;
a recording's row has its own sound unless a delete unlinked it or an upload of its name was
converted), `NoDuplicateFromOneClient` (two settings rows of a company, or two rows of a voicemail,
come from two clients), `BoardFollowsSockets` (the two ways, and no others, in which the map of agents
and the sockets come apart: a second socket of an agent that disconnects, a socket taken over by another
agent), `ConsoleShowsBoard`.

**SMS**: `BilledForReports` (a number is submitted and a report charged at most once per run of its job;
a charge follows a DELIVERED report of a stored message; no balance is lower than the charges explain,
unless it was set while a charge was under way).

**The SIP debugger**: `OneSessionPerCall` (messages share a session exactly when they share the call,
and a handler whose insert is refused finds the row that refused it), `EveryChatIsTried` (one failing
chat or a rebinding does not keep the others from being told, and an INVITE is stored before it is
alerted), `SessionsAreAtomic`.

**IVR trees**: `SectionsShareNoKey` (no two sections of a name share a key that both trees give as a string,
and none of them stands in the file twice, whatever overlaps or dies and whatever an erasure misses; a key that
one tree repeats within its section, 90-98 and 121-145 of `dialplan-manager.ts`, and one given as a number
are written twice by the code, and the property does not deny it),
`RowsAndFileAgree` (the file has exactly the section of the row, once, for every name that is not disturbed and
whatever happens to others; for a disturbed name it is false in the code).

Several of these are weaker than what one would wish, because the code does not give more: the wish
fails in the model, and the property says how far it holds.

**Bounds.** One call has two legs, up to nine handler activations and two timers in flight: the races the
safety properties are about are within one call, since handlers of different calls share only `agentStatus`,
and `AgentReturns` and the initial states (each agent available or offline) give the shared status every
value another call could give it except RINGING and BUSY of an agent who is then not picked. Two agents let
the dialed and the linked agent differ and be of different companies. Four keys are a transfer with a digit
and a key more; the run starts from two reachable moments of a call, since what comes before has no key. Two
loops and two leads are the smallest instance with a race in `nextLead` and with an order to get wrong;
blasts of 2 distinguish the last iteration from the others; with one endpoint a query reaches 2 when it has
heard the lists of two connections, which is as far as the clamp at `MaxBlast` (5 in the code) is met (the
theorems have any number of endpoints; with two, liveness takes longer than a run should), and two lists at
once are two queries that hear each other. Two statuses, clients and companies are what two defaults need.
Four requests of the back office are the two creates that pass a quota of one, a subscription and a user
that change meanwhile; two uploads of one name, a delete and its neighbour; two providers, one updated by
both clients and removed meanwhile; or two sockets of an agent and a console. Four requests go to one part,
and three to any two of them (`MCNext`): no part reads another's rows, and only the clients and the end of
the process are common to them. The run starts where a user with a subscription exists: `MCInit`, three
requests later than `Init`. Two jobs of `smppQueue` are one of each route; two reports and two workers are
what overlapping charges need. Three packets of one call are two that race for its session and one that does
not need it, the fourth shows that sessions are not mixed up; two chats are a failing one and one after it.
Two IVR requests are enough for an overlap on one name or on two; two rows are a name beside another that
its pattern matches, or one taken, freed and taken again. The proofs remove these bounds for the safety
properties.

**Symmetry** is used in `accounts`, `sms` and `ivr_trees`, for invariants only.

**Fairness.** `WF_vars(Handler(c))`, `WF_vars(LoopStep(x))` and `WF_vars(ListStep)`: Node runs every
continuation that is ready, database and ARI calls are answered, timers fire, and Asterisk finishes the
lists it was asked for. Nothing is assumed of the parties, of Asterisk's other events or of users: a
phone may ring and a call last for ever, an agent may never come back, and the AMI connection may be lost.
`StoppedDrains` has a premise for each agent, that from some point on he is not running; a start request that
is refused or under way is no loop yet, and one that waits for a lost list is not counted.

**Deadlock** is off for CallLifecycle, BlindTransfer, AppointmentBook, BackOffice and SmsBilling, where
every call may have ended, every id be used or every request be made, and on for BlastLoop. It is on for
SipTrace and IvrTrees too, where it says little: a chat can always be bound again, and the process can
always end.

### Findings

1. `answered_lead`. The comment at 804 says "lead DID answer at some point, then hung up" of the
   branch that records `"Answered"`. When the agent hangs up first, his ChannelDestroyed takes that
   branch, has no lead to mark, and hangs up the customer; the customer's ChannelDestroyed then reads
   `HUNGUP`, takes the fallback (828) and records NO_ANSWER and "No Answer" for a lead that talked.
   The property speaks of calls in undisturbed conversation: CONNECTED is written, both legs are up, the
   handlers of the start are done and no hold timer is pending. That leaves out three rarer ways to
   the same record: the customer leaves between the join and the write of CONNECTED (728-735), and his own
   ChannelDestroyed reads RINGING (795); a late StasisStart overwrites CONNECTED with RINGING (585); and a hold
   timer that `onStasisStart` arms after the join (618) fires during the conversation.
2. `lead_grabbed`. The comment at `customer-crm.service.ts:75` says "Soft lock the lead so no one else
   grabs it". Two loops whose `nextLead` calls overlap both read the lead before either locks it.
3. `conflicting_tree`. "Conflicts detected in extensions.conf! Fix them before saving"
   (`dialplan-manager.ts:202`) is raised after the row was written (`system-manager.service.ts` 236 and
   214): the tree is saved without a dialplan, its name is taken, and the user is told it succeeded.

Met while modelling, and not made runs, since they are about code that is not wired or that a reader
sees at the line: `dlr.processor.ts:72` and `smpp.processor.ts:150` say "Let BullMQ retry", but no job is
added with `attempts`; `dlr.processor.ts:43` says "deduct 0.25" and line 61 deducts 0.05; the sender's
subscription is checked, and any user of the company is charged; `sip-provider.controller.ts:23` promises
201 "Created SIP Provider" for a request that Prisma refuses.

## 5. What is proved

The eight `..._proofs` modules are checked by TLAPS for all values of the constants. The assumptions are in
the modules that declare the constants, and TLC evaluates them on its instances: `VarsExposedAssumption`;
`KeyAssumption` and `MaxKeysAssumption` (`#` is no digit); `LoopsAssumption`, `LeadsAssumption` (leads are
numbered by `createdAt`), `BlastAssumption` (a blast has at least one call); `PacketsAssumption` (types of
what a packet carries); `TreesAssumption` (valid trees have a key, string keys are keys, handwritten
sections are not the program's and share no keys among themselves; nothing is assumed of `Erases`);
`ClientsAssumption` (finitely many clients, at least one), `AgentsAssumption` (finitely many agents, none of
whom shares a section name with a user), `QuotaAssumption`, `MaxRequestsAssumption`, `OutputsAssumption` (an
upload has one output); `JobsAssumption`, `BoundsAssumption`; and `NoneAssumption` where a null must differ
from what it stands for the absence of.

* **CallLifecycle.** Type correctness, then `Invariance`: `Spec => []IInv`. No safety property is
  inductive by itself. `IInv` adds: `Order` (a handler of a leg runs only once its event can have
  come; the agent leg is created by the last step of the customer's handler, hence once; channels
  only move forward), `PickedKnown` and `MetaNamesPicked` (the metas of a linked call name the picked
  agent or are gone), `BridgedAnswered`, `JoinedIsBridged`, and `SeenIsTrue` (the status a
  ChannelDestroyed handler works from, however old, never claims a conversation that was not).
  The argument for `NobodyLeftAlone`: the handler either hangs the partner up or finds its meta gone,
  and by `KnownUntilForgotten` the meta is gone only if the partner's own ChannelDestroyed has been
  handled, so the partner has ended. For `WaitingIsTimed`: the callback returns early only without a
  meta, and a live leg has one. One lemma per conjunct, on lemmas that say who writes each variable.
  `LedgerIsKept` (`Spec => LedgerKept`): `Originate` maps to `Dial`, `Join` to `Talk`, `MarkLead` to `Close`,
  `OriginateRefusedLead` to `NoteError`, any step that ends the customer's channel to `End`, and every other one
  to a stutter; `SeenIsTrue` is what `Close` needs. `LeadsCloseAfterTheirCall` says it of one state.
  `HandlersRunDown` and `RestIsSettled` are what the liveness properties rest on besides fairness. `Work(c)`
  adds what each handler, the timer and the error callback have left to do; it is at most 34, every step of
  `Handler(c)` lowers it and no step raises it (arming the timer costs less than the end of `onStasisStart`
  frees). `AtRest(c)` writes out that no action of `Handler(c)` is enabled, and a call at rest is settled: a
  customer who is there is joined, the lead of one who is gone is closed, no leg has outlived its partner.
* **BlindTransfer.** `TransferIsLifecycle` (`TransferSpec => Spec /\ Lifecycle`): a key changes no variable
  of CallLifecycle but by a hangup that is one of its `End` steps, so every theorem about `Spec` holds with
  transfers, and the other two theorems use `IInv` that way. `PendingHasLiveLegHolds`: an entry is made only
  while both metas are there, and a leg with a meta has its ChannelDestroyed still to come, which deletes
  the entry. `ExtensionAsKeyedHolds` ties the handlers' state to the whole history of keys, of any length:
  `lastDtmf` is set exactly when the last run of equal keys of the leg is odd (`DedupOK`), an open transfer
  holds the digits that count since its `#` (`PendingSpelled`), and a handler past its second `#` holds
  those between the two (`FinishSpelled`). The lemmas under it say what one key more does to `Counts`,
  `DigitsBetween` and `Spells`. `TransfersKeepCallsSafe` restates the invariants of a call and `LedgerKept`
  for `TransferSpec`.
* **BlastLoop.** Types with `LoopsOK` (what a loop's place says of its agent, lead and count), then `Locks`:
  a dialed lead is locked, a lead about to be dialed was fresh, and for a loop about to lock, the lead it
  has read waits and no older one does, but for those locked or marked since (`changed`). `NeverRedials` and
  `LoopsImplementQueue` (`Spec => HandedOutInOrder`, the refinement) follow. `NobodyPassedOver`: a lead
  whose mark is never cleared is locked or contacted as soon as a younger one is locked; without that
  premise it may be put back after it was passed. `NextLeadDecides`: `findFirst` finds nothing or exactly
  one lead (by the well-foundedness of the order of creation). `StoppedLoopsRunDown` is the part of
  `StoppedDrains` that needs no fairness: a loop whose agent is stopped has at most `3 * MaxBlast + 3` steps
  left (its blast goes on, since only `Enter` looks at `agentRunning`), each turn lowers that, and nothing
  raises it. `RunningAgentsHaveALoop` needs that a recorded timer belongs to a loop of its own agent.
  `NobodyCountedTwice` rests on: whoever listens has counted no more than the current list has sent, since
  the first end of a list ends every query.
* **AppointmentBook.** `OneDefaultPerClientHolds`: a client that has cleared the defaults and not yet set
  one is the maker of none but the status it is about to update, and no other client adds to its own.
  `NoOrphanHolds`: what the foreign keys refuse, and set to null, at every step in between.
  `ChosenOrDefaultHolds`: what `deleteStatus` has looked up was made the default by someone or is gone, and
  nothing can be moved to a status that is gone.
* **BackOffice.** The invariants of the parts are proved beside each other: a step of one part leaves the
  others' variables alone. `QuotaOvershootHolds` counts: a company's agents but `SentTo`, plus the creates
  between their count and their insert that have counted less than the highest quota stay below quota plus
  clients; one that counts now counts every agent already there. `FilesMatchRowsHolds`: an agent's rows are
  made before his section and never all undone; the output of an upload is its own from the moment its
  conversion has opened it, unless a namesake or a delete comes; a provider's configuration is never deleted
  and its key keeps the provider, and an update that is about to write the file has upserted one
  (`TrunksInv`). `NoDuplicateFromOneClientHolds`: a client that found nothing has created nothing.
  `BoardFollowsSocketsHolds`, `ConsoleShowsBoardHolds`: inductive with the types.
* **SmsBilling.** `ReportsAreBilled`: a job that is queued again was active at a crash, which counts a stall
  (`OncePerRun`); whoever is past a row has one (`ChargedAsReported`); and a worker that has read a balance
  holds at least what is due less the charges that other workers have made since (`NoOvercharge`), so that
  writing a stale balance loses charges and never adds one. `AtMostTwice`: BullMQ puts an active job back
  once (`AfterStall`), so that any number of crashes costs at most a second submission and a second charge;
  the run of TLC has one crash.
* **SipTrace.** The invariant says that session ids are handed out once and below the sequence, that a
  handler past the insert has the row of its call, and that one that lost the race is waiting for a row
  that exists; rows are never deleted, so the second lookup finds it. The refinement maps `FindSession`
  and `RefindSession` to the abstract `Find` or a stutter, the winner's `CreateSession` to `Create`.
  `AlertsReachEveryChat` rests on: a chat bound throughout is tried or still in the list.
* **IvrTrees.** `NoSharedKeys` is inductive with the types, since check and append are one synchronous step
  and an erasure only takes sections away. `RowsAndFileStayInStep` is not: `RowsOK` adds that ids are fresh,
  names unique and that a request works on a row of its name or one that is gone; `NamesOK` says what holds
  of an undisturbed name at each place of its only request (no row and no section before the insert, a row
  and no section between the erasing and the saving, ...), `SinglesOK` that its section is not in the file
  twice. One lemma says a step of another name leaves all that alone unless it erases by mistake, others
  what a beginning, a step, an answer and the end of the process do.

Every invariant and every refinement that a run checks is proved. Only model-checked are the four liveness
properties (`AnsweredIsResolved`, `EndedLeadIsClosed`, `PairEndsTogether`, `StoppedDrains`): the prover
has neither fairness nor ENABLED. Their safety halves are the theorems on running down above. That `AtRest(c)`
is the negation of `ENABLED Handler(c)` is the one joint that is not proved; it was compared by TLC in every
reachable state of `call_safety`'s instance.

## 6. What is not modelled

One component has the status `not_modelled` in `PROJECT.json`:

* **Infrastructure**: adapters and wiring. Asterisk, AMI, BullMQ, ffmpeg and the database appear in the
  modules as the dialer and the services use them, and are marked external in the map.

Within the modelled ones:

* Dialer: channels it did not originate (an agent leg without a call log, 566-573, and a customer
  without a meta, 638-644); a database call of a call's handlers that fails; the attended transfer, three
  stubs that log; two calls on one agent, and `callLimit` (section 7).
* Agents: `update` names a column that the table does not have and is refused; `getAvailableAgent` and
  `isPjsipUserOnline` have no caller that runs.
* SIP providers: `create`. Its dto demands fields (`IpRange`, `DIDNumber`, `CallLimit`, `EndpointName`) that
  are no columns of `SIPProvider`, and Prisma refuses every one.
* Companies: the renaming of one. A parked call is never created. Listings, statistics, pagination,
  guards and tokens change no state.
* Loops: leads created while they run (younger than all that wait; leads created in bulk share `createdAt`,
  and their numbering stands for the order the database happens to return) and leads deleted; no request
  changes `locked`, which `UpdateLeadDto` does not have and the validation pipe drops (`main.ts` 60-63). A
  database or AMI call that rejects inside `blastDial` (also the update of a lead deleted since `findFirst`)
  ends the loop while `agentRunning` stays set: in the pass that the start request awaits it is an HTTP
  error, from a timer an unhandled rejection, which ends the process. `RunningHasLoop` is therefore about
  the returns of `blastDial`.
* Call logs and lead records are also changed by hand: `PUT` and `DELETE /call-logs/:id`, and `updateLead` and
  `deleteLead` of the CRM. CallLifecycle and LeadLedger are about what the handlers write; BlastLoop has the
  marks that users set and clear.
* IVR trees: blank names, which `findConflicts` refuses; a pattern that takes more or less than whole sections,
  or finds a header inside a section's text; a tree that repeats a key within itself.
* CRM: the renaming of rows, and the older appointment and crm services, which write tables of their own
  (`Appointment`, `Crm`) one row at a time.
* SMS: the HTTP routes of the other vendors, whose controllers are commented out. The whole of SMS is
  dormant (`app.module.ts` 60, 71, `smpp.module.ts` 15-16); it is modelled as its own modules wire it.
* SIP debugger: parsing, and `saveQosReport` and `saveMediaOffer`, which nothing calls.

Hazards that no property covers are listed with their reason in `PROJECT.json`: two customers that
pick one agent (647), the untagged hold entry (652), the hold entry that outlives its call (616), the flag
that outlives the loop (27), the reset to AVAILABLE (128). Their outcomes are reachable in the modules
where they belong, but nothing in the repository states that they must not happen.

## 7. Plan

Done: all components of the first plan but the composed dialer. Left:

1. `Dialer`: BlastLoop and a condensed CallLifecycle over shared agents, `callLimit` and the hold
   queue, of which both would be shown to be refinements; it would carry properties of two calls on one
   agent. Two calls of CallLifecycle as it is are beyond an exhaustive run, so the call must first be
   condensed to the steps that other calls see.
2. `LeadLedger` shown of that module too, with the locks of `LeadQueue` beside its records.
3. An abstract specification of the IVR trees (a name is free, served, or in the hands of one request) for the
   names that are not disturbed, which `RowsAndFileAgree` describes by its states at rest only.
