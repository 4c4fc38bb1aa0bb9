---------------------------- MODULE CallLifecycle ----------------------------
(***************************************************************************)
(* The life of a predictive call in DialerService: from the moment         *)
(* blastDial originates the customer leg, through the handlers of the four *)
(* kinds of asynchronous event that drive it (StasisStart,                 *)
(* ChannelStateChange, ChannelDestroyed and the 45-second hold timer), to  *)
(* the clean-up of both legs.                                              *)
(*                                                                         *)
(* Node runs one handler at a time, but a handler gives up the processor   *)
(* at every `await`.  A handler is therefore a program counter, and an     *)
(* action is the code between two awaits together with the database or ARI *)
(* call that ends it; a result read by that call is kept in a variable     *)
(* until the next action of the handler uses it, so it may be stale.       *)
(***************************************************************************)
EXTENDS Naturals

CONSTANTS
  Calls,        \* one per iteration of blastDial that reaches originate
  Agents,
  Leads,
  CompanyOf,    \* the systemCompanyId of each agent
  VarsExposed,  \* ari.conf copies CALLLOG_ID into channel.channelvars
  None,         \* null, undefined, or a missing key
  Untagged      \* a hold entry that is a bare channel id, with no company

ASSUME VarsExposedAssumption == VarsExposed \in BOOLEAN

ASSUME NoneAssumption == None \notin Agents /\ None \notin Leads

Legs == Calls \X {"customer", "agent"}

Customer(c) == <<c, "customer">>

AgentLeg(c) == <<c, "agent">>

\* The row blastDial created for the call, and the row onStasisStart creates
\* for a customer channel whose variables it cannot see.
Logs == Calls \X {"dialed", "stray"}

Dialed(c) == <<c, "dialed">>

VARIABLES
  callLog,       \* DB: [status, agent] of each call log
  crmLead,       \* DB: [contactStatus, isContacted] of each lead
  agentStatus,   \* DB: Agent.status
  leadOf,        \* the lead each call dials
  channelToMeta, \* memory: agentId of each leg's meta, None if no meta
  holdQueue,     \* memory: company tag of each held call log
  holdTimer,     \* memory: the timer of each customer channel
  chan,          \* Asterisk: the state of each leg's channel
  bridged,       \* Asterisk: addChannel joined the two legs
  startPc, upPc, endPc,  \* handlers of StasisStart, Up and ChannelDestroyed
  company,       \* onStasisStart's systemCompanyId
  freeAgents,    \* onChannelStateChange's freeAgents
  picked,        \* the agent onChannelStateChange chose
  seen           \* onChannelDestroyed's cl.status, then its finalStatus

db == <<callLog, crmLead, agentStatus, leadOf>>
memory == <<channelToMeta, holdQueue, holdTimer>>
asterisk == <<chan, bridged>>
startVars == <<startPc, company>>
upVars == <<upPc, freeAgents, picked>>
endVars == <<endPc, seen>>
vars == <<db, memory, asterisk, startVars, upVars, endVars>>

CallStatus == {"UNUSED", "WAITING", "RINGING", "CONNECTED", "HUNGUP",
               "NO_ANSWER", "BUSY", "FAILED", "INTERNAL_ERROR"}

ContactStatus == {"New", "Answered", "No Answer", "Busy", "Failed",
                  "INTERNAL_ERROR"}

LogRow == [status: CallStatus, agent: Agents \cup {None}]

LeadRow == [contactStatus: ContactStatus, isContacted: BOOLEAN]

ChanState == {"none", "dialing", "up", "over", "unanswered", "refused", "failed"}

(***************************************************************************)
(* The type invariant.                                                     *)
(***************************************************************************)
TypeOK ==
  /\ callLog \in [Logs -> LogRow]
  /\ crmLead \in [Leads -> LeadRow]
  /\ agentStatus \in [Agents -> {"AVAILABLE", "RINGING", "BUSY", "OFFLINE"}]
  /\ leadOf \in [Calls -> Leads \cup {None}]
  /\ channelToMeta \in [Legs -> Agents \cup {None}]
  /\ holdQueue \in [Logs -> {CompanyOf[a] : a \in Agents} \cup {0, None, Untagged}]
  /\ holdTimer \in [Calls -> {"off", "armed", "dropping", "releasing", "spent"}]
  /\ chan \in [Legs -> ChanState]
  /\ bridged \in [Calls -> BOOLEAN]
  /\ startPc \in [Legs -> {"idle", "moh", "holding", "done"}]
  /\ upPc \in [Legs -> {"idle", "picking", "linking", "calling", "joining",
                        "joined", "marking", "done"}]
  /\ endPc \in [Legs -> {"idle", "closing", "marking", "pairing", "cleaning",
                         "done"}]
  /\ company \in [Calls -> {CompanyOf[a] : a \in Agents} \cup {0}]
  /\ freeAgents \in [Calls -> SUBSET Agents]
  /\ picked \in [Calls -> Agents \cup {None}]
  /\ seen \in [Legs -> CallStatus]

Init ==
  /\ callLog = [k \in Logs |-> [status |-> "UNUSED", agent |-> None]]
  /\ crmLead = [l \in Leads |-> [contactStatus |-> "New", isContacted |-> FALSE]]
  /\ agentStatus \in [Agents -> {"AVAILABLE", "OFFLINE"}]
  /\ leadOf = [c \in Calls |-> None]
  /\ channelToMeta = [x \in Legs |-> None]
  /\ holdQueue = [k \in Logs |-> None]
  /\ holdTimer = [c \in Calls |-> "off"]
  /\ chan = [x \in Legs |-> "none"]
  /\ bridged = [c \in Calls |-> FALSE]
  /\ startPc = [x \in Legs |-> "idle"]
  /\ upPc = [x \in Legs |-> "idle"]
  /\ endPc = [x \in Legs |-> "idle"]
  /\ company = [c \in Calls |-> 0]
  /\ freeAgents = [c \in Calls |-> {}]
  /\ picked = [c \in Calls |-> None]
  /\ seen = [x \in Legs |-> "UNUSED"]

-----------------------------------------------------------------------------
(***************************************************************************)
(* Helpers.  An operator called Bad... is a plausible mistake in the one   *)
(* below it; it is no part of the specification, and breaks one of the     *)
(* properties at the end of the module.                                    *)
(***************************************************************************)

\* callLog.agent?.systemCompanyId ?? 0
CompanyTag(a) == IF a = None THEN 0 ELSE CompanyOf[a]

\* The call log onStasisStart works on for a customer channel.
StartLog(c) == IF VarsExposed THEN Dialed(c) ELSE <<c, "stray">>

\* What ChannelDestroyed turns a call log's status into.
FinalStatus(s) ==
  CASE s = "CONNECTED" -> "HUNGUP"
    [] s \in {"BUSY", "FAILED"} -> s
    [] OTHER -> "NO_ANSWER"

\* The contactStatus that goes with a final status.
BadContactOf(s) == s

ContactOf(s) ==
  CASE s = "HUNGUP" -> "Answered"
    [] s = "BUSY" -> "Busy"
    [] s = "FAILED" -> "Failed"
    [] OTHER -> "No Answer"

Answered(x) == chan[x] \in {"up", "over"}

Gone(x) == chan[x] \in {"over", "unanswered"}

Partner(x) == <<x[1], IF x[2] = "customer" THEN "agent" ELSE "customer">>

\* Asterisk ends a channel; a channel that is not alive is "Channel not found",
\* which every caller swallows.
Ended(s) == CASE s = "up" -> "over" [] s = "dialing" -> "unanswered" [] OTHER -> s

\* chan after a hangup request for leg x.
HungUp(x) == [chan EXCEPT ![x] = Ended(@)]

\* chan after the end of leg x has hung up its partner.
BadPairHungUp(x) == IF x[2] = "customer" THEN HungUp(Partner(x)) ELSE chan

PairHungUp(x) == HungUp(Partner(x))

\* holdTimer after setHoldTimeout.
BadTimerSet(c) == [holdTimer EXCEPT ![c] = "off"]

TimerSet(c) == [holdTimer EXCEPT ![c] = "armed"]

\* holdTimer after clearHoldTimeout for leg x: only customer channels have one,
\* and a callback that has begun goes on.
BadTimerCleared(x) == [holdTimer EXCEPT ![x[1]] = IF @ = "armed" THEN "off" ELSE @]

TimerCleared(x) ==
  [holdTimer EXCEPT ![x[1]] = IF x[2] = "customer" /\ @ = "armed" THEN "off" ELSE @]

\* channelToMeta after linking the picked agent to the customer's meta.
BadMetaLinked(c) == channelToMeta

MetaLinked(c) == [channelToMeta EXCEPT ![Customer(c)] = picked[c]]

\* channelToMeta after the clean-up of leg x.
BadMetaForgotten(x) == [channelToMeta EXCEPT ![x] = None, ![Partner(x)] = None]

MetaForgotten(x) == [channelToMeta EXCEPT ![x] = None]

\* A lead after the error callback of originate.
BadRefused(r) == [r EXCEPT !.contactStatus = "INTERNAL_ERROR", !.isContacted = TRUE]

Refused(r) == [r EXCEPT !.contactStatus = "INTERNAL_ERROR"]

\* Where onChannelDestroyed goes after the call log: only a customer leg's meta
\* has a leadId.
BadAfterClose(x, final) == IF x[2] = "customer" /\ final = "HUNGUP" THEN "marking" ELSE "pairing"

AfterClose(x, final) == IF x[2] = "customer" THEN "marking" ELSE "pairing"

SetStatus(k, s) == callLog' = [callLog EXCEPT ![k].status = s]

SetStatusAndAgent(k, s, a) == callLog' = [callLog EXCEPT ![k] = [status |-> s, agent |-> a]]

-----------------------------------------------------------------------------
(***************************************************************************)
(* blastDial's last segment: originate the customer leg of a fresh call    *)
(* log, and register its meta in the same step.  The log itself (WAITING)  *)
(* is created a moment earlier and touched by nobody in between.           *)
(***************************************************************************)
Originate(c, a, l) ==
  /\ chan[Customer(c)] = "none"
  /\ SetStatusAndAgent(Dialed(c), "WAITING", a)
  /\ leadOf' = [leadOf EXCEPT ![c] = l]
  /\ chan' = [chan EXCEPT ![Customer(c)] = "dialing"]
  /\ channelToMeta' = [channelToMeta EXCEPT ![Customer(c)] = a]
  /\ UNCHANGED <<crmLead, agentStatus, holdQueue, holdTimer, bridged, startVars, upVars, endVars>>

\* The originate callback with an error: two updates, and the meta stays.
OriginateRefused(c) ==
  /\ chan[Customer(c)] = "dialing"
  /\ chan' = [chan EXCEPT ![Customer(c)] = "refused"]
  /\ SetStatus(Dialed(c), "INTERNAL_ERROR")
  /\ UNCHANGED <<crmLead, agentStatus, leadOf, memory, bridged, startVars, upVars, endVars>>

OriginateRefusedLead(c) ==
  /\ chan[Customer(c)] = "refused"
  /\ chan' = [chan EXCEPT ![Customer(c)] = "failed"]
  /\ crmLead' = [crmLead EXCEPT ![leadOf[c]] = Refused(@)]
  /\ UNCHANGED <<callLog, agentStatus, leadOf, memory, bridged, startVars, upVars, endVars>>

-----------------------------------------------------------------------------
(***************************************************************************)
(* Asterisk and the two parties.  A channel is answered or not, and ends   *)
(* when it likes.  The two events of an answered channel come in either    *)
(* order, ChannelDestroyed after both.                                     *)
(***************************************************************************)
Answer(x) ==
  /\ chan[x] = "dialing"
  /\ chan' = [chan EXCEPT ![x] = "up"]
  /\ UNCHANGED <<db, memory, bridged, startVars, upVars, endVars>>

End(x) ==
  /\ chan[x] \in {"dialing", "up"}
  /\ chan' = HungUp(x)
  /\ UNCHANGED <<db, memory, bridged, startVars, upVars, endVars>>

\* The originate of an agent leg fails: nobody awaits the promise.
AgentRefused(c) ==
  /\ chan[AgentLeg(c)] = "dialing"
  /\ chan' = [chan EXCEPT ![AgentLeg(c)] = "refused"]
  /\ UNCHANGED <<db, memory, bridged, startVars, upVars, endVars>>

-----------------------------------------------------------------------------
(***************************************************************************)
(* onStasisStart                                                           *)
(***************************************************************************)
StasisStart(x) ==
  LET c == x[1]
      k == IF x[2] = "customer" THEN StartLog(c) ELSE Dialed(c)
  IN
  /\ Answered(x)
  /\ startPc[x] = "idle"
  /\ SetStatus(k, "RINGING")
  /\ startPc' = [startPc EXCEPT ![x] = IF x[2] = "customer" THEN "moh" ELSE "done"]
  /\ UNCHANGED <<crmLead, agentStatus, leadOf, memory, asterisk, company, upVars, endVars>>

\* After startMoh: look the call log's agent and company up.
StartFindCompany(c) ==
  /\ startPc[Customer(c)] = "moh"
  /\ company' = [company EXCEPT ![c] = CompanyTag(callLog[StartLog(c)].agent)]
  /\ startPc' = [startPc EXCEPT ![Customer(c)] = "holding"]
  /\ UNCHANGED <<db, memory, asterisk, upVars, endVars>>

StartHold(c) ==
  /\ startPc[Customer(c)] = "holding"
  /\ holdQueue' = [holdQueue EXCEPT ![StartLog(c)] = company[c]]
  /\ holdTimer' = TimerSet(c)
  /\ company' = [company EXCEPT ![c] = 0]
  /\ startPc' = [startPc EXCEPT ![Customer(c)] = "done"]
  /\ UNCHANGED <<db, channelToMeta, asterisk, upVars, endVars>>

-----------------------------------------------------------------------------
(***************************************************************************)
(* onChannelStateChange for a customer channel that is Up: find a free     *)
(* agent (of any company: the query has no filter), claim it, link it to   *)
(* the call and originate its leg.                                         *)
(***************************************************************************)
FindFreeAgents(c) ==
  LET x == Customer(c) IN
  /\ Answered(x)
  /\ upPc[x] = "idle"
  /\ channelToMeta[x] # None
  /\ freeAgents' = [freeAgents EXCEPT ![c] = {a \in Agents : agentStatus[a] = "AVAILABLE"}]
  /\ upPc' = [upPc EXCEPT ![x] = "picking"]
  /\ UNCHANGED <<db, memory, asterisk, startVars, picked, endVars>>

NoFreeAgent(c) ==
  /\ upPc[Customer(c)] = "picking"
  /\ freeAgents[c] = {}
  /\ holdQueue' = [holdQueue EXCEPT ![Dialed(c)] = Untagged]
  /\ upPc' = [upPc EXCEPT ![Customer(c)] = "done"]
  /\ UNCHANGED <<db, channelToMeta, holdTimer, asterisk, startVars, freeAgents, picked, endVars>>

\* markStatus(free.id, 'RINGING'), whatever the agent's status is by now.
PickAgent(c, a) ==
  /\ upPc[Customer(c)] = "picking"
  /\ a \in freeAgents[c]
  /\ agentStatus' = [agentStatus EXCEPT ![a] = "RINGING"]
  /\ picked' = [picked EXCEPT ![c] = a]
  /\ freeAgents' = [freeAgents EXCEPT ![c] = {}]
  /\ upPc' = [upPc EXCEPT ![Customer(c)] = "linking"]
  /\ UNCHANGED <<callLog, crmLead, leadOf, memory, asterisk, startVars, endVars>>

\* The meta is stored again even if ChannelDestroyed has deleted it meanwhile.
LinkAgent(c) ==
  /\ upPc[Customer(c)] = "linking"
  /\ channelToMeta' = MetaLinked(c)
  /\ callLog' = [callLog EXCEPT ![Dialed(c)].agent = picked[c]]
  /\ upPc' = [upPc EXCEPT ![Customer(c)] = "calling"]
  /\ UNCHANGED <<crmLead, agentStatus, leadOf, holdQueue, holdTimer, asterisk, startVars,
                 freeAgents, picked, endVars>>

CallAgent(c) ==
  /\ upPc[Customer(c)] = "calling"
  /\ channelToMeta' = [channelToMeta EXCEPT ![AgentLeg(c)] = picked[c]]
  /\ chan' = [chan EXCEPT ![AgentLeg(c)] = "dialing"]
  /\ upPc' = [upPc EXCEPT ![Customer(c)] = "done"]
  /\ UNCHANGED <<db, holdQueue, holdTimer, bridged, startVars, freeAgents, picked, endVars>>

\* getAgentEndpoint finds no row: the agent was deleted meanwhile.
AgentVanished(c) ==
  /\ upPc[Customer(c)] = "calling"
  /\ upPc' = [upPc EXCEPT ![Customer(c)] = "done"]
  /\ UNCHANGED <<db, memory, asterisk, startVars, freeAgents, picked, endVars>>

(***************************************************************************)
(* onChannelStateChange for an agent channel that is Up: bridge it with    *)
(* the customer channel of the same call log.                              *)
(***************************************************************************)
FindCustomer(c) ==
  LET x == AgentLeg(c) IN
  /\ Answered(x)
  /\ upPc[x] = "idle"
  /\ channelToMeta[x] # None
  /\ IF channelToMeta[Customer(c)] # None
     THEN /\ upPc' = [upPc EXCEPT ![x] = "joining"]
          /\ UNCHANGED chan
     ELSE /\ upPc' = [upPc EXCEPT ![x] = "done"]
          /\ chan' = HungUp(x)
  /\ UNCHANGED <<db, memory, bridged, startVars, freeAgents, picked, endVars>>

\* bridge.addChannel can succeed while both channels are alive.
Join(c) ==
  /\ upPc[AgentLeg(c)] = "joining"
  /\ \A x \in {Customer(c), AgentLeg(c)} : chan[x] = "up"
  /\ bridged' = [bridged EXCEPT ![c] = TRUE]
  /\ upPc' = [upPc EXCEPT ![AgentLeg(c)] = "joined"]
  /\ UNCHANGED <<db, memory, chan, startVars, freeAgents, picked, endVars>>

\* addChannel rejects, for whatever reason (a channel has gone, or has left the
\* application): the handler ends there, the agent stays in its channel.
BadJoinRejected(c) ==  \* the error is caught and the handler goes on
  /\ upPc[AgentLeg(c)] = "joining"
  /\ upPc' = [upPc EXCEPT ![AgentLeg(c)] = "joined"]
  /\ UNCHANGED <<db, memory, asterisk, startVars, freeAgents, picked, endVars>>

JoinRejected(c) ==
  /\ upPc[AgentLeg(c)] = "joining"
  /\ upPc' = [upPc EXCEPT ![AgentLeg(c)] = "done"]
  /\ UNCHANGED <<db, memory, asterisk, startVars, freeAgents, picked, endVars>>

Connected(c) ==
  /\ upPc[AgentLeg(c)] = "joined"
  /\ holdQueue' = [holdQueue EXCEPT ![Dialed(c)] = None]
  /\ holdTimer' = TimerCleared(Customer(c))
  /\ SetStatusAndAgent(Dialed(c), "CONNECTED", picked[c])
  /\ upPc' = [upPc EXCEPT ![AgentLeg(c)] = "marking"]
  /\ UNCHANGED <<crmLead, agentStatus, leadOf, channelToMeta, asterisk, startVars,
                 freeAgents, picked, endVars>>

AgentBusy(c) ==
  /\ upPc[AgentLeg(c)] = "marking"
  /\ agentStatus' = [agentStatus EXCEPT ![picked[c]] = "BUSY"]
  /\ upPc' = [upPc EXCEPT ![AgentLeg(c)] = "done"]
  /\ UNCHANGED <<callLog, crmLead, leadOf, memory, asterisk, startVars, freeAgents, picked,
                 endVars>>

-----------------------------------------------------------------------------
(***************************************************************************)
(* The callback of setHoldTimeout, 45 seconds after StartHold.             *)
(***************************************************************************)
HoldTimeout(c) ==
  /\ holdTimer[c] = "armed"
  /\ IF channelToMeta[Customer(c)] = None
     THEN /\ holdTimer' = [holdTimer EXCEPT ![c] = "spent"]
          /\ UNCHANGED callLog
     ELSE /\ holdTimer' = [holdTimer EXCEPT ![c] = "dropping"]
          /\ SetStatus(StartLog(c), "NO_ANSWER")
  /\ UNCHANGED <<crmLead, agentStatus, leadOf, channelToMeta, holdQueue, asterisk, startVars,
                 upVars, endVars>>

HoldDrop(c) ==
  /\ holdTimer[c] = "dropping"
  /\ chan' = HungUp(Customer(c))
  /\ holdTimer' = [holdTimer EXCEPT ![c] = "releasing"]
  /\ UNCHANGED <<db, channelToMeta, holdQueue, bridged, startVars, upVars, endVars>>

HoldRelease(c) ==
  /\ holdTimer[c] = "releasing"
  /\ holdQueue' = [holdQueue EXCEPT ![StartLog(c)] = None]
  /\ holdTimer' = [holdTimer EXCEPT ![c] = "spent"]
  /\ UNCHANGED <<db, channelToMeta, asterisk, startVars, upVars, endVars>>

-----------------------------------------------------------------------------
(***************************************************************************)
(* onChannelDestroyed                                                      *)
(***************************************************************************)
Destroyed(x) ==
  LET c == x[1] IN
  /\ Gone(x)
  /\ endPc[x] = "idle"
  /\ chan[x] = "over" => startPc[x] # "idle" /\ upPc[x] # "idle"
  /\ channelToMeta[x] # None
  /\ holdTimer' = TimerCleared(x)
  /\ seen' = [seen EXCEPT ![x] = callLog[Dialed(c)].status]
  /\ endPc' = [endPc EXCEPT ![x] = "closing"]
  /\ UNCHANGED <<db, channelToMeta, holdQueue, asterisk, startVars, upVars>>

CloseLog(x) ==
  LET final == FinalStatus(seen[x]) IN
  /\ endPc[x] = "closing"
  /\ SetStatusAndAgent(Dialed(x[1]), final, channelToMeta[x])
  /\ seen' = [seen EXCEPT ![x] = final]
  /\ endPc' = [endPc EXCEPT ![x] = AfterClose(x, final)]
  /\ UNCHANGED <<crmLead, agentStatus, leadOf, memory, asterisk, startVars, upVars>>

MarkLead(c) ==
  LET x == Customer(c) IN
  /\ endPc[x] = "marking"
  /\ crmLead' = [crmLead EXCEPT ![leadOf[c]] =
                   [contactStatus |-> ContactOf(seen[x]), isContacted |-> TRUE]]
  /\ endPc' = [endPc EXCEPT ![x] = "pairing"]
  /\ UNCHANGED <<callLog, agentStatus, leadOf, memory, asterisk, startVars, upVars, seen>>

HangUpPair(x) ==
  /\ endPc[x] = "pairing"
  /\ channelToMeta[Partner(x)] # None
  /\ chan' = PairHungUp(x)
  /\ endPc' = [endPc EXCEPT ![x] = "cleaning"]
  /\ UNCHANGED <<db, memory, bridged, startVars, upVars, seen>>

\* With no partner to hang up there is no await before the clean-up.
Forget(x) ==
  /\ \/ endPc[x] = "cleaning"
     \/ endPc[x] = "pairing" /\ channelToMeta[Partner(x)] = None
  /\ holdQueue' = [holdQueue EXCEPT ![Dialed(x[1])] = None]
  /\ channelToMeta' = MetaForgotten(x)
  /\ seen' = [seen EXCEPT ![x] = "UNUSED"]
  /\ endPc' = [endPc EXCEPT ![x] = "done"]
  /\ UNCHANGED <<db, holdTimer, asterisk, startVars, upVars>>

-----------------------------------------------------------------------------
\* The agent is put back to AVAILABLE from outside the dialer's handlers: it
\* posts its call log, logs in, or starts the dialer.
AgentReturns(a) ==
  /\ agentStatus[a] # "AVAILABLE"
  /\ agentStatus' = [agentStatus EXCEPT ![a] = "AVAILABLE"]
  /\ UNCHANGED <<callLog, crmLead, leadOf, memory, asterisk, startVars, upVars, endVars>>

\* What the program itself goes on to do, once it has begun.
Handler(c) ==
  \/ OriginateRefusedLead(c)
  \/ \E x \in {Customer(c), AgentLeg(c)} :
       \/ StasisStart(x) \/ Destroyed(x) \/ CloseLog(x) \/ HangUpPair(x) \/ Forget(x)
  \/ StartFindCompany(c) \/ StartHold(c)
  \/ FindFreeAgents(c) \/ NoFreeAgent(c) \/ (\E a \in Agents : PickAgent(c, a))
  \/ LinkAgent(c) \/ CallAgent(c) \/ AgentVanished(c)
  \/ FindCustomer(c) \/ Join(c) \/ JoinRejected(c) \/ Connected(c) \/ AgentBusy(c)
  \/ HoldTimeout(c) \/ HoldDrop(c) \/ HoldRelease(c)
  \/ MarkLead(c)

Environment(c) ==
  \/ \E a \in Agents, l \in Leads : Originate(c, a, l)
  \/ OriginateRefused(c) \/ AgentRefused(c)
  \/ \E x \in {Customer(c), AgentLeg(c)} : Answer(x) \/ End(x)

Next ==
  \/ \E c \in Calls : Handler(c) \/ Environment(c)
  \/ \E a \in Agents : AgentReturns(a)

Spec == Init /\ [][Next]_vars

(***************************************************************************)
(* Every handler that has begun goes on (Node's event loop), every event   *)
(* is delivered and the hold timer fires.  The parties and Asterisk owe    *)
(* nothing: a channel may ring or talk for ever.                           *)
(***************************************************************************)
FairSpec == Spec /\ \A c \in Calls : WF_vars(Handler(c))

-----------------------------------------------------------------------------
(***************************************************************************)
(* Properties.                                                             *)
(***************************************************************************)

\* A conversation is recorded only if there was one: a call log is CONNECTED
\* or HUNGUP, and a lead is "Answered", only if addChannel joined the two legs,
\* however late or stale the status a ChannelDestroyed handler works from.
NoFalseAnswer ==
  /\ \A c \in Calls : callLog[Dialed(c)].status \in {"CONNECTED", "HUNGUP"} => bridged[c]
  /\ \A l \in Leads : crmLead[l].contactStatus = "Answered" =>
       \E c \in Calls : leadOf[c] = l /\ bridged[c]

\* Once onChannelStateChange has linked an agent to a call, the call log stays
\* attributed to that agent, whichever handlers write the row afterwards and
\* in whatever order.
AttributedToLinkedAgent ==
  \A c \in Calls :
    upPc[Customer(c)] = "calling" \/ chan[AgentLeg(c)] # "none" =>
      callLog[Dialed(c)].agent = picked[c]

\* What the CRM is told is true to the calls: the record of a lead is written as
\* LeadLedger allows, whatever the handlers of all the calls to it see and in
\* which order they run.  It is closed only after a call has ended, and for good,
\* "Answered" only if an agent was joined with the lead, and the error callback of
\* originate neither closes nor reopens it.  (dialer.service.ts:488-499, 790-849.)
Ledger ==
  INSTANCE LeadLedger WITH
    dialed <- {l \in Leads : \E c \in Calls : leadOf[c] = l},
    talked <- {l \in Leads : \E c \in Calls : leadOf[c] = l /\ bridged[c]},
    ended  <- {l \in Leads : \E c \in Calls : leadOf[c] = l /\ Gone(Customer(c))},
    record <- crmLead

LedgerKept == Ledger!Spec

\* The clean-up of one leg never takes the other leg's meta away: a leg is
\* known to the handlers until its own ChannelDestroyed has forgotten it.
KnownUntilForgotten ==
  \A x \in Legs : chan[x] # "none" /\ endPc[x] # "done" => channelToMeta[x] # None

\* "Handle paired legs": once the clean-up of one leg of a bridged call is past
\* hanging up its partner, neither leg is alive: no party is left alone.
NobodyLeftAlone ==
  \A x \in Legs : bridged[x[1]] /\ endPc[x] \in {"cleaning", "done"} => Gone(Partner(x))

\* A customer who has answered and waits for an agent is always timed: from
\* the end of onStasisStart until the legs are joined, the 45-second timer is
\* armed or already dropping the call.
WaitingIsTimed ==
  \A c \in Calls :
    chan[Customer(c)] = "up" /\ startPc[Customer(c)] = "done" /\ ~bridged[c] =>
      holdTimer[c] \in {"armed", "dropping"}

\* Nobody waits for ever: a customer who answers is joined with an agent or
\* the call ends.
AnsweredIsResolved ==
  \A c \in Calls : chan[Customer(c)] = "up" ~> bridged[c] \/ chan[Customer(c)] # "up"

\* Every lead whose call was dialed and has ended is eventually closed, so
\* that nextLead never finds it again.
EndedLeadIsClosed ==
  \A c \in Calls : \A l \in Leads :
    leadOf[c] = l /\ Gone(Customer(c)) ~> crmLead[l].isContacted

\* The legs of a bridged call end together.
PairEndsTogether ==
  \A x \in Legs : bridged[x[1]] /\ Gone(x) ~> Gone(Partner(x))

====
