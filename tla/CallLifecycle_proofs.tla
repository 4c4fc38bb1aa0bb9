------------------------ MODULE CallLifecycle_proofs ------------------------
(***************************************************************************)
(* Proofs about CallLifecycle, for every number of calls, agents and       *)
(* leads, every company and either setting of VarsExposed.                 *)
(***************************************************************************)
EXTENDS CallLifecycle, TLAPS

(***************************************************************************)
(* Legs and call logs.                                                     *)
(***************************************************************************)

\* The legs of a call are two, and tell their call and each other.
LEMMA LegFacts ==
  /\ \A c \in Calls :
       /\ Customer(c) \in Legs /\ AgentLeg(c) \in Legs
       /\ Customer(c)[1] = c /\ AgentLeg(c)[1] = c
       /\ Customer(c)[2] = "customer" /\ AgentLeg(c)[2] = "agent"
       /\ Partner(Customer(c)) = AgentLeg(c) /\ Partner(AgentLeg(c)) = Customer(c)
       /\ \A d \in Calls :
            /\ Customer(c) # AgentLeg(d)
            /\ Customer(c) = Customer(d) => c = d
            /\ AgentLeg(c) = AgentLeg(d) => c = d
  /\ \A x \in Legs :
       /\ x[1] \in Calls
       /\ x = Customer(x[1]) \/ x = AgentLeg(x[1])
       /\ Partner(x) \in Legs /\ Partner(x)[1] = x[1]
BY DEF Legs, Customer, AgentLeg, Partner

\* A call has one call log of blastDial, and no other call writes it.
LEMMA LogFacts ==
  \A c \in Calls :
    /\ Dialed(c) \in Logs /\ StartLog(c) \in Logs
    /\ \A d \in Calls : Dialed(c) = Dialed(d) => c = d
BY DEF Logs, Dialed, StartLog

\* Next, taken apart: what a step may be.
LEMMA NextCases ==
  ASSUME [Next]_vars
  PROVE  \/ \E c \in Calls, a \in Agents, l \in Leads : Originate(c, a, l)
         \/ \E c \in Calls : OriginateRefused(c)
         \/ \E c \in Calls : OriginateRefusedLead(c)
         \/ \E x \in Legs : Answer(x)
         \/ \E x \in Legs : End(x)
         \/ \E c \in Calls : AgentRefused(c)
         \/ \E x \in Legs : StasisStart(x)
         \/ \E c \in Calls : StartFindCompany(c)
         \/ \E c \in Calls : StartHold(c)
         \/ \E c \in Calls : FindFreeAgents(c)
         \/ \E c \in Calls : NoFreeAgent(c)
         \/ \E c \in Calls, a \in Agents : PickAgent(c, a)
         \/ \E c \in Calls : LinkAgent(c)
         \/ \E c \in Calls : CallAgent(c)
         \/ \E c \in Calls : AgentVanished(c)
         \/ \E c \in Calls : FindCustomer(c)
         \/ \E c \in Calls : Join(c)
         \/ \E c \in Calls : JoinRejected(c)
         \/ \E c \in Calls : Connected(c)
         \/ \E c \in Calls : AgentBusy(c)
         \/ \E c \in Calls : HoldTimeout(c)
         \/ \E c \in Calls : HoldDrop(c)
         \/ \E c \in Calls : HoldRelease(c)
         \/ \E x \in Legs : Destroyed(x)
         \/ \E x \in Legs : CloseLog(x)
         \/ \E c \in Calls : MarkLead(c)
         \/ \E x \in Legs : HangUpPair(x)
         \/ \E x \in Legs : Forget(x)
         \/ \E a \in Agents : AgentReturns(a)
         \/ UNCHANGED vars
BY LegFacts DEF Next, Handler, Environment

(***************************************************************************)
(* Who writes what: the actions that may change a variable.                *)
(***************************************************************************)

\* startPc is written by onStasisStart only.
LEMMA StartWriters ==
  ASSUME [Next]_vars
  PROVE  \/ startPc' = startPc
         \/ \E x \in Legs : StasisStart(x)
         \/ \E c \in Calls : StartFindCompany(c)
         \/ \E c \in Calls : StartHold(c)
BY NextCases DEF Originate, OriginateRefused, OriginateRefusedLead, Answer, End, AgentRefused,
   FindFreeAgents, NoFreeAgent, PickAgent, LinkAgent, CallAgent, AgentVanished, FindCustomer,
   Join, JoinRejected, Connected, AgentBusy, HoldTimeout, HoldDrop, HoldRelease, Destroyed,
   CloseLog, MarkLead, HangUpPair, Forget, AgentReturns, vars, db, memory, asterisk, startVars,
   upVars, endVars

\* upPc is written by onChannelStateChange only.
LEMMA UpWriters ==
  ASSUME [Next]_vars
  PROVE  \/ upPc' = upPc
         \/ \E c \in Calls : FindFreeAgents(c)
         \/ \E c \in Calls : NoFreeAgent(c)
         \/ \E c \in Calls, a \in Agents : PickAgent(c, a)
         \/ \E c \in Calls : LinkAgent(c)
         \/ \E c \in Calls : CallAgent(c)
         \/ \E c \in Calls : AgentVanished(c)
         \/ \E c \in Calls : FindCustomer(c)
         \/ \E c \in Calls : Join(c)
         \/ \E c \in Calls : JoinRejected(c)
         \/ \E c \in Calls : Connected(c)
         \/ \E c \in Calls : AgentBusy(c)
BY NextCases DEF Originate, OriginateRefused, OriginateRefusedLead, Answer, End, AgentRefused,
   StasisStart, StartFindCompany, StartHold, HoldTimeout, HoldDrop, HoldRelease, Destroyed,
   CloseLog, MarkLead, HangUpPair, Forget, AgentReturns, vars, db, memory, asterisk, startVars,
   upVars, endVars

\* endPc is written by onChannelDestroyed only.
LEMMA EndPcWriters ==
  ASSUME [Next]_vars
  PROVE  \/ endPc' = endPc
         \/ \E x \in Legs : Destroyed(x)
         \/ \E x \in Legs : CloseLog(x)
         \/ \E c \in Calls : MarkLead(c)
         \/ \E x \in Legs : HangUpPair(x)
         \/ \E x \in Legs : Forget(x)
BY NextCases DEF Originate, OriginateRefused, OriginateRefusedLead, Answer, End, AgentRefused,
   StasisStart, StartFindCompany, StartHold, FindFreeAgents, NoFreeAgent, PickAgent, LinkAgent,
   CallAgent, AgentVanished, FindCustomer, Join, JoinRejected, Connected, AgentBusy,
   HoldTimeout, HoldDrop, HoldRelease, AgentReturns, vars, db, memory, asterisk, startVars,
   upVars, endVars

\* chan is written by every request to Asterisk and by Asterisk itself.
LEMMA ChanWriters ==
  ASSUME [Next]_vars
  PROVE  \/ chan' = chan
         \/ \E c \in Calls, a \in Agents, l \in Leads : Originate(c, a, l)
         \/ \E c \in Calls : OriginateRefused(c)
         \/ \E c \in Calls : OriginateRefusedLead(c)
         \/ \E x \in Legs : Answer(x)
         \/ \E x \in Legs : End(x)
         \/ \E c \in Calls : AgentRefused(c)
         \/ \E c \in Calls : CallAgent(c)
         \/ \E c \in Calls : FindCustomer(c)
         \/ \E c \in Calls : HoldDrop(c)
         \/ \E x \in Legs : HangUpPair(x)
BY NextCases DEF StasisStart, StartFindCompany, StartHold, FindFreeAgents, NoFreeAgent,
   PickAgent, LinkAgent, AgentVanished, Join, JoinRejected, Connected, AgentBusy, HoldTimeout,
   HoldRelease, Destroyed, CloseLog, MarkLead, Forget, AgentReturns, vars, db, memory, asterisk,
   startVars, upVars, endVars

\* channelToMeta is written when a leg is originated, linked or forgotten.
LEMMA MetaWriters ==
  ASSUME [Next]_vars
  PROVE  \/ channelToMeta' = channelToMeta
         \/ \E c \in Calls, a \in Agents, l \in Leads : Originate(c, a, l)
         \/ \E c \in Calls : LinkAgent(c)
         \/ \E c \in Calls : CallAgent(c)
         \/ \E x \in Legs : Forget(x)
BY NextCases DEF OriginateRefused, OriginateRefusedLead, Answer, End, AgentRefused, StasisStart,
   StartFindCompany, StartHold, FindFreeAgents, NoFreeAgent, PickAgent, AgentVanished,
   FindCustomer, Join, JoinRejected, Connected, AgentBusy, HoldTimeout, HoldDrop, HoldRelease,
   Destroyed, CloseLog, MarkLead, HangUpPair, AgentReturns, vars, db, memory, asterisk,
   startVars, upVars, endVars

\* The choice of an agent is the only writer of picked.
LEMMA PickedWriters ==
  ASSUME [Next]_vars
  PROVE  \/ picked' = picked
         \/ \E c \in Calls, a \in Agents : PickAgent(c, a)
BY NextCases DEF Originate, OriginateRefused, OriginateRefusedLead, Answer, End, AgentRefused,
   StasisStart, StartFindCompany, StartHold, FindFreeAgents, NoFreeAgent, LinkAgent, CallAgent,
   AgentVanished, FindCustomer, Join, JoinRejected, Connected, AgentBusy, HoldTimeout, HoldDrop,
   HoldRelease, Destroyed, CloseLog, MarkLead, HangUpPair, Forget, AgentReturns, vars, db,
   memory, asterisk, startVars, upVars, endVars

\* The handlers that write call logs.
LEMMA LogWriters ==
  ASSUME [Next]_vars
  PROVE  \/ callLog' = callLog
         \/ \E c \in Calls, a \in Agents, l \in Leads : Originate(c, a, l)
         \/ \E c \in Calls : OriginateRefused(c)
         \/ \E x \in Legs : StasisStart(x)
         \/ \E c \in Calls : LinkAgent(c)
         \/ \E c \in Calls : Connected(c)
         \/ \E c \in Calls : HoldTimeout(c)
         \/ \E x \in Legs : CloseLog(x)
BY NextCases DEF OriginateRefusedLead, Answer, End, AgentRefused, StartFindCompany, StartHold,
   FindFreeAgents, NoFreeAgent, PickAgent, CallAgent, AgentVanished, FindCustomer, Join,
   JoinRejected, AgentBusy, HoldDrop, HoldRelease, Destroyed, MarkLead, HangUpPair, Forget,
   AgentReturns, vars, db, memory, asterisk, startVars, upVars, endVars

\* The handlers that write leads.
LEMMA LeadWriters ==
  ASSUME [Next]_vars
  PROVE  \/ crmLead' = crmLead
         \/ \E c \in Calls : OriginateRefusedLead(c)
         \/ \E c \in Calls : MarkLead(c)
BY NextCases DEF Originate, OriginateRefused, Answer, End, AgentRefused, StasisStart,
   StartFindCompany, StartHold, FindFreeAgents, NoFreeAgent, PickAgent, LinkAgent, CallAgent,
   AgentVanished, FindCustomer, Join, JoinRejected, Connected, AgentBusy, HoldTimeout, HoldDrop,
   HoldRelease, Destroyed, CloseLog, HangUpPair, Forget, AgentReturns, vars, db, memory,
   asterisk, startVars, upVars, endVars

\* A call gets its lead when it is originated.
LEMMA LeadOfWriters ==
  ASSUME [Next]_vars
  PROVE  \/ leadOf' = leadOf
         \/ \E c \in Calls, a \in Agents, l \in Leads : Originate(c, a, l)
BY NextCases DEF OriginateRefused, OriginateRefusedLead, Answer, End, AgentRefused, StasisStart,
   StartFindCompany, StartHold, FindFreeAgents, NoFreeAgent, PickAgent, LinkAgent, CallAgent,
   AgentVanished, FindCustomer, Join, JoinRejected, Connected, AgentBusy, HoldTimeout, HoldDrop,
   HoldRelease, Destroyed, CloseLog, MarkLead, HangUpPair, Forget, AgentReturns, vars, db,
   memory, asterisk, startVars, upVars, endVars

\* Only addChannel joins legs.
LEMMA BridgedWriters ==
  ASSUME [Next]_vars
  PROVE  \/ bridged' = bridged
         \/ \E c \in Calls : Join(c)
BY NextCases DEF Originate, OriginateRefused, OriginateRefusedLead, Answer, End, AgentRefused,
   StasisStart, StartFindCompany, StartHold, FindFreeAgents, NoFreeAgent, PickAgent, LinkAgent,
   CallAgent, AgentVanished, FindCustomer, JoinRejected, Connected, AgentBusy, HoldTimeout,
   HoldDrop, HoldRelease, Destroyed, CloseLog, MarkLead, HangUpPair, Forget, AgentReturns, vars,
   db, memory, asterisk, startVars, upVars, endVars

\* seen is a local variable of onChannelDestroyed.
LEMMA SeenWriters ==
  ASSUME [Next]_vars
  PROVE  \/ seen' = seen
         \/ \E x \in Legs : Destroyed(x)
         \/ \E x \in Legs : CloseLog(x)
         \/ \E x \in Legs : Forget(x)
BY NextCases DEF Originate, OriginateRefused, OriginateRefusedLead, Answer, End, AgentRefused,
   StasisStart, StartFindCompany, StartHold, FindFreeAgents, NoFreeAgent, PickAgent, LinkAgent,
   CallAgent, AgentVanished, FindCustomer, Join, JoinRejected, Connected, AgentBusy,
   HoldTimeout, HoldDrop, HoldRelease, MarkLead, HangUpPair, AgentReturns, vars, db, memory,
   asterisk, startVars, upVars, endVars

\* The handlers that arm, clear or run the hold timer.
LEMMA TimerWriters ==
  ASSUME [Next]_vars
  PROVE  \/ holdTimer' = holdTimer
         \/ \E c \in Calls : StartHold(c)
         \/ \E c \in Calls : Connected(c)
         \/ \E c \in Calls : HoldTimeout(c)
         \/ \E c \in Calls : HoldDrop(c)
         \/ \E c \in Calls : HoldRelease(c)
         \/ \E x \in Legs : Destroyed(x)
BY NextCases DEF Originate, OriginateRefused, OriginateRefusedLead, Answer, End, AgentRefused,
   StasisStart, StartFindCompany, FindFreeAgents, NoFreeAgent, PickAgent, LinkAgent, CallAgent,
   AgentVanished, FindCustomer, Join, JoinRejected, AgentBusy, CloseLog, MarkLead, HangUpPair,
   Forget, AgentReturns, vars, db, memory, asterisk, startVars, upVars, endVars

(***************************************************************************)
(* Type correctness.                                                       *)
(***************************************************************************)

\* Writing the status of a call log, or its status and agent, keeps its type.
LEMMA LogWritten ==
  ASSUME callLog \in [Logs -> LogRow], NEW k \in Logs, NEW s \in CallStatus
  PROVE  /\ SetStatus(k, s) => callLog' \in [Logs -> LogRow]
         /\ \A a \in Agents \cup {None} :
              SetStatusAndAgent(k, s, a) => callLog' \in [Logs -> LogRow]
<1>1. [callLog[k] EXCEPT !.status = s] \in LogRow
  BY DEF LogRow
<1>2. SetStatus(k, s) => callLog' \in [Logs -> LogRow]
  BY <1>1 DEF SetStatus
<1>3. \A a \in Agents \cup {None} : [status |-> s, agent |-> a] \in LogRow
  BY DEF LogRow
<1>4. \A a \in Agents \cup {None} :
        SetStatusAndAgent(k, s, a) => callLog' \in [Logs -> LogRow]
  BY <1>3 DEF SetStatusAndAgent
<1> QED
  BY <1>2, <1>4

\* Writing one call log leaves the others alone.
LEMMA LogWrittenAt ==
  ASSUME callLog \in [Logs -> LogRow], NEW k \in Logs, NEW j \in Logs, NEW s, NEW a
  PROVE  /\ SetStatus(k, s) =>
              /\ callLog'[j].agent = callLog[j].agent
              /\ callLog'[j].status = IF j = k THEN s ELSE callLog[j].status
         /\ SetStatusAndAgent(k, s, a) =>
              /\ callLog'[j].agent = IF j = k THEN a ELSE callLog[j].agent
              /\ callLog'[j].status = IF j = k THEN s ELSE callLog[j].status
BY DEF SetStatus, SetStatusAndAgent, LogRow

\* A hangup leaves every channel in a state of its type.
LEMMA HungUpType ==
  ASSUME chan \in [Legs -> ChanState], NEW x \in Legs
  PROVE  HungUp(x) \in [Legs -> ChanState]
<1>1. Ended(chan[x]) \in ChanState
  BY DEF Ended, ChanState
<1> QED
  BY <1>1 DEF HungUp

\* Every action gives each variable a value of its type.
LEMMA TypeInductive == TypeOK /\ [Next]_vars => TypeOK'
<1> SUFFICES ASSUME TypeOK, [Next]_vars PROVE TypeOK'
  OBVIOUS
<1>1. ASSUME NEW c \in Calls, NEW a \in Agents, NEW l \in Leads, Originate(c, a, l) PROVE TypeOK'
  BY <1>1, LegFacts, LogFacts, LogWritten DEF TypeOK, ChanState, Originate, CallStatus, db, memory, asterisk, startVars, upVars, endVars
<1>2. ASSUME NEW c \in Calls, OriginateRefused(c) PROVE TypeOK'
  BY <1>2, LegFacts, LogFacts, LogWritten DEF TypeOK, ChanState, OriginateRefused, CallStatus, db, memory, asterisk, startVars, upVars, endVars
<1>3. ASSUME NEW c \in Calls, OriginateRefusedLead(c) PROVE TypeOK'
  <2>1. \A r \in LeadRow : Refused(r) \in LeadRow
    BY DEF LeadRow, Refused, ContactStatus
  <2>2. crmLead' \in [Leads -> LeadRow]
    BY <1>3, <2>1 DEF TypeOK, OriginateRefusedLead
  <2> QED
    BY <1>3, <2>2, LegFacts
    DEF TypeOK, ChanState, OriginateRefusedLead, memory, startVars, upVars, endVars
<1>4. ASSUME NEW x \in Legs, Answer(x) PROVE TypeOK'
  BY <1>4 DEF TypeOK, ChanState, Answer, db, memory, asterisk, startVars, upVars, endVars
<1>5. ASSUME NEW x \in Legs, End(x) PROVE TypeOK'
  BY <1>5, HungUpType DEF TypeOK, End, db, memory, asterisk, startVars, upVars, endVars
<1>6. ASSUME NEW c \in Calls, AgentRefused(c) PROVE TypeOK'
  BY <1>6, LegFacts DEF TypeOK, ChanState, AgentRefused, db, memory, asterisk, startVars, upVars, endVars
<1>7. ASSUME NEW x \in Legs, StasisStart(x) PROVE TypeOK'
  BY <1>7, LegFacts, LogFacts, LogWritten DEF TypeOK, StasisStart, CallStatus, db, memory, asterisk, startVars, upVars, endVars
<1>8. ASSUME NEW c \in Calls, StartFindCompany(c) PROVE TypeOK'
  BY <1>8, LegFacts, LogFacts DEF TypeOK, LogRow, StartFindCompany, CompanyTag, db, memory, asterisk, startVars, upVars, endVars
<1>9. ASSUME NEW c \in Calls, StartHold(c) PROVE TypeOK'
  BY <1>9, LogFacts DEF TypeOK, StartHold, TimerSet, db, memory, asterisk, startVars, upVars, endVars
<1>10. ASSUME NEW c \in Calls, FindFreeAgents(c) PROVE TypeOK'
  BY <1>10, LegFacts DEF TypeOK, FindFreeAgents, db, memory, asterisk, startVars, upVars, endVars
<1>11. ASSUME NEW c \in Calls, NoFreeAgent(c) PROVE TypeOK'
  BY <1>11, LegFacts, LogFacts DEF TypeOK, NoFreeAgent, db, memory, asterisk, startVars, upVars, endVars
<1>12. ASSUME NEW c \in Calls, NEW a \in Agents, PickAgent(c, a) PROVE TypeOK'
  BY <1>12, LegFacts DEF TypeOK, PickAgent, db, memory, asterisk, startVars, upVars, endVars
<1>13. ASSUME NEW c \in Calls, LinkAgent(c) PROVE TypeOK'
  <2>1. [callLog[Dialed(c)] EXCEPT !.agent = picked[c]] \in LogRow
    BY LogFacts DEF TypeOK, LogRow
  <2>2. callLog' \in [Logs -> LogRow] /\ channelToMeta' \in [Legs -> Agents \cup {None}]
    BY <1>13, <2>1, LegFacts, LogFacts DEF TypeOK, LinkAgent, MetaLinked
  <2> QED
    BY <1>13, <2>2, LegFacts DEF TypeOK, LinkAgent, asterisk, startVars, endVars
<1>14. ASSUME NEW c \in Calls, CallAgent(c) PROVE TypeOK'
  BY <1>14, LegFacts DEF TypeOK, ChanState, CallAgent, db, memory, asterisk, startVars, upVars, endVars
<1>15. ASSUME NEW c \in Calls, AgentVanished(c) PROVE TypeOK'
  BY <1>15, LegFacts DEF TypeOK, AgentVanished, db, memory, asterisk, startVars, upVars, endVars
<1>16. ASSUME NEW c \in Calls, FindCustomer(c) PROVE TypeOK'
  <2>1. chan' \in [Legs -> ChanState]
    BY <1>16, LegFacts, HungUpType DEF TypeOK, FindCustomer
  <2> QED
    BY <1>16, <2>1, LegFacts DEF TypeOK, FindCustomer, db, memory, startVars, endVars
<1>17. ASSUME NEW c \in Calls, Join(c) PROVE TypeOK'
  BY <1>17, LegFacts DEF TypeOK, Join, db, memory, asterisk, startVars, upVars, endVars
<1>18. ASSUME NEW c \in Calls, JoinRejected(c) PROVE TypeOK'
  BY <1>18, LegFacts DEF TypeOK, JoinRejected, db, memory, asterisk, startVars, upVars, endVars
<1>19. ASSUME NEW c \in Calls, Connected(c) PROVE TypeOK'
  BY <1>19, LegFacts, LogFacts, LogWritten DEF TypeOK, Connected, TimerCleared, CallStatus, db, memory, asterisk, startVars, upVars, endVars
<1>20. ASSUME NEW c \in Calls, AgentBusy(c) PROVE TypeOK'
  BY <1>20, LegFacts DEF TypeOK, AgentBusy, db, memory, asterisk, startVars, upVars, endVars
<1>21. ASSUME NEW c \in Calls, HoldTimeout(c) PROVE TypeOK'
  BY <1>21, LogFacts, LogWritten DEF TypeOK, HoldTimeout, CallStatus, db, memory, asterisk, startVars, upVars, endVars
<1>22. ASSUME NEW c \in Calls, HoldDrop(c) PROVE TypeOK'
  BY <1>22, LegFacts, HungUpType DEF TypeOK, HoldDrop, db, memory, asterisk, startVars, upVars, endVars
<1>23. ASSUME NEW c \in Calls, HoldRelease(c) PROVE TypeOK'
  BY <1>23, LogFacts DEF TypeOK, HoldRelease, db, memory, asterisk, startVars, upVars, endVars
<1>24. ASSUME NEW x \in Legs, Destroyed(x) PROVE TypeOK'
  BY <1>24, LegFacts, LogFacts DEF TypeOK, LogRow, Destroyed, TimerCleared, db, memory, asterisk, startVars, upVars, endVars
<1>25. ASSUME NEW x \in Legs, CloseLog(x) PROVE TypeOK'
  BY <1>25, LegFacts, LogFacts, LogWritten DEF TypeOK, CloseLog, FinalStatus, AfterClose, CallStatus, db, memory, asterisk, startVars, upVars, endVars
<1>26. ASSUME NEW c \in Calls, MarkLead(c) PROVE TypeOK'
  BY <1>26, LegFacts DEF TypeOK, LeadRow, MarkLead, ContactOf, ContactStatus, db, memory, asterisk, startVars, upVars, endVars
<1>27. ASSUME NEW x \in Legs, HangUpPair(x) PROVE TypeOK'
  BY <1>27, LegFacts, HungUpType DEF TypeOK, HangUpPair, PairHungUp, db, memory, asterisk, startVars, upVars, endVars
<1>28. ASSUME NEW x \in Legs, Forget(x) PROVE TypeOK'
  BY <1>28, LegFacts, LogFacts DEF TypeOK, Forget, MetaForgotten, CallStatus, db, memory, asterisk, startVars, upVars, endVars
<1>29. ASSUME NEW a \in Agents, AgentReturns(a) PROVE TypeOK'
  BY <1>29 DEF TypeOK, AgentReturns, db, memory, asterisk, startVars, upVars, endVars
<1>30. CASE UNCHANGED vars
  BY <1>30 DEF TypeOK, vars, db, memory, asterisk, startVars, upVars, endVars
<1> QED
  BY NextCases, <1>1, <1>2, <1>3, <1>4, <1>5, <1>6, <1>7, <1>8, <1>9, <1>10, <1>11, <1>12, <1>13, <1>14, <1>15, <1>16, <1>17, <1>18, <1>19, <1>20, <1>21, <1>22, <1>23, <1>24, <1>25, <1>26, <1>27, <1>28, <1>29, <1>30

\* Init and every action give each variable a value of its type.
THEOREM TypeCorrect == Spec => []TypeOK
<1>1. Init => TypeOK
  BY DEF Init, TypeOK, LogRow, LeadRow, ChanState, CallStatus, ContactStatus
<1> QED
  BY <1>1, TypeInductive, PTL DEF Spec

(***************************************************************************)
(* The order of a call.  A handler of a leg runs only once its event can   *)
(* have come, the agent leg is only created at the end of the customer's   *)
(* handler, and channels only ever move forward.                           *)
(***************************************************************************)

StartedAnswered == \A x \in Legs : startPc[x] # "idle" => Answered(x)

UpAnswered == \A x \in Legs : upPc[x] # "idle" => Answered(x)

EndedGone == \A x \in Legs : endPc[x] # "idle" => Gone(x)

AgentLegLast == \A c \in Calls : upPc[Customer(c)] # "done" => chan[AgentLeg(c)] = "none"

Order == StartedAnswered /\ UpAnswered /\ EndedGone /\ AgentLegLast

\* The states a channel may be in after one step.
ChanAfter(s) ==
  CASE s = "none" -> {"none", "dialing"}
    [] s = "dialing" -> {"dialing", "up", "unanswered", "refused"}
    [] s = "up" -> {"up", "over"}
    [] s = "refused" -> {"refused", "failed"}
    [] OTHER -> {s}

LEMMA HungUpForward ==
  ASSUME TypeOK, NEW x \in Legs, NEW y \in Legs
  PROVE  /\ HungUp(x)[y] \in ChanAfter(chan[y])
         /\ chan[y] = "none" => HungUp(x)[y] = "none"
BY DEF TypeOK, HungUp, Ended, ChanState, ChanAfter

\* A channel only moves forward: "Channel not found" is swallowed, and an agent
\* leg is originated once.
LEMMA ChanForward ==
  ASSUME TypeOK, AgentLegLast, [Next]_vars
  PROVE  \A x \in Legs : chan'[x] \in ChanAfter(chan[x])
<1> SUFFICES ASSUME NEW y \in Legs PROVE chan'[y] \in ChanAfter(chan[y])
  OBVIOUS
<1>1. CASE chan' = chan
  BY <1>1 DEF ChanAfter, TypeOK, ChanState
<1>2. ASSUME NEW c \in Calls, NEW a \in Agents, NEW l \in Leads, Originate(c, a, l)
      PROVE  chan'[y] \in ChanAfter(chan[y])
  BY <1>2, LegFacts DEF Originate, ChanAfter, TypeOK, ChanState
<1>3. ASSUME NEW c \in Calls, OriginateRefused(c) PROVE chan'[y] \in ChanAfter(chan[y])
  BY <1>3, LegFacts DEF OriginateRefused, ChanAfter, TypeOK, ChanState
<1>4. ASSUME NEW c \in Calls, OriginateRefusedLead(c) PROVE chan'[y] \in ChanAfter(chan[y])
  BY <1>4, LegFacts DEF OriginateRefusedLead, ChanAfter, TypeOK, ChanState
<1>5. ASSUME NEW x \in Legs, Answer(x) PROVE chan'[y] \in ChanAfter(chan[y])
  BY <1>5 DEF Answer, ChanAfter, TypeOK, ChanState
<1>6. ASSUME NEW x \in Legs, End(x) PROVE chan'[y] \in ChanAfter(chan[y])
  BY <1>6, HungUpForward DEF End
<1>7. ASSUME NEW c \in Calls, AgentRefused(c) PROVE chan'[y] \in ChanAfter(chan[y])
  BY <1>7, LegFacts DEF AgentRefused, ChanAfter, TypeOK, ChanState
<1>8. ASSUME NEW c \in Calls, CallAgent(c) PROVE chan'[y] \in ChanAfter(chan[y])
  BY <1>8, LegFacts DEF CallAgent, AgentLegLast, ChanAfter, TypeOK, ChanState
<1>9. ASSUME NEW c \in Calls, FindCustomer(c) PROVE chan'[y] \in ChanAfter(chan[y])
  BY <1>1, <1>9, HungUpForward, LegFacts DEF FindCustomer
<1>10. ASSUME NEW c \in Calls, HoldDrop(c) PROVE chan'[y] \in ChanAfter(chan[y])
  BY <1>10, HungUpForward, LegFacts DEF HoldDrop
<1>11. ASSUME NEW x \in Legs, HangUpPair(x) PROVE chan'[y] \in ChanAfter(chan[y])
  BY <1>11, HungUpForward, LegFacts DEF HangUpPair, PairHungUp
<1> QED
  BY ChanWriters, <1>1, <1>2, <1>3, <1>4, <1>5, <1>6, <1>7, <1>8, <1>9, <1>10, <1>11

\* Answered and Gone are for ever, and a channel that is none has not begun.
LEMMA AnsweredForever ==
  ASSUME TypeOK, AgentLegLast, [Next]_vars, NEW x \in Legs
  PROVE  /\ Answered(x) => Answered(x)'
         /\ Gone(x) => Gone(x)'
         /\ chan[x] # "none" => chan'[x] # "none"
BY ChanForward DEF Answered, Gone, ChanAfter, TypeOK, ChanState

\* A leg comes into being when it is originated.
LEMMA LegOriginated ==
  ASSUME TypeOK, [Next]_vars, NEW y \in Legs, chan[y] = "none", chan'[y] # "none"
  PROVE  \/ \E c \in Calls, a \in Agents, l \in Leads : Originate(c, a, l) /\ y = Customer(c)
         \/ \E c \in Calls : CallAgent(c) /\ y = AgentLeg(c)
<1>1. ASSUME NEW c \in Calls, NEW a \in Agents, NEW l \in Leads, Originate(c, a, l)
      PROVE  y = Customer(c)
  BY <1>1, LegFacts DEF Originate, TypeOK
<1>2. ASSUME NEW c \in Calls, CallAgent(c) PROVE y = AgentLeg(c)
  BY <1>2, LegFacts DEF CallAgent, TypeOK
<1>3. ASSUME NEW x \in Legs, End(x) \/ HangUpPair(x) PROVE FALSE
  BY <1>3, HungUpForward, LegFacts DEF End, HangUpPair, PairHungUp
<1>4. ASSUME NEW c \in Calls, FindCustomer(c) \/ HoldDrop(c) PROVE FALSE
  BY <1>4, HungUpForward, LegFacts DEF FindCustomer, HoldDrop
<1>5. ASSUME NEW c \in Calls, OriginateRefused(c) \/ OriginateRefusedLead(c) \/ AgentRefused(c)
      PROVE  FALSE
  BY <1>5, LegFacts DEF OriginateRefused, OriginateRefusedLead, AgentRefused, TypeOK
<1>6. ASSUME NEW x \in Legs, Answer(x) PROVE FALSE
  BY <1>6 DEF Answer, TypeOK
<1> QED
  BY ChanWriters, <1>1, <1>2, <1>3, <1>4, <1>5, <1>6

\* The clean-up of a leg ends once.
LEMMA DoneForever ==
  ASSUME TypeOK, [Next]_vars, NEW y \in Legs, endPc[y] = "done"
  PROVE  endPc'[y] = "done"
<1>1. ASSUME NEW x \in Legs, Destroyed(x) \/ CloseLog(x) \/ HangUpPair(x) \/ Forget(x)
      PROVE  endPc'[y] = "done"
  BY <1>1 DEF Destroyed, CloseLog, HangUpPair, Forget, TypeOK
<1>2. ASSUME NEW c \in Calls, MarkLead(c) PROVE endPc'[y] = "done"
  BY <1>2, LegFacts DEF MarkLead, TypeOK
<1> QED
  BY EndPcWriters, <1>1, <1>2

LEMMA OrderInductive == TypeOK /\ Order /\ [Next]_vars => Order'
<1> SUFFICES ASSUME TypeOK, Order, [Next]_vars PROVE Order'
  OBVIOUS
<1> USE DEF Order
<1>1. StartedAnswered'
  <2> SUFFICES ASSUME NEW y \in Legs, startPc'[y] # "idle" PROVE Answered(y)'
    BY DEF StartedAnswered
  <2>1. CASE startPc[y] # "idle"
    BY <2>1, AnsweredForever DEF StartedAnswered
  <2>2. CASE startPc[y] = "idle"
    <3>1. Answered(y)
      BY <2>2, StartWriters, LegFacts
      DEF StasisStart, StartFindCompany, StartHold, TypeOK
    <3> QED
      BY <3>1, AnsweredForever
  <2> QED
    BY <2>1, <2>2
<1>2. UpAnswered'
  <2> SUFFICES ASSUME NEW y \in Legs, upPc'[y] # "idle" PROVE Answered(y)'
    BY DEF UpAnswered
  <2>1. CASE upPc[y] # "idle"
    BY <2>1, AnsweredForever DEF UpAnswered
  <2>2. CASE upPc[y] = "idle"
    <3>1. Answered(y)
      BY <2>2, UpWriters, LegFacts
      DEF FindFreeAgents, NoFreeAgent, PickAgent, LinkAgent, CallAgent, AgentVanished, FindCustomer,
          Join, JoinRejected, Connected, AgentBusy, TypeOK
    <3> QED
      BY <3>1, AnsweredForever
  <2> QED
    BY <2>1, <2>2
<1>3. EndedGone'
  <2> SUFFICES ASSUME NEW y \in Legs, endPc'[y] # "idle" PROVE Gone(y)'
    BY DEF EndedGone
  <2>1. CASE endPc[y] # "idle"
    BY <2>1, AnsweredForever DEF EndedGone
  <2>2. CASE endPc[y] = "idle"
    <3>1. Gone(y)
      <4>1. PICK x \in Legs : Destroyed(x) \/ CloseLog(x) \/ HangUpPair(x) \/ Forget(x) \/ MarkLead(x[1])
        BY <2>2, EndPcWriters, LegFacts
      <4>2. x = y /\ Destroyed(x)
        BY <2>2, <4>1, LegFacts DEF Destroyed, CloseLog, MarkLead, HangUpPair, Forget, TypeOK
      <4> QED
        BY <4>2 DEF Destroyed
    <3> QED
      BY <3>1, AnsweredForever
  <2> QED
    BY <2>1, <2>2
<1>4. AgentLegLast'
  <2> SUFFICES ASSUME NEW d \in Calls, upPc'[Customer(d)] # "done"
               PROVE  chan'[AgentLeg(d)] = "none"
    BY DEF AgentLegLast
  <2>1. upPc[Customer(d)] # "done"
    BY UpWriters, LegFacts
    DEF FindFreeAgents, NoFreeAgent, PickAgent, LinkAgent, CallAgent, AgentVanished, FindCustomer,
        Join, JoinRejected, Connected, AgentBusy, TypeOK
  <2>2. chan[AgentLeg(d)] = "none"
    BY <2>1 DEF AgentLegLast
  <2> QED
    <3>1. ASSUME NEW c \in Calls, CallAgent(c) PROVE c # d
      BY <3>1, LegFacts DEF CallAgent, TypeOK
    <3> QED
      BY <2>2, <3>1, LegOriginated, LegFacts
<1> QED
  BY <1>1, <1>2, <1>3, <1>4

(***************************************************************************)
(* Metas and agents: what the memory says of a leg, and who is linked.     *)
(***************************************************************************)

PickedKnown ==
  \A c \in Calls : upPc[Customer(c)] \in {"linking", "calling"} => picked[c] \in Agents

\* An agent has been linked to the call.
Linked(c) == upPc[Customer(c)] = "calling" \/ chan[AgentLeg(c)] # "none"

\* The metas of a linked call name the agent that was picked.
MetaNamesPicked ==
  \A c \in Calls :
    /\ Linked(c) => channelToMeta[Customer(c)] \in {picked[c], None}
    /\ chan[AgentLeg(c)] # "none" => channelToMeta[AgentLeg(c)] \in {picked[c], None}

LEMMA PickedKnownInductive == TypeOK /\ PickedKnown /\ [Next]_vars => PickedKnown'
<1> SUFFICES ASSUME TypeOK, PickedKnown, [Next]_vars, NEW d \in Calls,
                    upPc'[Customer(d)] \in {"linking", "calling"}
             PROVE  picked'[d] \in Agents
  BY DEF PickedKnown
<1>1. ASSUME NEW c \in Calls, NEW a \in Agents, PickAgent(c, a) PROVE picked'[d] \in Agents
  BY <1>1, LegFacts DEF PickAgent, PickedKnown, TypeOK
<1>2. CASE picked' = picked
  <2>1. upPc[Customer(d)] \in {"linking", "calling"} \/ \E c \in Calls, a \in Agents : PickAgent(c, a)
    BY UpWriters, LegFacts
    DEF FindFreeAgents, NoFreeAgent, LinkAgent, CallAgent, AgentVanished, FindCustomer,
        Join, JoinRejected, Connected, AgentBusy, TypeOK
  <2> QED
    BY <1>1, <1>2, <2>1 DEF PickedKnown
<1> QED
  BY <1>1, <1>2, PickedWriters

\* The clean-up of a leg takes its own meta away and no other.
LEMMA KnownInductive ==
  TypeOK /\ Order /\ PickedKnown /\ KnownUntilForgotten /\ [Next]_vars => KnownUntilForgotten'
<1> SUFFICES ASSUME TypeOK, Order, PickedKnown, KnownUntilForgotten, [Next]_vars, NEW y \in Legs,
                    chan'[y] # "none", endPc'[y] # "done"
             PROVE  channelToMeta'[y] # None
  BY DEF KnownUntilForgotten
<1>1. endPc[y] # "done"
  BY DoneForever
<1>2. CASE chan[y] = "none"
  <2>1. \/ \E c \in Calls, a \in Agents, l \in Leads : Originate(c, a, l) /\ y = Customer(c)
        \/ \E c \in Calls : CallAgent(c) /\ y = AgentLeg(c)
    BY <1>2, LegOriginated
  <2> QED
    BY <2>1, LegFacts, NoneAssumption DEF Originate, CallAgent, PickedKnown, TypeOK
<1>3. CASE chan[y] # "none"
  <2>1. channelToMeta[y] # None
    BY <1>1, <1>3 DEF KnownUntilForgotten
  <2>2. ASSUME NEW x \in Legs, Forget(x) PROVE x # y
    BY <2>2 DEF Forget, TypeOK
  <2> QED
    BY <2>1, <2>2, MetaWriters, LegFacts, NoneAssumption
    DEF Originate, LinkAgent, MetaLinked, CallAgent, Forget, MetaForgotten, PickedKnown, TypeOK
<1> QED
  BY <1>2, <1>3

LEMMA LinkedStays ==
  ASSUME TypeOK, Order, [Next]_vars, NEW c \in Calls, Linked(c)'
  PROVE  /\ Linked(c) \/ LinkAgent(c)
         /\ picked'[c] = picked[c]
<1>1. chan'[AgentLeg(c)] # "none" => chan[AgentLeg(c)] # "none" \/ CallAgent(c)
  BY LegOriginated, LegFacts
<1>2. upPc[Customer(c)] \notin {"idle", "picking"}
  <2>1. CASE upPc'[Customer(c)] = "calling"
    BY <2>1, UpWriters, LegFacts
    DEF FindFreeAgents, NoFreeAgent, PickAgent, LinkAgent, CallAgent, AgentVanished, FindCustomer,
        Join, JoinRejected, Connected, AgentBusy, TypeOK
  <2>2. CASE chan'[AgentLeg(c)] # "none"
    BY <1>1, <2>2 DEF Order, AgentLegLast, CallAgent
  <2> QED
    BY <2>1, <2>2 DEF Linked
<1>3. picked'[c] = picked[c]
  BY <1>2, PickedWriters DEF PickAgent, TypeOK
<1>4. upPc'[Customer(c)] = "calling" => Linked(c) \/ LinkAgent(c)
  BY UpWriters, LegFacts
  DEF Linked, FindFreeAgents, NoFreeAgent, PickAgent, LinkAgent, CallAgent, AgentVanished,
      FindCustomer, Join, JoinRejected, Connected, AgentBusy, TypeOK
<1>5. chan'[AgentLeg(c)] # "none" => Linked(c) \/ LinkAgent(c)
  BY <1>1 DEF Linked, CallAgent
<1> QED
  BY <1>3, <1>4, <1>5 DEF Linked

LEMMA MetaNamesPickedInductive ==
  TypeOK /\ Order /\ MetaNamesPicked /\ [Next]_vars => MetaNamesPicked'
<1> SUFFICES ASSUME TypeOK, Order, MetaNamesPicked, [Next]_vars, NEW d \in Calls
             PROVE  /\ Linked(d)' => channelToMeta'[Customer(d)] \in {picked'[d], None}
                    /\ chan'[AgentLeg(d)] # "none" =>
                         channelToMeta'[AgentLeg(d)] \in {picked'[d], None}
  BY DEF MetaNamesPicked
<1>1. ASSUME NEW c \in Calls, NEW a \in Agents, NEW l \in Leads, Originate(c, a, l), Linked(d)
      PROVE  c # d
  BY <1>1, LegFacts DEF Originate, Order, UpAnswered, Answered, AgentLegLast, Linked
<1>2. ASSUME Linked(d)' PROVE channelToMeta'[Customer(d)] \in {picked'[d], None}
  <2>1. picked'[d] = picked[d] /\ (Linked(d) \/ LinkAgent(d))
    BY <1>2, LinkedStays
  <2>2. CASE LinkAgent(d)
    BY <2>1, <2>2, LegFacts DEF LinkAgent, MetaLinked, TypeOK
  <2>3. CASE Linked(d)
    <3>1. channelToMeta[Customer(d)] \in {picked[d], None}
      BY <2>3 DEF MetaNamesPicked
    <3> QED
      BY <1>1, <2>1, <2>3, <3>1, MetaWriters, LegFacts
      DEF Originate, LinkAgent, MetaLinked, CallAgent, Forget, MetaForgotten, TypeOK
  <2> QED
    BY <2>1, <2>2, <2>3
<1>3. ASSUME chan'[AgentLeg(d)] # "none"
      PROVE  channelToMeta'[AgentLeg(d)] \in {picked'[d], None}
  <2>1. picked'[d] = picked[d]
    BY <1>3, LinkedStays DEF Linked
  <2>2. CASE CallAgent(d)
    BY <2>1, <2>2, LegFacts DEF CallAgent, TypeOK
  <2>3. CASE ~CallAgent(d)
    <3>1. channelToMeta[AgentLeg(d)] \in {picked[d], None}
      BY <1>3, <2>3, LegOriginated, LegFacts DEF MetaNamesPicked
    <3> QED
      BY <2>1, <2>3, <3>1, MetaWriters, LegFacts
      DEF Originate, LinkAgent, MetaLinked, CallAgent, Forget, MetaForgotten, TypeOK
  <2> QED
    BY <2>2, <2>3
<1> QED
  BY <1>2, <1>3

\* Whoever writes the call log of a linked call writes the linked agent.
LEMMA AttributedInductive ==
  TypeOK /\ Order /\ KnownUntilForgotten /\ MetaNamesPicked /\ AttributedToLinkedAgent
  /\ [Next]_vars => AttributedToLinkedAgent'
<1> SUFFICES ASSUME TypeOK, Order, KnownUntilForgotten, MetaNamesPicked, AttributedToLinkedAgent,
                    [Next]_vars, NEW d \in Calls, Linked(d)'
             PROVE  callLog'[Dialed(d)].agent = picked'[d]
  BY DEF AttributedToLinkedAgent, Linked
<1>1. picked'[d] = picked[d] /\ (Linked(d) \/ LinkAgent(d))
  BY LinkedStays
<1>2. CASE LinkAgent(d)
  BY <1>1, <1>2, LogFacts DEF LinkAgent, TypeOK, LogRow
<1>3. CASE Linked(d)
  <2>1. callLog[Dialed(d)].agent = picked[d]
    BY <1>3 DEF AttributedToLinkedAgent, Linked
  <2>2. ASSUME NEW c \in Calls, NEW a \in Agents, NEW l \in Leads, Originate(c, a, l)
        PROVE  c # d
    BY <1>3, <2>2, LegFacts DEF Originate, Order, UpAnswered, Answered, AgentLegLast, Linked
  <2>3. ASSUME NEW x \in Legs, CloseLog(x), x[1] = d PROVE channelToMeta[x] = picked[d]
    <3>1. chan[x] # "none" /\ endPc[x] # "done"
      BY <2>3 DEF CloseLog, Order, EndedGone, Gone
    <3> QED
      BY <1>3, <2>3, <3>1, LegFacts DEF KnownUntilForgotten, MetaNamesPicked
  <2>4. ASSUME NEW k \in Logs, NEW s, SetStatus(k, s) PROVE callLog'[Dialed(d)].agent = picked[d]
    BY <2>1, <2>4, LogFacts DEF SetStatus, TypeOK, LogRow
  <2>5. CASE callLog' = callLog
    BY <1>1, <2>1, <2>5
  <2>6. ASSUME NEW c \in Calls, LinkAgent(c) \/ Connected(c)
        PROVE  callLog'[Dialed(d)].agent = picked[d]
    <3>1. CASE LinkAgent(c)
      BY <2>1, <3>1, LogFacts DEF LinkAgent, TypeOK, LogRow
    <3>2. CASE Connected(c)
      BY <2>1, <3>2, LogFacts, LogWrittenAt DEF Connected, TypeOK
    <3> QED
      BY <2>6, <3>1, <3>2
  <2>7. ASSUME NEW x \in Legs, CloseLog(x) PROVE callLog'[Dialed(d)].agent = picked[d]
    <3>1. SetStatusAndAgent(Dialed(x[1]), FinalStatus(seen[x]), channelToMeta[x])
      BY <2>7 DEF CloseLog
    <3> QED
      BY <2>1, <2>3, <2>7, <3>1, LogFacts, LegFacts, LogWrittenAt DEF TypeOK
  <2>8. ASSUME NEW c \in Calls, NEW a \in Agents, NEW l \in Leads, Originate(c, a, l)
        PROVE  callLog'[Dialed(d)].agent = picked[d]
    BY <2>1, <2>2, <2>8, LogFacts DEF Originate, SetStatusAndAgent, TypeOK
  <2>9. ASSUME NEW c \in Calls, OriginateRefused(c) \/ HoldTimeout(c)
        PROVE  callLog'[Dialed(d)].agent = picked[d]
    BY <2>4, <2>5, <2>9, <2>1, LogFacts DEF OriginateRefused, HoldTimeout
  <2>10. ASSUME NEW x \in Legs, StasisStart(x) PROVE callLog'[Dialed(d)].agent = picked[d]
    BY <2>4, <2>10, LogFacts, LegFacts DEF StasisStart
  <2> QED
    BY <1>1, <2>5, <2>6, <2>7, <2>8, <2>9, <2>10, LogWriters
<1> QED
  BY <1>1, <1>2, <1>3

(***************************************************************************)
(* Joined legs.                                                            *)
(***************************************************************************)

BridgedAnswered == \A x \in Legs : bridged[x[1]] => Answered(x)

JoinedIsBridged == \A c \in Calls : upPc[AgentLeg(c)] = "joined" => bridged[c]

LEMMA BridgedInductive ==
  TypeOK /\ Order /\ BridgedAnswered /\ JoinedIsBridged /\ [Next]_vars
    => BridgedAnswered' /\ JoinedIsBridged'
<1> SUFFICES ASSUME TypeOK, Order, BridgedAnswered, JoinedIsBridged, [Next]_vars
             PROVE  BridgedAnswered' /\ JoinedIsBridged'
  OBVIOUS
<1>1. BridgedAnswered'
  <2> SUFFICES ASSUME NEW y \in Legs, bridged'[y[1]] PROVE Answered(y)'
    BY DEF BridgedAnswered
  <2>1. Answered(y)
    <3>1. CASE bridged[y[1]]
      BY <3>1 DEF BridgedAnswered
    <3>2. CASE ~bridged[y[1]]
      <4>1. Join(y[1])
        <5>1. PICK c \in Calls : Join(c)
          BY <3>2, BridgedWriters
        <5>2. c = y[1]
          BY <3>2, <5>1, LegFacts DEF Join, TypeOK
        <5> QED
          BY <5>1, <5>2
      <4> QED
        BY <4>1, LegFacts DEF Join, Answered
    <3> QED
      BY <3>1, <3>2
  <2> QED
    BY <2>1, AnsweredForever DEF Order
<1>2. JoinedIsBridged'
  <2> SUFFICES ASSUME NEW d \in Calls, upPc'[AgentLeg(d)] = "joined" PROVE bridged'[d]
    BY DEF JoinedIsBridged
  <2>1. CASE Join(d)
    BY <2>1 DEF Join, TypeOK
  <2>2. CASE ~Join(d)
    <3>1. upPc[AgentLeg(d)] = "joined"
      BY <2>2, UpWriters, LegFacts
      DEF FindFreeAgents, NoFreeAgent, PickAgent, LinkAgent, CallAgent, AgentVanished, FindCustomer,
          Join, JoinRejected, Connected, AgentBusy, TypeOK
    <3>2. bridged[d]
      BY <3>1 DEF JoinedIsBridged
    <3> QED
      BY <3>2, BridgedWriters DEF Join, TypeOK
  <2> QED
    BY <2>1, <2>2
<1> QED
  BY <1>1, <1>2

\* The clean-up of one leg of a bridged call leaves no party alone: it hangs the
\* partner up, or finds its meta gone because the partner ended before.
LEMMA LeftAloneInductive ==
  TypeOK /\ Order /\ KnownUntilForgotten /\ BridgedAnswered /\ NobodyLeftAlone /\ [Next]_vars
    => NobodyLeftAlone'
<1> SUFFICES ASSUME TypeOK, Order, KnownUntilForgotten, BridgedAnswered, NobodyLeftAlone,
                    [Next]_vars, NEW y \in Legs,
                    bridged'[y[1]], endPc'[y] \in {"cleaning", "done"}
             PROVE  Gone(Partner(y))'
  BY DEF NobodyLeftAlone
<1> USE LegFacts
<1>1. CASE ~bridged[y[1]]
  <2>1. Join(y[1])
    BY <1>1, BridgedWriters DEF Join, TypeOK
  <2>2. endPc[y] = "idle" /\ endPc' = endPc
    BY <2>1 DEF Join, Order, EndedGone, Gone, endVars
  <2> QED
    BY <2>2
<1>2. CASE bridged[y[1]] /\ endPc[y] \in {"cleaning", "done"}
  BY <1>2, AnsweredForever DEF NobodyLeftAlone, Order
<1>3. CASE bridged[y[1]] /\ endPc[y] \notin {"cleaning", "done"}
  <2>1. HangUpPair(y) \/ Forget(y)
    <3>1. ASSUME NEW x \in Legs, HangUpPair(x) \/ Forget(x) PROVE x = y
      BY <1>3, <3>1 DEF HangUpPair, Forget, TypeOK
    <3>2. ASSUME NEW x \in Legs, Destroyed(x) \/ CloseLog(x) PROVE FALSE
      BY <1>3, <3>2 DEF Destroyed, CloseLog, AfterClose, TypeOK
    <3>3. ASSUME NEW c \in Calls, MarkLead(c) PROVE FALSE
      BY <1>3, <3>3 DEF MarkLead, TypeOK
    <3> QED
      BY <1>3, <3>1, <3>2, <3>3, EndPcWriters
  <2>2. Answered(Partner(y))
    BY <1>3 DEF BridgedAnswered
  <2>3. CASE HangUpPair(y)
    BY <2>2, <2>3 DEF HangUpPair, PairHungUp, HungUp, Ended, Answered, Gone, TypeOK
  <2>4. CASE Forget(y)
    <3>1. channelToMeta[Partner(y)] = None
      BY <1>3, <2>4 DEF Forget
    <3>2. Gone(Partner(y))
      BY <2>2, <3>1 DEF KnownUntilForgotten, Answered, Order, EndedGone
    <3> QED
      BY <3>2, AnsweredForever DEF Order
  <2> QED
    BY <2>1, <2>3, <2>4
<1> QED
  BY <1>1, <1>2, <1>3

(***************************************************************************)
(* What is recorded of a call.                                             *)
(***************************************************************************)

\* A stale status that a ChannelDestroyed handler works from is a true one.
SeenIsTrue == \A x \in Legs : seen[x] \in {"CONNECTED", "HUNGUP"} => bridged[x[1]]

LEMMA BridgedForever ==
  ASSUME TypeOK, [Next]_vars, NEW c \in Calls, bridged[c]
  PROVE  bridged'[c]
BY BridgedWriters DEF Join, TypeOK

\* A call keeps its lead, once it has been originated.
LEMMA LeadOfForever ==
  ASSUME TypeOK, [Next]_vars, NEW c \in Calls, chan[Customer(c)] # "none"
  PROVE  leadOf'[c] = leadOf[c]
BY LeadOfWriters DEF Originate, TypeOK

LEMMA SeenInductive ==
  TypeOK /\ NoFalseAnswer /\ SeenIsTrue /\ [Next]_vars => SeenIsTrue'
<1> SUFFICES ASSUME TypeOK, NoFalseAnswer, SeenIsTrue, [Next]_vars, NEW y \in Legs,
                    seen'[y] \in {"CONNECTED", "HUNGUP"}
             PROVE  bridged[y[1]]
  BY BridgedForever, LegFacts DEF SeenIsTrue
<1>1. ASSUME NEW x \in Legs, Destroyed(x) PROVE bridged[y[1]]
  BY <1>1, LegFacts DEF Destroyed, NoFalseAnswer, SeenIsTrue, TypeOK
<1>2. ASSUME NEW x \in Legs, CloseLog(x) PROVE bridged[y[1]]
  BY <1>2 DEF CloseLog, FinalStatus, SeenIsTrue, TypeOK
<1>3. ASSUME NEW x \in Legs, Forget(x) PROVE bridged[y[1]]
  BY <1>3 DEF Forget, SeenIsTrue, TypeOK
<1>4. CASE seen' = seen
  BY <1>4 DEF SeenIsTrue
<1> QED
  BY SeenWriters, <1>1, <1>2, <1>3, <1>4

LEMMA NoFalseAnswerInductive ==
  TypeOK /\ BridgedAnswered /\ JoinedIsBridged /\ SeenIsTrue /\ NoFalseAnswer /\ [Next]_vars
    => NoFalseAnswer'
<1> SUFFICES ASSUME TypeOK, BridgedAnswered, JoinedIsBridged, SeenIsTrue, NoFalseAnswer, [Next]_vars
             PROVE  NoFalseAnswer'
  OBVIOUS
<1>1. ASSUME NEW d \in Calls, callLog'[Dialed(d)].status \in {"CONNECTED", "HUNGUP"}
      PROVE  bridged'[d]
  <2> SUFFICES ASSUME callLog[Dialed(d)].status \notin {"CONNECTED", "HUNGUP"} PROVE bridged[d]
    BY BridgedForever DEF NoFalseAnswer
  <2>1. ASSUME NEW k \in Logs, NEW s \in {"INTERNAL_ERROR", "RINGING", "NO_ANSWER"}, SetStatus(k, s)
        PROVE  FALSE
    <3>1. callLog'[Dialed(d)].status \in {s, callLog[Dialed(d)].status}
      BY <2>1, LogFacts DEF SetStatus, TypeOK, LogRow
    <3> QED
      BY <1>1, <3>1
  <2>2. ASSUME NEW c \in Calls, Connected(c) PROVE bridged[d]
    <3>1. c = d
      BY <1>1, <2>2, LogFacts, LogWrittenAt DEF Connected, TypeOK
    <3> QED
      BY <2>2, <3>1 DEF Connected, JoinedIsBridged
  <2>3. ASSUME NEW x \in Legs, CloseLog(x) PROVE bridged[d]
    <3>1. SetStatusAndAgent(Dialed(x[1]), FinalStatus(seen[x]), channelToMeta[x])
      BY <2>3 DEF CloseLog
    <3>2. x[1] = d /\ FinalStatus(seen[x]) \in {"CONNECTED", "HUNGUP"}
      BY <1>1, <3>1, LogFacts, LegFacts, LogWrittenAt DEF TypeOK
    <3> QED
      BY <3>2 DEF FinalStatus, SeenIsTrue
  <2>4. ASSUME NEW c \in Calls, NEW a \in Agents, NEW l \in Leads, Originate(c, a, l) PROVE FALSE
    BY <1>1, <2>4, LogFacts, LogWrittenAt DEF Originate, TypeOK
  <2>5. ASSUME NEW c \in Calls, LinkAgent(c) PROVE FALSE
    BY <1>1, <2>5, LogFacts DEF LinkAgent, TypeOK, LogRow
  <2>6. ASSUME NEW c \in Calls, OriginateRefused(c) \/ HoldTimeout(c) PROVE FALSE
    BY <1>1, <2>1, <2>6, LogFacts DEF OriginateRefused, HoldTimeout
  <2>7. ASSUME NEW x \in Legs, StasisStart(x) PROVE FALSE
    BY <2>1, <2>7, LogFacts, LegFacts DEF StasisStart
  <2> QED
    BY <1>1, <2>2, <2>3, <2>4, <2>5, <2>6, <2>7, LogWriters
<1>2. ASSUME NEW l \in Leads, crmLead'[l].contactStatus = "Answered"
      PROVE  \E c \in Calls : leadOf'[c] = l /\ bridged'[c]
  <2>1. ASSUME NEW c \in Calls, leadOf[c] = l, bridged[c] PROVE leadOf'[c] = l /\ bridged'[c]
    BY <2>1, BridgedForever, LeadOfForever, LegFacts DEF BridgedAnswered, Answered
  <2>2. CASE crmLead[l].contactStatus = "Answered"
    BY <2>1, <2>2 DEF NoFalseAnswer
  <2>3. CASE crmLead[l].contactStatus # "Answered"
    <3>1. ASSUME NEW c \in Calls, OriginateRefusedLead(c) PROVE FALSE
      BY <1>2, <2>3, <3>1 DEF OriginateRefusedLead, Refused, TypeOK, LeadRow
    <3>2. ASSUME NEW c \in Calls, MarkLead(c) PROVE leadOf[c] = l /\ bridged[c]
      <4>1. leadOf[c] = l /\ ContactOf(seen[Customer(c)]) = "Answered"
        BY <1>2, <2>3, <3>2 DEF MarkLead, TypeOK, LeadRow
      <4> QED
        BY <4>1, LegFacts DEF ContactOf, SeenIsTrue
    <3> QED
      BY <1>2, <2>1, <2>3, <3>1, <3>2, LeadWriters
  <2> QED
    BY <2>2, <2>3
<1> QED
  BY <1>1, <1>2 DEF NoFalseAnswer

\* A lead is closed (isContacted) only when a call to it has ended: never
\* while all its calls still ring or talk.
ClosedAfterEnd ==
  \A l \in Leads : crmLead[l].isContacted =>
    \E c \in Calls : leadOf[c] = l /\ Gone(Customer(c))

LEMMA ClosedInductive ==
  TypeOK /\ Order /\ ClosedAfterEnd /\ [Next]_vars => ClosedAfterEnd'
<1> SUFFICES ASSUME TypeOK, Order, ClosedAfterEnd, [Next]_vars, NEW l \in Leads,
                    crmLead'[l].isContacted
             PROVE  \E c \in Calls : leadOf'[c] = l /\ Gone(Customer(c))'
  BY DEF ClosedAfterEnd
<1>1. ASSUME NEW c \in Calls, leadOf[c] = l, Gone(Customer(c))
      PROVE  leadOf'[c] = l /\ Gone(Customer(c))'
  BY <1>1, LeadOfForever, AnsweredForever, LegFacts DEF Gone, Order
<1>2. CASE crmLead[l].isContacted
  BY <1>1, <1>2 DEF ClosedAfterEnd
<1>3. CASE ~crmLead[l].isContacted
  <2>1. ASSUME NEW c \in Calls, OriginateRefusedLead(c) PROVE FALSE
    BY <1>3, <2>1 DEF OriginateRefusedLead, Refused, TypeOK, LeadRow
  <2>2. ASSUME NEW c \in Calls, MarkLead(c) PROVE leadOf[c] = l /\ Gone(Customer(c))
    BY <1>3, <2>2, LegFacts DEF MarkLead, Order, EndedGone, TypeOK, LeadRow
  <2> QED
    BY <1>1, <1>3, <2>1, <2>2, LeadWriters
<1> QED
  BY <1>2, <1>3

(***************************************************************************)
(* The hold timer.                                                         *)
(***************************************************************************)

\* A waiting customer is timed: the timer is only cleared for a joined or ended
\* call, and when it fires it finds the customer's meta.
LEMMA TimedInductive ==
  TypeOK /\ Order /\ KnownUntilForgotten /\ JoinedIsBridged /\ WaitingIsTimed /\ [Next]_vars
    => WaitingIsTimed'
<1> SUFFICES ASSUME TypeOK, Order, KnownUntilForgotten, JoinedIsBridged, WaitingIsTimed, [Next]_vars,
                    NEW d \in Calls, chan'[Customer(d)] = "up", startPc'[Customer(d)] = "done",
                    ~bridged'[d]
             PROVE  holdTimer'[d] \in {"armed", "dropping"}
  BY DEF WaitingIsTimed
<1>1. ~bridged[d]
  BY BridgedForever
<1>2. chan[Customer(d)] \in {"dialing", "up"}
  BY ChanForward, LegFacts DEF Order, ChanAfter, TypeOK, ChanState
<1>3. CASE StartHold(d)
  BY <1>3 DEF StartHold, TimerSet, TypeOK
<1>4. CASE ~StartHold(d)
  <2>1. startPc[Customer(d)] = "done"
    BY <1>4, StartWriters, LegFacts DEF StasisStart, StartFindCompany, StartHold, TypeOK
  <2>2. chan[Customer(d)] = "up"
    BY <1>2, <2>1, LegFacts DEF Order, StartedAnswered, Answered
  <2>3. holdTimer[d] \in {"armed", "dropping"}
    BY <1>1, <2>1, <2>2 DEF WaitingIsTimed
  <2>4. ASSUME NEW c \in Calls, StartHold(c) \/ HoldRelease(c) PROVE holdTimer'[d] = holdTimer[d]
    BY <1>4, <2>3, <2>4 DEF StartHold, TimerSet, HoldRelease, TypeOK
  <2>5. ASSUME NEW c \in Calls, Connected(c) PROVE holdTimer'[d] = holdTimer[d]
    BY <1>1, <2>5, LegFacts DEF Connected, JoinedIsBridged, TimerCleared, TypeOK
  <2>6. ASSUME NEW c \in Calls, HoldTimeout(c) PROVE holdTimer'[d] \in {"armed", "dropping"}
    <3>1. channelToMeta[Customer(d)] # None
      BY <2>2, LegFacts DEF KnownUntilForgotten, Order, EndedGone, Gone
    <3> QED
      BY <2>3, <2>6, <3>1 DEF HoldTimeout, TypeOK
  <2>7. ASSUME NEW c \in Calls, HoldDrop(c) PROVE c # d
    BY <2>2, <2>7, LegFacts DEF HoldDrop, HungUp, Ended, TypeOK
  <2>8. ASSUME NEW c \in Calls, HoldDrop(c) PROVE holdTimer'[d] = holdTimer[d]
    BY <2>7, <2>8 DEF HoldDrop, TypeOK
  <2>9. ASSUME NEW x \in Legs, Destroyed(x) PROVE holdTimer'[d] = holdTimer[d]
    <3>1. x # Customer(d) /\ holdTimer' = TimerCleared(x)
      BY <2>2, <2>9 DEF Destroyed, Gone
    <3>2. x[1] # d \/ x[2] # "customer"
      BY <3>1, LegFacts
    <3> QED
      BY <3>1, <3>2 DEF TimerCleared, TypeOK
  <2> QED
    BY <2>3, <2>4, <2>5, <2>6, <2>8, <2>9, TimerWriters
<1> QED
  BY <1>3, <1>4

(***************************************************************************)
(* The invariants of the specification.                                    *)
(***************************************************************************)

\* The inductive invariant: the safety properties of CallLifecycle, the order
\* of a call, and what the handlers' local variables say.
IInv ==
  /\ TypeOK /\ Order
  /\ PickedKnown /\ MetaNamesPicked /\ BridgedAnswered /\ JoinedIsBridged /\ SeenIsTrue
  /\ KnownUntilForgotten /\ AttributedToLinkedAgent /\ NobodyLeftAlone
  /\ NoFalseAnswer /\ ClosedAfterEnd /\ WaitingIsTimed

LEMMA InitIInv == Init => IInv
<1> SUFFICES ASSUME Init PROVE IInv
  OBVIOUS
<1>1. TypeOK
  BY DEF Init, TypeOK, LogRow, LeadRow, ChanState, CallStatus, ContactStatus
<1>2. Order /\ PickedKnown /\ MetaNamesPicked /\ KnownUntilForgotten /\ AttributedToLinkedAgent
  BY LegFacts
  DEF Init, Order, StartedAnswered, UpAnswered, EndedGone, AgentLegLast, PickedKnown,
      MetaNamesPicked, Linked, KnownUntilForgotten, AttributedToLinkedAgent
<1>3. BridgedAnswered /\ JoinedIsBridged /\ SeenIsTrue /\ NobodyLeftAlone /\ WaitingIsTimed
  BY LegFacts
  DEF Init, BridgedAnswered, JoinedIsBridged, SeenIsTrue, NobodyLeftAlone, WaitingIsTimed
<1>4. NoFalseAnswer /\ ClosedAfterEnd
  BY LogFacts DEF Init, NoFalseAnswer, ClosedAfterEnd
<1> QED
  BY <1>1, <1>2, <1>3, <1>4 DEF IInv

LEMMA StepKeepsIInv == IInv /\ [Next]_vars => IInv'
<1>1. IInv /\ TypeOK' /\ [Next]_vars => IInv'
  BY OrderInductive, PickedKnownInductive, MetaNamesPickedInductive, BridgedInductive, SeenInductive,
     KnownInductive, AttributedInductive, LeftAloneInductive, NoFalseAnswerInductive,
     ClosedInductive, TimedInductive
  DEF IInv
<1> QED
  BY <1>1, TypeInductive DEF IInv

\* IInv holds in every reachable state.
THEOREM Invariance == Spec => []IInv
  BY StepKeepsIInv, InitIInv, PTL DEF Spec

\* A call log is CONNECTED or HUNGUP, and a lead "Answered", only if the two legs
\* were joined: no ChannelDestroyed handler, however stale its status, invents a
\* conversation.
THEOREM OnlyConversationsAreAnswered == Spec => []NoFalseAnswer
<1>1. IInv => NoFalseAnswer
  BY DEF IInv
<1> QED
  BY <1>1, Invariance, PTL

\* The agent that onChannelStateChange links to a call stays the agent of its call
\* log, whichever handlers of either leg write the row afterwards.
THEOREM LinkedAgentKeepsTheCall == Spec => []AttributedToLinkedAgent
<1>1. IInv => AttributedToLinkedAgent
  BY DEF IInv
<1> QED
  BY <1>1, Invariance, PTL

\* onChannelDestroyed is the only way for a lead to become isContacted, so a lead
\* is closed only when a call to it has ended.
THEOREM LeadsCloseAfterTheirCall == Spec => []ClosedAfterEnd
<1>1. IInv => ClosedAfterEnd
  BY DEF IInv
<1> QED
  BY <1>1, Invariance, PTL

\* A leg has a meta until its own ChannelDestroyed handler has deleted it: that is
\* why every handler that needs the meta of a live leg finds it.
THEOREM LegsAreKnown == Spec => []KnownUntilForgotten
<1>1. IInv => KnownUntilForgotten
  BY DEF IInv
<1> QED
  BY <1>1, Invariance, PTL

\* When the clean-up of one leg of a bridged call is past its paired-leg part, the
\* other leg is gone, in whatever order the two ChannelDestroyed handlers run.
THEOREM PartnersAreReleased == Spec => []NobodyLeftAlone
<1>1. IInv => NobodyLeftAlone
  BY DEF IInv
<1> QED
  BY <1>1, Invariance, PTL

\* From the end of onStasisStart until the legs are joined a live customer channel
\* has its hold timer armed, or the timer's callback is already dropping it.
THEOREM WaitingCustomersAreTimed == Spec => []WaitingIsTimed
<1>1. IInv => WaitingIsTimed
  BY DEF IInv
<1> QED
  BY <1>1, Invariance, PTL

-----------------------------------------------------------------------------
(***************************************************************************)
(* The handlers of a call run down.  Work(c) counts the places they have   *)
(* still to pass: each of their steps passes one, and nothing, whatever    *)
(* the parties and Asterisk do, ever sets them back.                       *)
(***************************************************************************)
\* The hold timer is armed at the end of onStasisStart, once.
StartLeft(x) ==
  CASE startPc[x] = "idle" -> 6
    [] startPc[x] = "moh" -> 5
    [] startPc[x] = "holding" -> 4
    [] OTHER -> 0

TimerLeft(c) ==
  CASE holdTimer[c] = "armed" -> 3
    [] holdTimer[c] = "dropping" -> 2
    [] holdTimer[c] = "releasing" -> 1
    [] OTHER -> 0

UpLeft(x) ==
  CASE upPc[x] = "idle" -> 4
    [] upPc[x] \in {"picking", "joining"} -> 3
    [] upPc[x] \in {"linking", "joined"} -> 2
    [] upPc[x] \in {"calling", "marking"} -> 1
    [] OTHER -> 0

EndLeft(x) ==
  CASE endPc[x] = "idle" -> 5
    [] endPc[x] = "closing" -> 4
    [] endPc[x] = "marking" -> 3
    [] endPc[x] = "pairing" -> 2
    [] endPc[x] = "cleaning" -> 1
    [] OTHER -> 0

\* The error callback of originate has a second step.
DialLeft(c) == IF chan[Customer(c)] \in {"none", "dialing", "up", "refused"} THEN 1 ELSE 0

LegLeft(x) == StartLeft(x) + UpLeft(x) + EndLeft(x)

Work(c) == LegLeft(Customer(c)) + LegLeft(AgentLeg(c)) + TimerLeft(c) + DialLeft(c)

LEMMA LeftNat ==
  /\ \A x \in Legs : /\ StartLeft(x) \in 0..6 /\ UpLeft(x) \in 0..4 /\ EndLeft(x) \in 0..5
                     /\ StartLeft(x)' \in 0..6 /\ UpLeft(x)' \in 0..4 /\ EndLeft(x)' \in 0..5
  /\ \A c \in Calls : /\ TimerLeft(c) \in 0..3 /\ DialLeft(c) \in 0..1
                      /\ TimerLeft(c)' \in 0..3 /\ DialLeft(c)' \in 0..1
BY DEF StartLeft, UpLeft, EndLeft, TimerLeft, DialLeft

\* The same sum when its first part falls from 4 to 0 and its seventh is below 4.
LEMMA SumRises ==
  ASSUME NEW a2 \in Nat, NEW a3 \in Nat, NEW a4 \in Nat, NEW a5 \in Nat, NEW a6 \in Nat,
         NEW a7 \in Nat, NEW a8 \in Nat,
         NEW b2 \in Nat, NEW b3 \in Nat, NEW b4 \in Nat, NEW b5 \in Nat, NEW b6 \in Nat,
         NEW b7 \in 0..3, NEW b8 \in Nat,
         b2 <= a2, b3 <= a3, b4 <= a4, b5 <= a5, b6 <= a6, b8 <= a8
  PROVE  (0 + b2 + b3) + (b4 + b5 + b6) + b7 + b8 < (4 + a2 + a3) + (a4 + a5 + a6) + a7 + a8
OBVIOUS

\* Sums of eight naturals, none of which grows.
LEMMA SumFalls ==
  ASSUME NEW a1 \in Nat, NEW a2 \in Nat, NEW a3 \in Nat, NEW a4 \in Nat,
         NEW a5 \in Nat, NEW a6 \in Nat, NEW a7 \in Nat, NEW a8 \in Nat,
         NEW b1 \in Nat, NEW b2 \in Nat, NEW b3 \in Nat, NEW b4 \in Nat,
         NEW b5 \in Nat, NEW b6 \in Nat, NEW b7 \in Nat, NEW b8 \in Nat,
         b1 <= a1, b2 <= a2, b3 <= a3, b4 <= a4, b5 <= a5, b6 <= a6, b7 <= a7, b8 <= a8
  PROVE  LET a == (a1 + a2 + a3) + (a4 + a5 + a6) + a7 + a8
             b == (b1 + b2 + b3) + (b4 + b5 + b6) + b7 + b8
         IN  /\ b <= a
             /\ \/ b1 < a1 \/ b2 < a2 \/ b3 < a3 \/ b4 < a4
                \/ b5 < a5 \/ b6 < a6 \/ b7 < a7 \/ b8 < a8 => b < a
OBVIOUS

\* onStasisStart and the timer it arms.
LEMMA StartFalls ==
  ASSUME TypeOK, [Next]_vars, NEW x \in Legs
  PROVE  StartLeft(x)' <= StartLeft(x)
<1>1. CASE startPc' = startPc
  BY <1>1, LeftNat DEF StartLeft
<1>2. ASSUME NEW y \in Legs, StasisStart(y) PROVE StartLeft(x)' <= StartLeft(x)
  BY <1>2 DEF StasisStart, StartLeft, TypeOK
<1>3. ASSUME NEW c \in Calls, StartFindCompany(c) \/ StartHold(c)
      PROVE  StartLeft(x)' <= StartLeft(x)
  BY <1>3, LegFacts DEF StartFindCompany, StartHold, StartLeft, TypeOK
<1> QED
  BY <1>1, <1>2, <1>3, StartWriters

LEMMA UpFalls ==
  ASSUME TypeOK, [Next]_vars, NEW x \in Legs
  PROVE  UpLeft(x)' <= UpLeft(x)
<1>1. CASE upPc' = upPc
  BY <1>1, LeftNat DEF UpLeft
<1>2. ASSUME NEW c \in Calls, NEW a \in Agents, PickAgent(c, a) PROVE UpLeft(x)' <= UpLeft(x)
  BY <1>2, LegFacts DEF PickAgent, UpLeft, TypeOK
<1>3. ASSUME NEW c \in Calls,
             \/ FindFreeAgents(c) \/ NoFreeAgent(c)
             \/ LinkAgent(c) \/ CallAgent(c) \/ AgentVanished(c)
      PROVE  UpLeft(x)' <= UpLeft(x)
  BY <1>3, LegFacts
  DEF FindFreeAgents, NoFreeAgent, LinkAgent, CallAgent, AgentVanished, UpLeft, TypeOK
<1>4. ASSUME NEW c \in Calls,
             FindCustomer(c) \/ Join(c) \/ JoinRejected(c) \/ Connected(c) \/ AgentBusy(c)
      PROVE  UpLeft(x)' <= UpLeft(x)
  BY <1>4, LegFacts DEF FindCustomer, Join, JoinRejected, Connected, AgentBusy, UpLeft, TypeOK
<1> QED
  BY <1>1, <1>2, <1>3, <1>4, UpWriters

LEMMA EndFalls ==
  ASSUME TypeOK, [Next]_vars, NEW x \in Legs
  PROVE  EndLeft(x)' <= EndLeft(x)
<1>1. CASE endPc' = endPc
  BY <1>1, LeftNat DEF EndLeft
<1>2. ASSUME NEW y \in Legs, Destroyed(y) \/ CloseLog(y) \/ HangUpPair(y) \/ Forget(y)
      PROVE  EndLeft(x)' <= EndLeft(x)
  BY <1>2 DEF Destroyed, CloseLog, AfterClose, HangUpPair, Forget, EndLeft, TypeOK
<1>3. ASSUME NEW c \in Calls, MarkLead(c) PROVE EndLeft(x)' <= EndLeft(x)
  BY <1>3, LegFacts DEF MarkLead, EndLeft, TypeOK
<1> QED
  BY <1>1, <1>2, <1>3, EndPcWriters

\* Only onStasisStart arms the timer.
LEMMA TimerFalls ==
  ASSUME TypeOK, [Next]_vars, NEW c \in Calls, ~StartHold(c)
  PROVE  TimerLeft(c)' <= TimerLeft(c)
<1>1. CASE holdTimer' = holdTimer
  BY <1>1, LeftNat DEF TimerLeft
<1>2. ASSUME NEW d \in Calls,
             StartHold(d) \/ Connected(d) \/ HoldTimeout(d) \/ HoldDrop(d) \/ HoldRelease(d)
      PROVE  TimerLeft(c)' <= TimerLeft(c)
  BY <1>2, LegFacts
  DEF StartHold, TimerSet, Connected, TimerCleared, HoldTimeout, HoldDrop, HoldRelease, TimerLeft,
      TypeOK
<1>3. ASSUME NEW y \in Legs, Destroyed(y) PROVE TimerLeft(c)' <= TimerLeft(c)
  BY <1>3, LegFacts DEF Destroyed, TimerCleared, TimerLeft, TypeOK
<1> QED
  BY <1>1, <1>2, <1>3, TimerWriters

LEMMA DialFalls ==
  ASSUME TypeOK, AgentLegLast, [Next]_vars, NEW c \in Calls
  PROVE  DialLeft(c)' <= DialLeft(c)
<1> DEFINE Left == {"none", "dialing", "up", "refused"}
           x == Customer(c)
<1>1. x \in Legs /\ chan[x] \in ChanState /\ chan'[x] \in ChanAfter(chan[x])
  BY ChanForward, LegFacts DEF TypeOK
<1>2. chan[x] \notin Left => chan'[x] \notin Left
  BY <1>1 DEF ChanAfter, ChanState
<1> QED
  BY <1>2 DEF DialLeft

\* A step of a handler passes a place.
LEMMA HandlerPasses ==
  ASSUME TypeOK, NEW c \in Calls, Handler(c), ~StartHold(c)
  PROVE  \/ \E x \in {Customer(c), AgentLeg(c)} :
              \/ StartLeft(x)' < StartLeft(x)
              \/ UpLeft(x)' < UpLeft(x)
              \/ EndLeft(x)' < EndLeft(x)
         \/ TimerLeft(c)' < TimerLeft(c)
         \/ DialLeft(c)' < DialLeft(c)
<1>1. CASE OriginateRefusedLead(c)
  BY <1>1, LegFacts DEF OriginateRefusedLead, DialLeft, TypeOK
<1>2. ASSUME NEW x \in {Customer(c), AgentLeg(c)}, StasisStart(x)
      PROVE  StartLeft(x)' < StartLeft(x)
  BY <1>2, LegFacts DEF StasisStart, StartLeft, TypeOK
<1>3. ASSUME StartFindCompany(c) PROVE StartLeft(Customer(c))' < StartLeft(Customer(c))
  BY <1>3, LegFacts DEF StartFindCompany, StartLeft, TypeOK
<1>4. ASSUME NEW x \in {Customer(c), AgentLeg(c)},
             Destroyed(x) \/ CloseLog(x) \/ HangUpPair(x) \/ Forget(x)
      PROVE  EndLeft(x)' < EndLeft(x)
  BY <1>4, LegFacts DEF Destroyed, CloseLog, AfterClose, HangUpPair, Forget, EndLeft, TypeOK
<1>5. ASSUME MarkLead(c) PROVE EndLeft(Customer(c))' < EndLeft(Customer(c))
  BY <1>5, LegFacts DEF MarkLead, EndLeft, TypeOK
<1>6. ASSUME NEW a \in Agents, PickAgent(c, a) PROVE UpLeft(Customer(c))' < UpLeft(Customer(c))
  BY <1>6, LegFacts DEF PickAgent, UpLeft, TypeOK
<1>7. ASSUME FindFreeAgents(c) \/ NoFreeAgent(c) \/ LinkAgent(c) \/ CallAgent(c) \/ AgentVanished(c)
      PROVE  UpLeft(Customer(c))' < UpLeft(Customer(c))
  BY <1>7, LegFacts
  DEF FindFreeAgents, NoFreeAgent, LinkAgent, CallAgent, AgentVanished, UpLeft, TypeOK
<1>8. ASSUME FindCustomer(c) \/ Join(c) \/ JoinRejected(c) \/ Connected(c) \/ AgentBusy(c)
      PROVE  UpLeft(AgentLeg(c))' < UpLeft(AgentLeg(c))
  BY <1>8, LegFacts DEF FindCustomer, Join, JoinRejected, Connected, AgentBusy, UpLeft, TypeOK
<1>9. ASSUME HoldTimeout(c) \/ HoldDrop(c) \/ HoldRelease(c) PROVE TimerLeft(c)' < TimerLeft(c)
  BY <1>9 DEF HoldTimeout, HoldDrop, HoldRelease, TimerLeft, TypeOK
<1> QED
  BY <1>1, <1>2, <1>3, <1>4, <1>5, <1>6, <1>7, <1>8, <1>9 DEF Handler

LEMMA WorkFalls ==
  ASSUME TypeOK, TypeOK', AgentLegLast, [Next]_vars, NEW c \in Calls
  PROVE  /\ Work(c)' <= Work(c)
         /\ Handler(c) => Work(c)' < Work(c)
<1> DEFINE x == Customer(c)
           y == AgentLeg(c)
<1>1. x \in Legs /\ y \in Legs
  BY LegFacts
<1>2. /\ StartLeft(x) \in Nat /\ UpLeft(x) \in Nat /\ EndLeft(x) \in Nat
      /\ StartLeft(y) \in Nat /\ UpLeft(y) \in Nat /\ EndLeft(y) \in Nat
      /\ TimerLeft(c) \in Nat /\ DialLeft(c) \in Nat
  BY <1>1, LeftNat
<1>3. /\ StartLeft(x)' \in Nat /\ UpLeft(x)' \in Nat /\ EndLeft(x)' \in Nat
      /\ StartLeft(y)' \in Nat /\ UpLeft(y)' \in Nat /\ EndLeft(y)' \in Nat
      /\ TimerLeft(c)' \in 0..3 /\ DialLeft(c)' \in Nat
  BY <1>1, LeftNat
<1>4. /\ StartLeft(x)' <= StartLeft(x) /\ UpLeft(x)' <= UpLeft(x) /\ EndLeft(x)' <= EndLeft(x)
      /\ StartLeft(y)' <= StartLeft(y) /\ UpLeft(y)' <= UpLeft(y) /\ EndLeft(y)' <= EndLeft(y)
      /\ DialLeft(c)' <= DialLeft(c)
  BY <1>1, StartFalls, UpFalls, EndFalls, DialFalls
<1>5. /\ Work(c) = (StartLeft(x) + UpLeft(x) + EndLeft(x)) + (StartLeft(y) + UpLeft(y) + EndLeft(y))
                     + TimerLeft(c) + DialLeft(c)
      /\ Work(c)' = (StartLeft(x)' + UpLeft(x)' + EndLeft(x)')
                      + (StartLeft(y)' + UpLeft(y)' + EndLeft(y)') + TimerLeft(c)' + DialLeft(c)'
  BY DEF Work, LegLeft
\* Arming the timer costs less than onStasisStart had left.
<1>6. CASE StartHold(c)
  <2>1. StartLeft(x) = 4 /\ StartLeft(x)' = 0
    BY <1>1, <1>6 DEF StartHold, StartLeft, TypeOK
  <2> QED
    BY <1>2, <1>3, <1>4, <1>5, <2>1, SumRises
<1>7. CASE ~StartHold(c)
  <2>1. TimerLeft(c)' <= TimerLeft(c)
    BY <1>7, TimerFalls
  <2>2. TimerLeft(c)' \in Nat
    BY <1>3
  <2>3. Handler(c) => \/ StartLeft(x)' < StartLeft(x) \/ UpLeft(x)' < UpLeft(x)
                      \/ EndLeft(x)' < EndLeft(x)
                      \/ StartLeft(y)' < StartLeft(y) \/ UpLeft(y)' < UpLeft(y)
                      \/ EndLeft(y)' < EndLeft(y)
                      \/ TimerLeft(c)' < TimerLeft(c) \/ DialLeft(c)' < DialLeft(c)
    BY <1>7, HandlerPasses
  <2> HIDE DEF x, y
  <2> QED
    BY <1>2, <1>3, <1>4, <1>5, <2>1, <2>2, <2>3, SumFalls
<1> QED
  BY <1>6, <1>7

\* The handlers of a call never run in circles: Work is at most 34, each of their
\* steps lowers it, and no step of anybody, of this call or another, raises it,
\* so a call costs the process at most 34 steps, however its events interleave.
THEOREM HandlersRunDown ==
  Spec => /\ [](\A c \in Calls : Work(c) \in 0..34)
          /\ [][\A c \in Calls : Work(c)' <= Work(c) /\ (Handler(c) => Work(c)' < Work(c))]_vars
<1>1. IInv => \A c \in Calls : Work(c) \in 0..34
  <2> SUFFICES ASSUME NEW c \in Calls PROVE Work(c) \in 0..34
    OBVIOUS
  <2> DEFINE x == Customer(c)
             y == AgentLeg(c)
  <2>1. /\ StartLeft(x) \in 0..6 /\ UpLeft(x) \in 0..4 /\ EndLeft(x) \in 0..5
        /\ StartLeft(y) \in 0..6 /\ UpLeft(y) \in 0..4 /\ EndLeft(y) \in 0..5
        /\ TimerLeft(c) \in 0..3 /\ DialLeft(c) \in 0..1
    BY LeftNat, LegFacts
  <2> QED
    BY <2>1 DEF Work, LegLeft
<1>2. IInv /\ IInv' /\ [Next]_vars =>
        [\A c \in Calls : Work(c)' <= Work(c) /\ (Handler(c) => Work(c)' < Work(c))]_vars
  BY WorkFalls DEF IInv, Order
<1> QED
  BY <1>1, <1>2, Invariance, PTL DEF Spec

-----------------------------------------------------------------------------
(***************************************************************************)
(* What a call is like when its handlers have run down.                    *)
(***************************************************************************)

\* No action of Handler(c) has its guard: this is ~ENABLED Handler(c), which
\* the provers cannot expand, in every reachable state.
AtRest(c) ==
  /\ chan[Customer(c)] # "refused"
  /\ holdTimer[c] \in {"off", "spent"}
  /\ \A x \in {Customer(c), AgentLeg(c)} :
       /\ startPc[x] \in {"idle", "done"} /\ upPc[x] \in {"idle", "done"}
       /\ endPc[x] \in {"idle", "done"}
       /\ Answered(x) => startPc[x] = "done" /\ upPc[x] = "done"
       /\ Gone(x) => endPc[x] = "done"

\* Nobody waits, the lead of a call that has ended is closed, and no party is
\* left alone: what the liveness properties ask for.
Settled(c) ==
  /\ chan[Customer(c)] = "up" => bridged[c]
  /\ \A l \in Leads : leadOf[c] = l /\ Gone(Customer(c)) => crmLead[l].isContacted
  /\ \A x \in {Customer(c), AgentLeg(c)} : bridged[c] /\ Gone(x) => Gone(Partner(x))

\* A call has its lead from its originate on.
LeadGiven ==
  \A c \in Calls : IF chan[Customer(c)] = "none" THEN leadOf[c] = None ELSE leadOf[c] \in Leads

\* A lead is closed before its call's clean-up goes on.
LeadClosed ==
  \A c \in Calls :
    endPc[Customer(c)] \in {"pairing", "cleaning", "done"} => crmLead[leadOf[c]].isContacted

LEMMA LeadInit == Init => LeadGiven /\ LeadClosed
<1> SUFFICES ASSUME Init PROVE LeadGiven /\ LeadClosed
  OBVIOUS
<1>1. \A c \in Calls :
        chan[Customer(c)] = "none" /\ leadOf[c] = None /\ endPc[Customer(c)] = "idle"
  BY LegFacts DEF Init
<1> QED
  BY <1>1 DEF LeadGiven, LeadClosed

LEMMA LeadGivenInductive ==
  ASSUME TypeOK, Order, LeadGiven, [Next]_vars
  PROVE  LeadGiven'
<1> SUFFICES ASSUME NEW d \in Calls
             PROVE  IF chan'[Customer(d)] = "none" THEN leadOf'[d] = None ELSE leadOf'[d] \in Leads
  BY DEF LeadGiven
<1>1. CASE chan[Customer(d)] # "none"
  <2>1. leadOf'[d] = leadOf[d] /\ chan'[Customer(d)] # "none"
    BY <1>1, LeadOfForever, AnsweredForever, LegFacts DEF Order
  <2> QED
    BY <1>1, <2>1 DEF LeadGiven
<1>2. CASE chan[Customer(d)] = "none" /\ chan'[Customer(d)] # "none"
  <2>1. PICK c \in Calls, a \in Agents, l \in Leads : Originate(c, a, l) /\ Customer(d) = Customer(c)
    BY <1>2, LegOriginated, LegFacts
  <2> QED
    BY <1>2, <2>1, LegFacts DEF Originate, TypeOK
<1>3. CASE chan[Customer(d)] = "none" /\ chan'[Customer(d)] = "none"
  <2>1. ASSUME NEW c \in Calls, NEW a \in Agents, NEW l \in Leads, Originate(c, a, l)
        PROVE  leadOf'[d] = leadOf[d]
    BY <1>3, <2>1, LegFacts DEF Originate, TypeOK
  <2> QED
    BY <1>3, <2>1, LeadOfWriters DEF LeadGiven
<1> QED
  BY <1>1, <1>2, <1>3

LEMMA LeadClosedInductive ==
  ASSUME TypeOK, Order, LeadGiven, LeadClosed, [Next]_vars
  PROVE  LeadClosed'
<1> SUFFICES ASSUME NEW d \in Calls, endPc'[Customer(d)] \in {"pairing", "cleaning", "done"}
             PROVE  crmLead'[leadOf'[d]].isContacted
  BY DEF LeadClosed
<1>1. CASE MarkLead(d)
  <2>1. leadOf[d] \in Leads /\ leadOf' = leadOf
    BY <1>1, LegFacts DEF MarkLead, LeadGiven, Order, EndedGone, Gone
  <2> QED
    BY <1>1, <2>1 DEF MarkLead, TypeOK
<1>2. CASE ~MarkLead(d)
  <2>1. endPc[Customer(d)] \in {"pairing", "cleaning", "done"}
    <3>1. ASSUME NEW x \in Legs, Destroyed(x) \/ CloseLog(x) \/ HangUpPair(x) \/ Forget(x)
          PROVE  endPc[Customer(d)] \in {"pairing", "cleaning", "done"}
      BY <3>1, LegFacts DEF Destroyed, CloseLog, AfterClose, HangUpPair, Forget, TypeOK
    <3>2. ASSUME NEW c \in Calls, MarkLead(c), c # d
          PROVE  endPc[Customer(d)] \in {"pairing", "cleaning", "done"}
      BY <3>2, LegFacts DEF MarkLead, TypeOK
    <3> QED
      BY <1>2, <3>1, <3>2, EndPcWriters
  <2>2. Gone(Customer(d)) /\ chan[Customer(d)] # "none" /\ leadOf[d] \in Leads
    BY <2>1, LegFacts DEF Order, EndedGone, Gone, LeadGiven
  <2>3. leadOf'[d] = leadOf[d]
    BY <2>2, LeadOfForever
  <2>4. crmLead[leadOf[d]].isContacted
    BY <2>1 DEF LeadClosed
  <2>5. ASSUME NEW c \in Calls, OriginateRefusedLead(c) \/ MarkLead(c)
        PROVE  crmLead'[leadOf[d]].isContacted
    BY <2>2, <2>4, <2>5 DEF OriginateRefusedLead, Refused, MarkLead, TypeOK, LeadRow
  <2> QED
    BY <2>3, <2>4, <2>5, LeadWriters
<1> QED
  BY <1>1, <1>2

\* Once the handlers of a call have nothing left to do, which HandlersRunDown says
\* comes about, its customer is joined with an agent or gone, its lead is closed
\* if it has ended, and no leg of a bridged pair has outlived the other.
THEOREM RestIsSettled == Spec => [](\A c \in Calls : AtRest(c) => Settled(c))
<1>1. Init => LeadGiven /\ LeadClosed
  BY LeadInit
<1>2. IInv /\ LeadGiven /\ LeadClosed /\ [Next]_vars => LeadGiven' /\ LeadClosed'
  BY LeadGivenInductive, LeadClosedInductive DEF IInv
<1>3. IInv /\ LeadGiven /\ LeadClosed => \A c \in Calls : AtRest(c) => Settled(c)
  <2> SUFFICES ASSUME IInv, LeadClosed, NEW c \in Calls, AtRest(c) PROVE Settled(c)
    OBVIOUS
  <2>1. chan[Customer(c)] = "up" => bridged[c]
    BY LegFacts DEF AtRest, Answered, IInv, WaitingIsTimed
  <2>2. Gone(Customer(c)) => crmLead[leadOf[c]].isContacted
    BY DEF AtRest, LeadClosed
  <2>3. ASSUME NEW x \in {Customer(c), AgentLeg(c)}, bridged[c], Gone(x) PROVE Gone(Partner(x))
    <3>1. x \in Legs /\ x[1] = c /\ endPc[x] = "done"
      BY <2>3, LegFacts DEF AtRest
    <3> QED
      BY <2>3, <3>1 DEF IInv, NobodyLeftAlone
  <2> QED
    BY <2>1, <2>2, <2>3 DEF Settled
<1> QED
  BY <1>1, <1>2, <1>3, Invariance, PTL DEF Spec

-----------------------------------------------------------------------------
(***************************************************************************)
(* CallLifecycle implements LeadLedger.                                    *)
(***************************************************************************)
DialedLeads == {l \in Leads : \E c \in Calls : leadOf[c] = l}

TalkedLeads == {l \in Leads : \E c \in Calls : leadOf[c] = l /\ bridged[c]}

EndedLeads == {l \in Leads : \E c \in Calls : leadOf[c] = l /\ Gone(Customer(c))}

LEMMA LeadDialed ==
  ASSUME LeadGiven, NEW c \in Calls, chan[Customer(c)] # "none"
  PROVE  leadOf[c] \in Leads /\ leadOf[c] \in DialedLeads
BY DEF LeadGiven, DialedLeads

\* Originate.
LEMMA OriginateLedger ==
  ASSUME TypeOK, BridgedAnswered, LeadGiven,
         NEW c \in Calls, NEW a \in Agents, NEW l \in Leads, Originate(c, a, l)
  PROVE  Ledger!Dial(l) \/ UNCHANGED Ledger!ledger
<1>1. /\ chan[Customer(c)] = "none" /\ leadOf[c] = None /\ ~bridged[c]
      /\ leadOf' = [leadOf EXCEPT ![c] = l] /\ chan' = [chan EXCEPT ![Customer(c)] = "dialing"]
      /\ UNCHANGED <<bridged, crmLead>>
  BY LegFacts DEF Originate, LeadGiven, BridgedAnswered, Answered
<1>2. \A d \in Calls : d # c => leadOf'[d] = leadOf[d] /\ (Gone(Customer(d))' <=> Gone(Customer(d)))
  BY <1>1, LegFacts DEF Gone, TypeOK
<1>3. leadOf'[c] = l /\ ~Gone(Customer(c)) /\ ~Gone(Customer(c))' /\ None \notin Leads
  BY <1>1, LegFacts, NoneAssumption DEF Gone, TypeOK
<1>4. DialedLeads' = DialedLeads \cup {l}
  BY <1>1, <1>2, <1>3 DEF DialedLeads
<1>5. TalkedLeads' = TalkedLeads
  BY <1>1, <1>2, <1>3 DEF TalkedLeads
<1>6. EndedLeads' = EndedLeads
  BY <1>2, <1>3 DEF EndedLeads
<1>7. l \in DialedLeads => DialedLeads' = DialedLeads
  BY <1>4
<1> QED
  BY <1>1, <1>4, <1>5, <1>6, <1>7
  DEF Ledger!Dial, Ledger!ledger, DialedLeads, TalkedLeads, EndedLeads

\* A step that changes channels changes one.
LEMMA OneChannelChanges ==
  ASSUME TypeOK, [Next]_vars, chan' # chan
  PROVE  \E x \in Legs : \A y \in Legs : y # x => chan'[y] = chan[y]
<1>1. ASSUME NEW x \in Legs, chan' = HungUp(x) PROVE \A y \in Legs : y # x => chan'[y] = chan[y]
  BY <1>1 DEF HungUp, TypeOK
<1>2. ASSUME NEW x \in Legs, NEW s, chan' = [chan EXCEPT ![x] = s]
      PROVE  \A y \in Legs : y # x => chan'[y] = chan[y]
  BY <1>2 DEF TypeOK
<1>3. ASSUME NEW c \in Calls, NEW a \in Agents, NEW l \in Leads, Originate(c, a, l)
      PROVE  \E x \in Legs : \A y \in Legs : y # x => chan'[y] = chan[y]
  BY <1>2, <1>3, LegFacts DEF Originate
<1>4. ASSUME NEW c \in Calls,
             OriginateRefused(c) \/ OriginateRefusedLead(c) \/ AgentRefused(c) \/ CallAgent(c)
      PROVE  \E x \in Legs : \A y \in Legs : y # x => chan'[y] = chan[y]
  BY <1>2, <1>4, LegFacts DEF OriginateRefused, OriginateRefusedLead, AgentRefused, CallAgent
<1>5. ASSUME NEW x \in Legs, Answer(x) \/ End(x) \/ HangUpPair(x)
      PROVE  \E y \in Legs : \A z \in Legs : z # y => chan'[z] = chan[z]
  BY <1>1, <1>2, <1>5, LegFacts DEF Answer, End, HangUpPair, PairHungUp
<1>6. ASSUME NEW c \in Calls, FindCustomer(c) \/ HoldDrop(c)
      PROVE  \E x \in Legs : \A y \in Legs : y # x => chan'[y] = chan[y]
  BY <1>1, <1>6, LegFacts DEF FindCustomer, HoldDrop
<1> QED
  BY <1>3, <1>4, <1>5, <1>6, ChanWriters

\* The leads of ended calls grow by one at most, and only by one that was dialed.
LEMMA EndedGrows ==
  ASSUME TypeOK, Order, LeadGiven, [Next]_vars, leadOf' = leadOf
  PROVE  EndedLeads' = EndedLeads \/ \E l \in DialedLeads : EndedLeads' = EndedLeads \cup {l}
<1>1. \A d \in Calls : Gone(Customer(d)) => Gone(Customer(d))'
  BY AnsweredForever, LegFacts DEF Order
<1>2. CASE \A d \in Calls : Gone(Customer(d))' => Gone(Customer(d))
  BY <1>1, <1>2 DEF EndedLeads
<1>3. ASSUME NEW c \in Calls, Gone(Customer(c))', ~Gone(Customer(c))
      PROVE  \E l \in DialedLeads : EndedLeads' = EndedLeads \cup {l}
  <2>1. chan'[Customer(c)] \in ChanAfter(chan[Customer(c)]) /\ chan[Customer(c)] \in ChanState
    BY ChanForward, LegFacts DEF Order, TypeOK
  <2>2. chan[Customer(c)] # "none" /\ chan'[Customer(c)] # chan[Customer(c)]
    BY <1>3, <2>1 DEF ChanAfter, Gone
  <2>3. leadOf[c] \in DialedLeads /\ leadOf[c] \in Leads
    BY <2>2, LeadDialed
  <2>4. \A y \in Legs : y # Customer(c) => chan'[y] = chan[y]
    BY <2>2, OneChannelChanges, LegFacts
  <2>5. \A d \in Calls : d # c => (Gone(Customer(d))' <=> Gone(Customer(d)))
    BY <2>4, LegFacts DEF Gone
  <2>6. EndedLeads' = EndedLeads \cup {leadOf[c]}
    BY <1>1, <1>3, <2>3, <2>5 DEF EndedLeads
  <2> QED
    BY <2>3, <2>6
<1> QED
  BY <1>2, <1>3

LEMMA LedgerStep ==
  ASSUME IInv, LeadGiven, [Next]_vars
  PROVE  [Ledger!Next]_(Ledger!ledger)
<1> USE DEF IInv
<1>1. ASSUME NEW c \in Calls, NEW a \in Agents, NEW l \in Leads, Originate(c, a, l)
      PROVE  [Ledger!Next]_(Ledger!ledger)
  BY <1>1, OriginateLedger DEF Ledger!Next
<1>2. ASSUME NEW c \in Calls, Join(c) PROVE [Ledger!Next]_(Ledger!ledger)
  <2>1. /\ UNCHANGED <<leadOf, crmLead, chan>> /\ bridged' = [bridged EXCEPT ![c] = TRUE]
        /\ chan[Customer(c)] = "up"
    BY <1>2 DEF Join, db
  <2>2. PICK l \in Leads : l = leadOf[c] /\ l \in DialedLeads
    BY <2>1, LeadDialed
  <2>3. DialedLeads' = DialedLeads /\ EndedLeads' = EndedLeads
    BY <2>1 DEF DialedLeads, EndedLeads, Gone
  <2>4. TalkedLeads' = TalkedLeads \cup {l}
    BY <2>1, <2>2 DEF TalkedLeads, TypeOK
  <2>5. Ledger!Talk(l)
    BY <2>1, <2>2, <2>3, <2>4 DEF Ledger!Talk, DialedLeads, TalkedLeads, EndedLeads
  <2> QED
    BY <2>5 DEF Ledger!Next
<1>3. ASSUME NEW c \in Calls, MarkLead(c) PROVE [Ledger!Next]_(Ledger!ledger)
  <2> DEFINE status == ContactOf(seen[Customer(c)])
  <2>1. /\ UNCHANGED <<leadOf, bridged, chan>> /\ Gone(Customer(c))
        /\ crmLead' = [crmLead EXCEPT ![leadOf[c]] = [contactStatus |-> status, isContacted |-> TRUE]]
    BY <1>3, LegFacts DEF MarkLead, asterisk, Order, EndedGone
  <2>2. leadOf[c] \in Leads /\ leadOf[c] \in EndedLeads
    BY <2>1, LeadDialed DEF Gone, EndedLeads
  <2>3. status = "Answered" => leadOf[c] \in TalkedLeads
    BY <2>2, LegFacts DEF ContactOf, SeenIsTrue, TalkedLeads
  <2>4. UNCHANGED <<DialedLeads, TalkedLeads, EndedLeads>>
    BY <2>1 DEF DialedLeads, TalkedLeads, EndedLeads, Gone
  <2>5. Ledger!Close(leadOf[c], status)
    BY <2>1, <2>2, <2>3, <2>4 DEF Ledger!Close, DialedLeads, TalkedLeads, EndedLeads
  <2>6. status \in {"Answered", "No Answer", "Busy", "Failed"}
    BY DEF ContactOf
  <2> QED
    BY <2>2, <2>5, <2>6 DEF Ledger!Next
<1>4. ASSUME NEW c \in Calls, OriginateRefusedLead(c) PROVE [Ledger!Next]_(Ledger!ledger)
  <2>1. /\ UNCHANGED <<leadOf, bridged>> /\ chan[Customer(c)] = "refused"
        /\ chan' = [chan EXCEPT ![Customer(c)] = "failed"]
        /\ crmLead' = [crmLead EXCEPT ![leadOf[c]] = Refused(@)]
    BY <1>4 DEF OriginateRefusedLead
  <2>2. leadOf[c] \in Leads /\ leadOf[c] \in DialedLeads
    BY <2>1, LeadDialed
  <2>3. \A d \in Calls : Gone(Customer(d))' <=> Gone(Customer(d))
    BY <2>1, LegFacts DEF Gone, TypeOK
  <2>4. UNCHANGED <<DialedLeads, TalkedLeads, EndedLeads>>
    BY <2>1, <2>3 DEF DialedLeads, TalkedLeads, EndedLeads
  <2>5. crmLead' = [crmLead EXCEPT ![leadOf[c]].contactStatus = "INTERNAL_ERROR"]
    BY <2>1 DEF Refused
  <2>6. Ledger!NoteError(leadOf[c])
    BY <2>2, <2>4, <2>5 DEF Ledger!NoteError, DialedLeads, TalkedLeads, EndedLeads
  <2> QED
    BY <2>2, <2>6 DEF Ledger!Next
\* Any other step may end a call, and that is all the ledger sees of it.
<1>5. CASE UNCHANGED <<leadOf, bridged, crmLead>>
  <2>1. UNCHANGED <<DialedLeads, TalkedLeads>>
    BY <1>5 DEF DialedLeads, TalkedLeads
  <2>2. CASE EndedLeads' = EndedLeads
    BY <1>5, <2>1, <2>2 DEF Ledger!ledger, DialedLeads, TalkedLeads, EndedLeads
  <2>3. ASSUME NEW l \in DialedLeads, EndedLeads' = EndedLeads \cup {l} PROVE Ledger!Next
    <3>1. Ledger!End(l) /\ l \in Leads
      BY <1>5, <2>1, <2>3 DEF Ledger!End, DialedLeads, TalkedLeads, EndedLeads
    <3> QED
      BY <3>1 DEF Ledger!Next
  <2> QED
    BY <1>5, <2>2, <2>3, EndedGrows
<1>6. CASE crmLead' # crmLead \/ bridged' # bridged \/ leadOf' # leadOf
  BY <1>1, <1>2, <1>3, <1>4, <1>6, LeadWriters, BridgedWriters, LeadOfWriters
<1> QED
  BY <1>5, <1>6

\* Whatever handlers, timers and channels do, the CRM's records of leads are
\* written as LeadLedger allows.
THEOREM LedgerIsKept == Spec => LedgerKept
<1>1. Init => Ledger!Init
  BY LegFacts, NoneAssumption DEF Init, Ledger!Init, Gone
<1>2. Init => LeadGiven
  BY LeadInit
<1>3. IInv /\ LeadGiven /\ [Next]_vars => LeadGiven'
  BY LeadGivenInductive DEF IInv
<1>4. IInv /\ LeadGiven /\ [Next]_vars => [Ledger!Next]_(Ledger!ledger)
  BY LedgerStep
<1> QED
  BY <1>1, <1>2, <1>3, <1>4, Invariance, PTL DEF Spec, LedgerKept, Ledger!Spec

====
