------------------------------ MODULE BlastLoop ------------------------------
(***************************************************************************)
(* The dialing loops of one company: startAgentDial, stopAgentDial,        *)
(* blastDial and the findAllFreeAgent and nextLead it calls.               *)
(*                                                                         *)
(* Each start request creates a loop, a chain of blastDial calls that      *)
(* re-arms itself with setTimeout; nothing keeps an agent from having      *)
(* several.  As in CallLifecycle, an action is the code between two awaits *)
(* together with the database call that ends it.                           *)
(*                                                                         *)
(* findAllFreeAgent asks Asterisk over the one AMI connection for a list   *)
(* of endpoints.  The events of a list do not say which query it answers:  *)
(* every query that listens counts what it hears, and ends with the first  *)
(* list that ends.  What the loops read from the rest of the dialer is     *)
(* chosen freely: whether an endpoint is a free agent, the number of held  *)
(* calls, the settings.                                                    *)
(*                                                                         *)
(* Leads are the leads of the company when the loops begin.  A user of the *)
(* CRM may mark any of them as contacted, or as not contacted, at any time *)
(* between two queries of a loop.                                          *)
(***************************************************************************)
EXTENDS Naturals, FiniteSets

CONSTANTS
  Loops,      \* bounds the number of start requests, in their order
  Agents,
  Leads,      \* numbered in the order of createdAt
  Endpoints,  \* the number of endpoints that AMI lists
  MaxBlast,   \* 5 in the code
  MaxLists,   \* bounds the lists that AMI owes at the same time
  MaxLosses,  \* bounds how often the AMI connection is lost
  None

ASSUME LoopsAssumption == Loops \subseteq Nat

ASSUME LeadsAssumption == Leads \subseteq Nat

ASSUME BlastAssumption == Endpoints \in Nat /\ MaxBlast \in Nat \ {0}

ASSUME NoneAssumption == None \notin Leads /\ None \notin Loops /\ None \notin Agents

VARIABLES
  agentRunning,  \* memory: the agents with a running dialer
  agentTimers,   \* memory: the loop whose timer is recorded for each agent
  inDialer,      \* DB: agentInformation.isInPredictiveDialer
  locked,        \* DB: the leads that are locked
  contacted,     \* DB: the leads that are isContacted
  pc,            \* where each loop is
  agentOf,       \* the agent each loop dials for
  found,         \* the free agents each loop's query has counted
  lists,         \* AMI: the lists asked for that have not ended
  listed,        \* AMI: the endpoints of the current list that have been sent
  cutOff,        \* history: the loops whose query has lost the AMI connection
  losses,        \* counts the losses of the connection
  left,          \* iterations the loop's current blast still has
  lead,          \* the lead nextLead has read for the loop
  changed,       \* history: the leads marked otherwise since the loop has read
  dials,         \* history: how often each loop has originated each lead
  capped,        \* history: agents one of whose loops ended at callLimit
  stopPc         \* a stop request of each agent

db == <<inDialer, locked, contacted>>
ami == <<found, lists, listed, cutOff, losses>>
vars == <<agentRunning, agentTimers, db, ami, pc, agentOf, left, lead, changed, dials, capped, stopPc>>

(***************************************************************************)
(* The type invariant.                                                     *)
(***************************************************************************)
TypeOK ==
  /\ agentRunning \subseteq Agents
  /\ agentTimers \in [Agents -> Loops \cup {None}]
  /\ inDialer \subseteq Agents
  /\ locked \subseteq Leads
  /\ contacted \subseteq Leads
  /\ pc \in [Loops -> {"new", "asked", "flagged", "entry", "counting", "finding", "locking",
                       "dialing", "sleeping", "resting", "ended"}]
  /\ agentOf \in [Loops -> Agents \cup {None}]
  /\ found \in [Loops -> Nat]
  /\ lists \in Nat
  /\ listed \in 0..Endpoints
  /\ cutOff \subseteq Loops
  /\ losses \in Nat
  /\ left \in [Loops -> 0..MaxBlast]
  /\ lead \in [Loops -> Leads \cup {None}]
  /\ changed \in [Loops -> SUBSET Leads]
  /\ dials \in [Loops -> [Leads -> Nat]]
  /\ capped \subseteq Agents
  /\ stopPc \in [Agents -> {"idle", "looking"}]

Init ==
  /\ agentRunning = {}
  /\ agentTimers = [a \in Agents |-> None]
  /\ inDialer = {}
  /\ locked = {}
  /\ contacted \in SUBSET Leads
  /\ pc = [x \in Loops |-> "new"]
  /\ agentOf = [x \in Loops |-> None]
  /\ found = [x \in Loops |-> 0]
  /\ lists = 0
  /\ listed = 0
  /\ cutOff = {}
  /\ losses = 0
  /\ left = [x \in Loops |-> 0]
  /\ lead = [x \in Loops |-> None]
  /\ changed = [x \in Loops |-> {}]
  /\ dials = [x \in Loops |-> [l \in Leads |-> 0]]
  /\ capped = {}
  /\ stopPc = [a \in Agents |-> "idle"]

-----------------------------------------------------------------------------

Step(x, from, to) ==
  /\ pc[x] = from
  /\ pc' = [pc EXCEPT ![x] = to]

\* An operator called Bad... is a plausible mistake in the one below it; it is
\* no part of the specification, and breaks one of the properties at the end.

\* Math.min(Math.max(freeCount, 1), 5)
BlastSize(n) == IF n < MaxBlast THEN n ELSE MaxBlast

\* The loop over the calls of a blast is at its end.
BadLastCall(x) == left[x] = 0

LastCall(x) == left[x] = 1

\* The leads findFirst filters, and those of them that orderBy puts first.
Waiting == {l \in Leads : l \notin locked /\ l \notin contacted}

BadOldestWaiting == Waiting

OldestWaiting == {l \in Waiting : \A m \in Waiting : l <= m}

\* The leads that are locked after the update of nextLead.
BadLockedWith(l) == locked

LockedWith(l) == locked \cup {l}

(***************************************************************************)
(* startAgentDial                                                          *)
(***************************************************************************)

\* The lookups; a missing agent or an incomplete configuration is refused.
StartRequest(x, a) ==
  /\ \A y \in Loops : y < x => pc[y] # "new"
  /\ Step(x, "new", "asked")
  /\ agentOf' = [agentOf EXCEPT ![x] = a]
  /\ UNCHANGED <<agentRunning, agentTimers, db, ami, left, lead, changed, dials, capped, stopPc>>

StartRefused(x) ==
  /\ Step(x, "asked", "ended")
  /\ UNCHANGED <<agentRunning, agentTimers, db, ami, agentOf, left, lead, changed, dials, capped,
                 stopPc>>

StartFlag(x) ==
  /\ Step(x, "asked", "flagged")
  /\ inDialer' = inDialer \cup {agentOf[x]}
  /\ UNCHANGED <<agentRunning, agentTimers, ami, locked, contacted, agentOf, left, lead, changed,
                 dials, capped, stopPc>>

StartRunning(x) ==
  /\ Step(x, "flagged", "entry")
  /\ agentRunning' = agentRunning \cup {agentOf[x]}
  /\ UNCHANGED <<agentTimers, db, ami, agentOf, left, lead, changed, dials, capped, stopPc>>

(***************************************************************************)
(* stopAgentDial: the in-memory part is done before anything is checked.   *)
(***************************************************************************)
Stop(a) ==
  LET x == agentTimers[a] IN
  /\ stopPc[a] = "idle"
  /\ agentRunning' = agentRunning \ {a}
  /\ agentTimers' = [agentTimers EXCEPT ![a] = None]
  /\ pc' = IF x # None /\ pc[x] = "resting" THEN [pc EXCEPT ![x] = "ended"] ELSE pc
  /\ stopPc' = [stopPc EXCEPT ![a] = "looking"]
  /\ UNCHANGED <<db, ami, agentOf, left, lead, changed, dials, capped>>

\* Either the lookups throw, or the flag is cleared.
StopFlag(a) ==
  /\ stopPc[a] = "looking"
  /\ stopPc' = [stopPc EXCEPT ![a] = "idle"]
  /\ inDialer' \in {inDialer, inDialer \ {a}}
  /\ UNCHANGED <<agentRunning, agentTimers, ami, locked, contacted, pc, agentOf, left, lead,
                 changed, dials, capped>>

(***************************************************************************)
(* blastDial                                                               *)
(***************************************************************************)
\* findAllFreeAgent: the available agents are read, the loop listens and asks
\* Asterisk for its endpoints.
AskForList(x) ==
  /\ Step(x, "entry", "counting")
  /\ lists < MaxLists
  /\ lists' = lists + 1
  /\ UNCHANGED <<agentRunning, agentTimers, db, agentOf, found, listed, cutOff, losses, left,
                 lead, changed, dials, capped, stopPc>>

BadEnter(x) == AskForList(x)  \* nobody looks whether the agent is still running

Enter(x) == AskForList(x) /\ agentOf[x] \in agentRunning

EnterStopped(x) ==
  /\ Step(x, "entry", "ended")
  /\ agentOf[x] \notin agentRunning
  /\ UNCHANGED <<agentRunning, agentTimers, db, ami, agentOf, left, lead, changed, dials, capped,
                 stopPc>>

Listening == {x \in Loops : pc[x] = "counting"}

\* EndpointList: the queries for which the endpoint is a free agent count it.
ListEndpoint ==
  /\ lists > 0 /\ listed < Endpoints
  /\ listed' = listed + 1
  /\ \E S \in SUBSET Listening :
        found' = [x \in Loops |-> IF x \in S THEN found[x] + 1 ELSE found[x]]
  /\ UNCHANGED <<agentRunning, agentTimers, db, pc, agentOf, lists, cutOff, losses, left, lead,
                 changed, dials, capped, stopPc>>

\* The queries that the end of a list resolves: all that listen.
BadAnswered == {x \in Listening : \A y \in Listening : found[y] <= found[x]}

Answered == Listening

\* Nobody is free: setTimeout without a record of the timer (5 s).
AfterCount(n) == IF n = 0 THEN "sleeping" ELSE "finding"

\* EndpointListComplete: the loops that are answered start a blast or sleep.
ListComplete ==
  /\ lists > 0 /\ listed = Endpoints
  /\ lists' = lists - 1
  /\ listed' = 0
  /\ pc' = [x \in Loops |-> IF x \in Answered THEN AfterCount(found[x]) ELSE pc[x]]
  /\ left' = [x \in Loops |-> IF x \in Answered THEN BlastSize(found[x]) ELSE left[x]]
  /\ found' = [x \in Loops |-> IF x \in Answered THEN 0 ELSE found[x]]
  /\ cutOff' = cutOff \ Answered
  /\ UNCHANGED <<agentRunning, agentTimers, db, agentOf, losses, lead, changed, dials, capped, stopPc>>

\* The AMI connection is lost and made again: what was asked is not answered.
ConnectionLost ==
  /\ lists > 0
  /\ losses < MaxLosses
  /\ losses' = losses + 1
  /\ lists' = 0
  /\ listed' = 0
  /\ cutOff' = cutOff \cup Listening
  /\ UNCHANGED <<agentRunning, agentTimers, db, pc, agentOf, found, left, lead, changed, dials,
                 capped, stopPc>>

\* nextLead, findFirst: the oldest lead neither locked nor contacted.
FindLead(x, l) ==
  /\ Step(x, "finding", "locking")
  /\ l \in OldestWaiting
  /\ lead' = [lead EXCEPT ![x] = l]
  /\ UNCHANGED <<agentRunning, agentTimers, db, ami, agentOf, left, changed, dials, capped, stopPc>>

\* No more leads (30 s, no record of the timer).
BadNoLead(x) ==  \* an empty queue ends the loop
  /\ Step(x, "finding", "ended")
  /\ Waiting = {}
  /\ left' = [left EXCEPT ![x] = 0]
  /\ UNCHANGED <<agentRunning, agentTimers, db, ami, agentOf, lead, changed, dials, capped, stopPc>>

NoLead(x) ==
  /\ Step(x, "finding", "sleeping")
  /\ Waiting = {}
  /\ left' = [left EXCEPT ![x] = 0]
  /\ UNCHANGED <<agentRunning, agentTimers, db, ami, agentOf, lead, changed, dials, capped, stopPc>>

\* nextLead, update: not conditional on what findFirst saw.
LockLead(x) ==
  /\ Step(x, "locking", "dialing")
  /\ locked' = LockedWith(lead[x])
  /\ changed' = [changed EXCEPT ![x] = {}]
  /\ UNCHANGED <<agentRunning, agentTimers, ami, inDialer, contacted, agentOf, left, lead, dials,
                 capped, stopPc>>

\* The call log is created and the settings allow it: originate.  The last
\* iteration of a blast arms the one timer that is recorded (30 s).
Dial(x) ==
  LET last == LastCall(x) IN
  /\ Step(x, "dialing", IF last THEN "resting" ELSE "finding")
  /\ dials' = [dials EXCEPT ![x][lead[x]] = @ + 1]
  /\ left' = [left EXCEPT ![x] = @ - 1]
  /\ lead' = [lead EXCEPT ![x] = None]
  /\ agentTimers' = IF last THEN [agentTimers EXCEPT ![agentOf[x]] = x] ELSE agentTimers
  /\ UNCHANGED <<agentRunning, db, ami, agentOf, changed, capped, stopPc>>

\* The settings are missing or incomplete (10 s, no record of the timer).
NoSettings(x) ==
  /\ Step(x, "dialing", "sleeping")
  /\ left' = [left EXCEPT ![x] = 0]
  /\ lead' = [lead EXCEPT ![x] = None]
  /\ UNCHANGED <<agentRunning, agentTimers, db, ami, agentOf, changed, dials, capped, stopPc>>

\* The hold queue is at callLimit: return, and arm no timer.
AtCallLimit(x) ==
  /\ Step(x, "dialing", "ended")
  /\ left' = [left EXCEPT ![x] = 0]
  /\ lead' = [lead EXCEPT ![x] = None]
  /\ capped' = capped \cup {agentOf[x]}
  /\ UNCHANGED <<agentRunning, agentTimers, db, ami, agentOf, changed, dials, stopPc>>

Wake(x) ==
  /\ pc[x] \in {"sleeping", "resting"}
  /\ Step(x, pc[x], "entry")
  /\ UNCHANGED <<agentRunning, agentTimers, db, ami, agentOf, left, lead, changed, dials, capped,
                 stopPc>>

-----------------------------------------------------------------------------
\* A lead is marked, behind the back of the loops that have read the queue.
Mark(c) ==
  LET news == (contacted \ c) \cup (c \ contacted) IN
  /\ contacted' = c
  /\ changed' = [x \in Loops |-> IF pc[x] = "locking" THEN changed[x] \cup news ELSE changed[x]]
  /\ UNCHANGED <<agentRunning, agentTimers, ami, inDialer, locked, pc, agentOf, left, lead,
                 dials, capped, stopPc>>

\* A dialed lead's call ends: ChannelDestroyed sets isContacted.
LeadContacted(l) ==
  /\ l \notin contacted
  /\ \E x \in Loops : dials[x][l] > 0
  /\ Mark(contacted \cup {l})

\* updateLead: isContacted is what the user says, whether the lead is locked or not.
UpdateLead(l) ==
  \/ l \notin contacted /\ Mark(contacted \cup {l})
  \/ l \in contacted /\ Mark(contacted \ {l})

\* The process restarts: memory is lost, the database is not.
Restart ==
  /\ agentRunning' = {}
  /\ agentTimers' = [a \in Agents |-> None]
  /\ pc' = [x \in Loops |-> IF pc[x] = "new" THEN "new" ELSE "ended"]
  /\ found' = [x \in Loops |-> 0]
  /\ lists' = 0
  /\ listed' = 0
  /\ cutOff' = {}
  /\ left' = [x \in Loops |-> 0]
  /\ lead' = [x \in Loops |-> None]
  /\ changed' = [x \in Loops |-> {}]
  /\ stopPc' = [a \in Agents |-> "idle"]
  /\ UNCHANGED <<db, agentOf, dials, capped, losses>>

LoopStep(x) ==
  \/ StartFlag(x) \/ StartRunning(x)
  \/ Enter(x) \/ EnterStopped(x)
  \/ (\E l \in Leads : FindLead(x, l)) \/ NoLead(x) \/ LockLead(x)
  \/ Dial(x) \/ NoSettings(x) \/ AtCallLimit(x)
  \/ Wake(x)

\* What Asterisk sends.
ListStep == ListEndpoint \/ ListComplete

Next ==
  \/ \E x \in Loops : LoopStep(x) \/ StartRefused(x) \/ \E a \in Agents : StartRequest(x, a)
  \/ \E a \in Agents : Stop(a) \/ StopFlag(a)
  \/ ListStep \/ ConnectionLost
  \/ \E l \in Leads : LeadContacted(l) \/ UpdateLead(l)
  \/ Restart

Spec == Init /\ [][Next]_vars

\* The event loop runs what is ready: the database answers and timers fire.  As
\* long as the connection lasts, Asterisk sends the lists it was asked for.
FairSpec == Spec /\ WF_vars(ListStep) /\ \A x \in Loops : WF_vars(LoopStep(x))

-----------------------------------------------------------------------------
(***************************************************************************)
(* Properties.                                                             *)
(***************************************************************************)

\* No loop originates the same lead twice, over all its blasts, retries and
\* sleeps: nothing ever takes a lock back.
LoopNeverRedials == \A x \in Loops, l \in Leads : dials[x][l] <= 1

\* Leads leave the queue in the order of their creation, each for ever, however
\* many loops race in nextLead while users mark leads.  The one exception is a
\* loop between findFirst and update: what is marked meanwhile it has missed.
Queue ==
  INSTANCE LeadQueue WITH
    Callers <- Loops, taken <- locked, aside <- contacted,
    looking <- {x \in Loops : pc[x] = "locking"}, missed <- changed

HandedOutInOrder == Queue!Spec

\* However the queries of several loops overlap on the one connection, none
\* counts an agent twice, unless it has heard the lists of two connections.
AgentsCountedOnce == \A x \in Loops : x \in cutOff \/ found[x] <= Endpoints

\* The loop waits for an answer that was lost with the connection; only the end
\* of a list that another loop asks for can release it.
CutOff(x) == pc[x] = "counting" /\ x \in cutOff

Active(x) == pc[x] \notin {"new", "asked", "flagged", "ended"} /\ ~CutOff(x)

\* An agent whose dialer is running has a loop that goes on, unless one of his
\* loops ended at callLimit or is cut off: every other return of blastDial
\* re-arms a timer, and a stop kills only loops of agents it stops.  (A query
\* that rejects is no return: see the README for what that does to a loop.)
RunningHasLoop ==
  \A a \in agentRunning :
    a \in capped \/ \E x \in Loops : agentOf[x] = a /\ (Active(x) \/ CutOff(x))

\* A stopped dialer drains: if an agent is stopped for good, his loops all end,
\* and no query waits for ever whose connection lasts.
StoppedDrains ==
  \A a \in Agents :
    <>[](a \notin agentRunning) => <>[](\A x \in Loops : agentOf[x] = a => ~Active(x))

\* customer-crm.service.ts:75, "Soft lock the lead so no one else grabs it".
GrabbedByOne ==
  \A x, y \in Loops, l \in Leads : dials[x][l] > 0 /\ dials[y][l] > 0 => x = y

====
