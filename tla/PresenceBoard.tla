---------------------------- MODULE PresenceBoard ----------------------------
(***************************************************************************)
(* WsGatewayGateway: the map of the agents that are online, which the      *)
(* sockets of agents write and the consoles of managers show.              *)
(*                                                                         *)
(* Every handler runs to its end without an await.  The events a console   *)
(* gets arrive in the order they were sent, so a console is modelled by    *)
(* what the events sent to it say.                                         *)
(***************************************************************************)
CONSTANTS
  Agents, Companies,
  CompanyOf,   \* the systemCompanyId of each agent
  Sockets,     \* sockets of agents, each connects once
  Consoles,    \* sockets of managers
  RoomOf,      \* the company of a manager, All for an admin
  Statuses, Offline, All, None

VARIABLES
  agents,         \* the status of each agent, None if he is not in the map
  socketToAgent,  \* the agent each connected socket last spoke for, or None
  closed,         \* the sockets that have disconnected
  joined,         \* the consoles that have joined their room
  shown,          \* what each console shows of each agent
  left,           \* history: agents a socket left for another agent
  dropped         \* history: agents that lost a socket since they last spoke

vars == <<agents, socketToAgent, closed, joined, shown, left, dropped>>

Shown == Statuses \cup {Offline, None}

TypeOK ==
  /\ agents \in [Agents -> Statuses \cup {None}]
  /\ socketToAgent \in [Sockets -> Agents \cup {None}]
  /\ closed \subseteq Sockets
  /\ joined \subseteq Consoles
  /\ shown \in [Consoles -> [Agents -> Shown]]
  /\ left \subseteq Agents
  /\ dropped \subseteq Agents

Init ==
  /\ agents = [a \in Agents |-> None]
  /\ socketToAgent = [s \in Sockets |-> None]
  /\ closed = {}
  /\ joined = {}
  /\ shown = [m \in Consoles |-> [a \in Agents |-> None]]
  /\ left = {}
  /\ dropped = {}

-----------------------------------------------------------------------------
\* The consoles in the room of company c, and in the admins' room.
BadAudience(c) == {m \in joined : RoomOf[m] = c}

Audience(c) == {m \in joined : RoomOf[m] \in {c, All}}

\* 'agent:update' with status, to the rooms that see agent a.
Update(a, status) ==
  [m \in Consoles |-> IF m \in Audience(CompanyOf[a]) THEN [shown[m] EXCEPT ![a] = status]
                      ELSE shown[m]]

\* 'agent:init': the agents of the map that console m may see.
List(m) == [a \in Agents |-> IF RoomOf[m] \in {CompanyOf[a], All} THEN agents[a] ELSE None]

Online(c) == {a \in Agents : CompanyOf[a] = c /\ agents[a] # None}

\* The map after agent a has gone: taken out, not only marked.
BadWithout(a) == [agents EXCEPT ![a] = Offline]

Without(a) == [agents EXCEPT ![a] = None]

(***************************************************************************)
(* Handlers                                                                *)
(***************************************************************************)
HandleManagerConnect(m) ==
  /\ joined' = joined \cup {m}
  /\ shown' = [shown EXCEPT ![m] = List(m)]
  /\ UNCHANGED <<agents, socketToAgent, closed, left, dropped>>

HandleAgentStatus(s, a, status) ==
  LET before == socketToAgent[s] IN
  /\ s \notin closed
  /\ socketToAgent' = [socketToAgent EXCEPT ![s] = a]
  /\ agents' = [agents EXCEPT ![a] = status]
  /\ shown' = Update(a, status)
  /\ left' = (left \cup ({before} \ {None})) \ {a}
  /\ dropped' = dropped \ {a}
  /\ UNCHANGED <<closed, joined>>

BadHandleDisconnect(s) ==
  LET a == socketToAgent[s] IN
  /\ s \notin closed
  /\ closed' = closed \cup {s}
  /\ socketToAgent' = [socketToAgent EXCEPT ![s] = None]
  /\ UNCHANGED <<agents, joined, shown, left, dropped>>

\* The agent goes, even if another socket speaks for him.
HandleDisconnect(s) ==
  LET a == socketToAgent[s] IN
  /\ s \notin closed
  /\ closed' = closed \cup {s}
  /\ socketToAgent' = [socketToAgent EXCEPT ![s] = None]
  /\ \/ /\ a = None
        /\ UNCHANGED <<agents, shown, left, dropped>>
     \/ /\ a # None
        /\ agents' = Without(a)
        /\ shown' = IF agents[a] # None THEN Update(a, Offline) ELSE shown
        /\ left' = left \ {a}
        /\ dropped' = dropped \cup {a}
  /\ UNCHANGED joined

\* The timer: a company with nobody online gets no list.
Tick ==
  /\ shown' = [m \in Consoles |->
                 IF m \in joined /\ (RoomOf[m] = All \/ Online(RoomOf[m]) # {}) THEN List(m)
                 ELSE shown[m]]
  /\ UNCHANGED <<agents, socketToAgent, closed, joined, left, dropped>>

\* The process ends: the map is lost and every socket is closed.  A browser
\* connects again, with another socket.
Restart ==
  /\ agents' = [a \in Agents |-> None]
  /\ socketToAgent' = [s \in Sockets |-> None]
  /\ closed' = closed \cup {s \in Sockets : socketToAgent[s] # None}
  /\ joined' = {}
  /\ left' = {}
  /\ dropped' = {}
  /\ UNCHANGED shown

Request ==
  \/ \E m \in Consoles : HandleManagerConnect(m)
  \/ \E s \in Sockets : \/ \E a \in Agents, status \in Statuses : HandleAgentStatus(s, a, status)
                        \/ HandleDisconnect(s)

Next == Request \/ Tick \/ Restart

Spec == Init /\ [][Next]_vars

-----------------------------------------------------------------------------
(***************************************************************************)
(* Properties.                                                             *)
(***************************************************************************)
\* The map against the sockets.  An agent is in the map without a connected
\* socket only if his socket was taken over by another agent, whose disconnect
\* then does not remove him; he is missing although a socket speaks for him only
\* if another socket of his (a second tab, the page before a reload) has
\* disconnected since he last spoke.  (ws-gateway.gateway.ts:69-91, 144.)
BoardFollowsSockets ==
  \A a \in Agents :
    LET speaking == \E s \in Sockets : socketToAgent[s] = a IN
    /\ agents[a] # None => speaking \/ a \in left
    /\ agents[a] = None /\ speaking => a \in dropped

\* A console shows every agent of its company (an admin's, of every company) as
\* the map has him, one that is not in the map as offline or not at all, and
\* never an agent of another company, whichever of updates, lists and the timer
\* reached it last.
ConsoleShowsBoard ==
  \A m \in joined, a \in Agents :
    IF RoomOf[m] \notin {CompanyOf[a], All} THEN shown[m][a] = None
    ELSE IF agents[a] # None THEN shown[m][a] = agents[a]
    ELSE shown[m][a] \in {Offline, None}

====
