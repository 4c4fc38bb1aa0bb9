-------------------------- MODULE BackOffice_proofs --------------------------
(* Proofs about BackOffice and the parts it is made of, for every number of  *)
(* clients, users, companies, agents, sockets and requests.                  *)
EXTENDS BackOffice, FiniteSetTheorems, TLAPS

(* Accounts: types *)

LEMMA AgentsOfFinite ==
  ASSUME NEW c
  PROVE  IsFiniteSet(AgentsOf(c)) /\ Cardinality(AgentsOf(c)) \in Nat
<1>1. AgentsOf(c) \in SUBSET Agents
  BY DEF AgentsOf, LiveAgents
<1> QED
  BY <1>1, AgentsAssumption, FS_Subset, FS_CardinalityType

LEMMA AccountsTypeInit == AccountsInit => AccountsTypeOK
<1> SUFFICES ASSUME AccountsInit PROVE AccountsTypeOK
  OBVIOUS
<1>1. user \in [Users -> UserRow] /\ agent \in [Agents -> AgentRow]
  BY DEF AccountsInit, UserRow, AgentRow
<1>2. request \in [Clients -> Request]
  BY DEF AccountsInit, Idle, Request
<1> QED
  BY <1>1, <1>2 DEF AccountsInit, AccountsTypeOK

\* The field of a request that a step goes on with keeps its type.
LEMMA GoOnType ==
  ASSUME AccountsTypeOK, NEW r \in Clients,
         NEW at \in {"admitted", "configuring", "appending", "deleting"},
         Done(r) \/ GoOn(r, at)
  PROVE  request' \in [Clients -> Request]
<1>1. CASE Done(r)
  BY <1>1 DEF Done, AccountsTypeOK, Idle, Request
<1>2. CASE GoOn(r, at)
  <2>1. [request[r] EXCEPT !.at = at] \in Request
    <3>1. request[r] \in Request
      BY DEF AccountsTypeOK
    <3> QED
      BY <3>1 DEF Request
  <2> QED
    BY <1>2, <2>1 DEF GoOn, AccountsTypeOK
<1> QED
  BY <1>1, <1>2

\* A request that has come to an agent or a file knows it.
RequestsKnow ==
  \A r \in Clients :
    /\ request[r].at \in {"informing", "configuring", "appending", "removing", "deleting",
                         "syncing", "creating"} => request[r].agent \in Agents
    /\ request[r].at = "creating" => request[r].file \in Mails

LEMMA AccountsTypeInductive ==
  ASSUME AccountsTypeOK, RequestsKnow, AccountsNext
  PROVE  AccountsTypeOK'
<1>1. ASSUME NEW u \in Users, NEW c \in Companies, Register(u, c) \/ UpdateUser(u, c)
      PROVE  AccountsTypeOK'
  <2>1. user' \in [Users -> UserRow]
    BY <1>1 DEF Register, UpdateUser, AccountsTypeOK, UserRow
  <2> QED
    BY <1>1, <2>1 DEF Register, UpdateUser, AccountsTypeOK
<1>2. ASSUME NEW u \in Users, RemoveUser(u) \/ RemoveSubscription(u) \/ SectionAppended(u)
      PROVE  AccountsTypeOK'
  <2>1. user' \in [Users -> UserRow]
    BY <1>2 DEF RemoveUser, RemoveSubscription, SectionAppended, AccountsTypeOK, UserRow
  <2> QED
    BY <1>2, <2>1 DEF RemoveUser, RemoveSubscription, SectionAppended, AccountsTypeOK
<1>3. ASSUME NEW u \in Users, AppendFails(u)
      PROVE  AccountsTypeOK'
  <2>1. request' \in [Clients -> Request]
    BY <1>3 DEF AppendFails, Idle, Request
  <2> QED
    BY <1>3, <2>1 DEF AppendFails, AccountsTypeOK
<1>4. ASSUME NEW u \in Users, NEW v \in Users, NEW q \in Quotas,
             CreateSubscription(u, q) \/ UpdateSubscription(u, v, q)
      PROVE  AccountsTypeOK'
  BY <1>4 DEF CreateSubscription, UpdateSubscription, AccountsTypeOK
<1>5. ASSUME NEW r \in Clients, NEW u \in Users, CountAgents(r, u)
      PROVE  AccountsTypeOK'
  <2>1. user[u].company \in Companies \cup {None}
    BY DEF AccountsTypeOK, UserRow
  <2>2. Cardinality(AgentsOf(user[u].company)) \in Nat
    BY AgentsOfFinite
  <2>3. request' \in [Clients -> Request]
    BY <1>5, <2>1, <2>2 DEF CountAgents, AccountsTypeOK, Idle, Request
  <2> QED
    BY <1>5, <2>3 DEF CountAgents, AccountsTypeOK
<1>6. ASSUME NEW r \in Clients, CheckSubscription(r)
      PROVE  AccountsTypeOK'
  <2>1. request' \in [Clients -> Request]
    BY <1>6, GoOnType DEF CheckSubscription
  <2> QED
    BY <1>6, <2>1 DEF CheckSubscription, AccountsTypeOK
<1>7. ASSUME NEW r \in Clients, NEW a \in Agents, NEW c \in Companies, InsertAgent(r, a, c)
      PROVE  AccountsTypeOK'
  <2>1. request[r].company \in Companies \cup {None}
    BY DEF AccountsTypeOK, Request
  <2>2. agent' \in [Agents -> AgentRow]
    BY <1>7 DEF InsertAgent, AccountsTypeOK, AgentRow
  <2>3. request' \in [Clients -> Request]
    <3>1. request[r] \in Request
      BY DEF AccountsTypeOK
    <3>2. [request[r] EXCEPT !.at = "informing", !.agent = a] \in Request
      BY <3>1 DEF Request
    <3> QED
      BY <1>7, <3>2 DEF InsertAgent, AccountsTypeOK
  <2>4. counted' \in [Agents -> Companies \cup {None}]
    BY <1>7, <2>1 DEF InsertAgent, AccountsTypeOK
  <2> QED
    BY <1>7, <2>2, <2>3, <2>4 DEF InsertAgent, AccountsTypeOK
<1>8. ASSUME NEW r \in Clients, InsertInformation(r) \/ InsertConfig(r) \/ DeleteConfig(r)
      PROVE  AccountsTypeOK'
  <2>1. information' \subseteq Agents /\ config' \subseteq Agents
    BY <1>8 DEF InsertInformation, InsertConfig, DeleteConfig, LiveAgents, AccountsTypeOK
  <2>2. request' \in [Clients -> Request]
    BY <1>8, GoOnType DEF InsertInformation, InsertConfig, DeleteConfig
  <2> QED
    BY <1>8, <2>1, <2>2 DEF InsertInformation, InsertConfig, DeleteConfig, AccountsTypeOK
<1>9. ASSUME NEW r \in Clients, AppendAgent(r) \/ QueryRejected(r)
      PROVE  AccountsTypeOK'
  <2>1. request' \in [Clients -> Request]
    BY <1>9, GoOnType DEF AppendAgent, QueryRejected
  <2>2. agentFile' \subseteq Agents \cup Users
    BY <1>9 DEF AppendAgent, QueryRejected, AccountsTypeOK, RequestsKnow
  <2> QED
    BY <1>9, <2>1, <2>2 DEF AppendAgent, QueryRejected, AccountsTypeOK
<1>10. ASSUME NEW r \in Clients, NEW a \in Agents, FindAgent(r, a)
       PROVE  AccountsTypeOK'
  <2>1. request' \in [Clients -> Request]
    BY <1>10 DEF FindAgent, AccountsTypeOK, Idle, Request
  <2> QED
    BY <1>10, <2>1 DEF FindAgent, AccountsTypeOK
<1>11. ASSUME NEW r \in Clients, DeleteAgent(r)
       PROVE  AccountsTypeOK'
  <2>1. agent' \in [Agents -> AgentRow]
    BY <1>11 DEF DeleteAgent, AccountsTypeOK, AgentRow
  <2>2. request' \in [Clients -> Request]
    BY <1>11, GoOnType DEF DeleteAgent
  <2> QED
    BY <1>11, <2>1, <2>2 DEF DeleteAgent, AccountsTypeOK
<1>12. ASSUME NEW a \in Agents, UpdatePassword(a)
       PROVE  AccountsTypeOK'
  <2>1. agent' \in [Agents -> AgentRow]
    BY <1>12 DEF UpdatePassword, AccountsTypeOK, AgentRow
  <2> QED
    BY <1>12, <2>1 DEF UpdatePassword, AccountsTypeOK
<1>13. ASSUME NEW r \in Clients, NEW a \in Agents, NEW files \in SUBSET Mails,
              ReadMailbox(r, a, files)
       PROVE  AccountsTypeOK'
  <2>1. request' \in [Clients -> Request]
    BY <1>13 DEF ReadMailbox, AccountsTypeOK, Idle, Request
  <2> QED
    BY <1>13, <2>1 DEF ReadMailbox, AccountsTypeOK
<1>14. ASSUME NEW r \in Clients, NextFile(r)
       PROVE  AccountsTypeOK'
  <2>1. request[r] \in Request /\ request[r].files \subseteq Mails
    BY DEF AccountsTypeOK, Request
  <2>2. ASSUME NEW m \in request[r].files, NEW at \in {"syncing", "creating"},
               NEW file \in {None, m}
        PROVE  [request[r] EXCEPT !.files = request[r].files \ {m}, !.at = at, !.file = file]
                 \in Request
    BY <2>1 DEF Request
  <2>3. request' \in [Clients -> Request]
    <3>1. CASE Done(r)
      BY <3>1, GoOnType
    <3>2. CASE ~Done(r)
      <4>1. PICK m \in request[r].files :
              request' = [request EXCEPT ![r].files = request[r].files \ {m},
                                         ![r].at = IF Seen(m) THEN "syncing" ELSE "creating",
                                         ![r].file = IF Seen(m) THEN None ELSE m]
        BY <1>14, <3>2 DEF NextFile
      <4>2. CASE Seen(m)
        <5>1. request' = [request EXCEPT ![r] = [request[r] EXCEPT
                            !.files = request[r].files \ {m}, !.at = "syncing", !.file = None]]
          BY <4>1, <4>2 DEF AccountsTypeOK
        <5> QED
          BY <2>2, <5>1 DEF AccountsTypeOK
      <4>3. CASE ~Seen(m)
        <5>1. request' = [request EXCEPT ![r] = [request[r] EXCEPT
                            !.files = request[r].files \ {m}, !.at = "creating", !.file = m]]
          BY <4>1, <4>3 DEF AccountsTypeOK
        <5> QED
          BY <2>2, <5>1 DEF AccountsTypeOK
      <4> QED
        BY <4>2, <4>3
    <3> QED
      BY <3>1, <3>2
  <2> QED
    BY <1>14, <2>3 DEF NextFile, AccountsTypeOK
<1>15. ASSUME NEW r \in Clients, CreateVoicemail(r)
       PROVE  AccountsTypeOK'
  <2>1. request[r].file \in Mails
    BY <1>15 DEF CreateVoicemail, RequestsKnow
  <2>2. copies' \in [Mails -> [Clients -> Nat]]
    BY <1>15, <2>1 DEF CreateVoicemail, AccountsTypeOK
  <2>3. request' \in [Clients -> Request]
    <3>1. request[r] \in Request
      BY DEF AccountsTypeOK
    <3>2. [request[r] EXCEPT !.at = "syncing", !.file = None] \in Request
      BY <3>1 DEF Request
    <3> QED
      BY <1>15, <3>2 DEF CreateVoicemail, AccountsTypeOK
  <2> QED
    BY <1>15, <2>2, <2>3 DEF CreateVoicemail, AccountsTypeOK
<1> QED
  BY <1>1, <1>2, <1>3, <1>4, <1>5, <1>6, <1>7, <1>8, <1>9, <1>10, <1>11, <1>12, <1>13, <1>14,
     <1>15
     DEF AccountsNext, AccountRequest, UserRequest, SubscriptionRequest, AgentRequest,
         VoicemailRequest, AccountStep, AccountRestart

LEMMA RequestsKnowInductive ==
  ASSUME AccountsTypeOK, RequestsKnow, AccountsNext
  PROVE  RequestsKnow'
<1>1. \A r \in Clients : request[r] \in Request /\ request[r].files \subseteq Mails
  BY DEF AccountsTypeOK, Request
<1>2. ASSUME UNCHANGED request PROVE RequestsKnow'
  BY <1>2 DEF RequestsKnow
<1>3. ASSUME NEW u \in Users,
             \/ \E c \in Companies : Register(u, c) \/ UpdateUser(u, c)
             \/ RemoveUser(u) \/ RemoveSubscription(u) \/ SectionAppended(u)
             \/ \E q \in Quotas : \/ CreateSubscription(u, q)
                                  \/ \E v \in Users : UpdateSubscription(u, v, q)
      PROVE  RequestsKnow'
  BY <1>2, <1>3 DEF Register, UpdateUser, RemoveUser, RemoveSubscription, SectionAppended,
                    CreateSubscription, UpdateSubscription
<1>4. ASSUME NEW u \in Users, AppendFails(u) PROVE RequestsKnow'
  BY <1>4 DEF AppendFails, Idle, RequestsKnow
<1>5. ASSUME NEW a \in Agents, UpdatePassword(a) PROVE RequestsKnow'
  BY <1>2, <1>5 DEF UpdatePassword
<1>6. ASSUME NEW r \in Clients, Done(r) PROVE RequestsKnow'
  BY <1>6 DEF Done, Idle, RequestsKnow, AccountsTypeOK
<1>7. ASSUME NEW r \in Clients, NEW u \in Users, CountAgents(r, u) PROVE RequestsKnow'
  BY <1>7 DEF CountAgents, Idle, RequestsKnow, AccountsTypeOK
<1>8. ASSUME NEW r \in Clients, NEW at \in {"admitted", "configuring", "appending", "deleting"},
             GoOn(r, at), at # "admitted" => request[r].agent \in Agents
      PROVE  RequestsKnow'
  BY <1>1, <1>8 DEF GoOn, RequestsKnow, AccountsTypeOK, Request
<1>9. ASSUME NEW r \in Clients, CheckSubscription(r) PROVE RequestsKnow'
  BY <1>6, <1>8, <1>9 DEF CheckSubscription
<1>10. ASSUME NEW r \in Clients, NEW a \in Agents, NEW c \in Companies, InsertAgent(r, a, c)
       PROVE  RequestsKnow'
  BY <1>1, <1>10 DEF InsertAgent, RequestsKnow, AccountsTypeOK, Request
<1>11. ASSUME NEW r \in Clients, InsertInformation(r) \/ InsertConfig(r) \/ DeleteConfig(r)
       PROVE  RequestsKnow'
  <2>1. request[r].agent \in Agents
    BY <1>11 DEF InsertInformation, InsertConfig, DeleteConfig, RequestsKnow
  <2>2. Done(r) \/ GoOn(r, "configuring") \/ GoOn(r, "appending") \/ GoOn(r, "deleting")
    BY <1>11 DEF InsertInformation, InsertConfig, DeleteConfig
  <2> QED
    BY <1>6, <1>8, <2>1, <2>2
<1>12. ASSUME NEW r \in Clients, AppendAgent(r) \/ QueryRejected(r) \/ DeleteAgent(r)
       PROVE  RequestsKnow'
  BY <1>6, <1>12 DEF AppendAgent, QueryRejected, DeleteAgent
<1>13. ASSUME NEW r \in Clients, NEW a \in Agents, NEW files \in SUBSET Mails,
              FindAgent(r, a) \/ ReadMailbox(r, a, files)
       PROVE  RequestsKnow'
  <2>1. request'[r].agent \in Agents /\ request'[r].at # "creating"
    BY <1>13 DEF FindAgent, ReadMailbox, Idle, AccountsTypeOK
  <2>2. \A x \in Clients \ {r} : request'[x] = request[x]
    BY <1>13 DEF FindAgent, ReadMailbox, AccountsTypeOK
  <2> QED
    BY <2>1, <2>2 DEF RequestsKnow
<1>14. ASSUME NEW r \in Clients, NextFile(r)
       PROVE  RequestsKnow'
  <2>1. ASSUME NEW m \in request[r].files,
               request' = [request EXCEPT ![r].files = request[r].files \ {m},
                                          ![r].at = IF Seen(m) THEN "syncing" ELSE "creating",
                                          ![r].file = IF Seen(m) THEN None ELSE m]
        PROVE  RequestsKnow'
    <3>1. request[r].agent \in Agents /\ m \in Mails
      BY <1>1, <1>14 DEF NextFile, RequestsKnow
    <3>2. request'[r].agent \in Agents
      BY <1>1, <2>1, <3>1 DEF AccountsTypeOK, Request
    <3>3. request'[r].at = "creating" => request'[r].file \in Mails
      BY <1>1, <2>1, <3>1 DEF AccountsTypeOK, Request
    <3>4. \A x \in Clients \ {r} : request'[x] = request[x]
      BY <2>1 DEF AccountsTypeOK
    <3> QED
      BY <3>2, <3>3, <3>4 DEF RequestsKnow
  <2> QED
    BY <1>6, <1>14, <2>1 DEF NextFile
<1>15. ASSUME NEW r \in Clients, CreateVoicemail(r)
       PROVE  RequestsKnow'
  <2>1. request'[r].agent \in Agents /\ request'[r].at = "syncing"
    BY <1>1, <1>15 DEF CreateVoicemail, RequestsKnow, AccountsTypeOK, Request
  <2>2. \A x \in Clients \ {r} : request'[x] = request[x]
    BY <1>15 DEF CreateVoicemail, AccountsTypeOK
  <2> QED
    BY <2>1, <2>2 DEF RequestsKnow
<1> QED
  BY <1>3, <1>4, <1>5, <1>7, <1>9, <1>10, <1>11, <1>12, <1>13, <1>14, <1>15
     DEF AccountsNext, AccountRequest, UserRequest, SubscriptionRequest, AgentRequest,
         VoicemailRequest, AccountStep, AccountRestart

(* Accounts: sections and rows *)

\* A request that is about to give an agent a section has seen to his rows.
RequestHasRows ==
  \A r \in Clients : request[r].at \in {"configuring", "appending"} =>
    request[r].agent \in LiveAgents /\ request[r].agent \in information

\* No step takes the row of an agent who has his AgentInformation: the foreign
\* key refuses it.
LEMMA RowsStay ==
  ASSUME AccountsTypeOK, RequestsKnow, AccountsNext,
         NEW a \in Agents, a \in LiveAgents, a \in information
  PROVE  a \in LiveAgents' /\ a \in information'
<1>1. agent[a].row = "live"
  BY DEF LiveAgents
<1>2. ASSUME UNCHANGED <<agent, information>> PROVE a \in LiveAgents' /\ a \in information'
  BY <1>2 DEF LiveAgents
<1>3. ASSUME NEW u \in Users,
             \/ \E c \in Companies : Register(u, c) \/ UpdateUser(u, c)
             \/ RemoveUser(u) \/ RemoveSubscription(u) \/ SectionAppended(u) \/ AppendFails(u)
             \/ \E q \in Quotas : \/ CreateSubscription(u, q)
                                  \/ \E v \in Users : UpdateSubscription(u, v, q)
             \/ \E r \in Clients : CountAgents(r, u)
      PROVE  a \in LiveAgents' /\ a \in information'
  BY <1>2, <1>3 DEF Register, UpdateUser, RemoveUser, RemoveSubscription, SectionAppended,
                    CreateSubscription, UpdateSubscription, AppendFails, CountAgents
<1>4. ASSUME NEW b \in Agents, UpdatePassword(b)
      PROVE  a \in LiveAgents' /\ a \in information'
  <2>1. agent'[a].row = "live"
    BY <1>1, <1>4 DEF UpdatePassword, AccountsTypeOK, AgentRow
  <2> QED
    BY <1>4, <2>1 DEF UpdatePassword, LiveAgents
<1>5. ASSUME NEW r \in Clients,
             \/ \E b \in Agents : FindAgent(r, b) \/ (\E files \in SUBSET Mails : ReadMailbox(r, b, files))
             \/ CheckSubscription(r) \/ InsertConfig(r) \/ AppendAgent(r) \/ DeleteConfig(r)
             \/ NextFile(r) \/ CreateVoicemail(r) \/ QueryRejected(r)
      PROVE  a \in LiveAgents' /\ a \in information'
  BY <1>2, <1>5 DEF FindAgent, ReadMailbox, CheckSubscription, InsertConfig, AppendAgent,
                    DeleteConfig, NextFile, CreateVoicemail, QueryRejected
<1>6. ASSUME NEW r \in Clients, InsertInformation(r)
      PROVE  a \in LiveAgents' /\ a \in information'
  BY <1>6 DEF InsertInformation, LiveAgents
<1>7. ASSUME NEW r \in Clients, NEW b \in Agents, NEW c \in Companies, InsertAgent(r, b, c)
      PROVE  a \in LiveAgents' /\ a \in information'
  BY <1>1, <1>7 DEF InsertAgent, LiveAgents, AccountsTypeOK
<1>8. ASSUME NEW r \in Clients, DeleteAgent(r)
      PROVE  a \in LiveAgents' /\ a \in information'
  <2>1. agent'[a].row = "live"
    <3>1. CASE Referenced(request[r].agent)
      BY <1>1, <1>8, <3>1 DEF DeleteAgent
    <3>2. CASE ~Referenced(request[r].agent)
      <4>1. request[r].agent # a
        BY <3>2 DEF Referenced
      <4> QED
        BY <1>1, <1>8, <3>2, <4>1 DEF DeleteAgent, AccountsTypeOK
    <3> QED
      BY <3>1, <3>2
  <2> QED
    BY <1>8, <2>1 DEF DeleteAgent, LiveAgents
<1> QED
  BY <1>3, <1>4, <1>5, <1>6, <1>7, <1>8
     DEF AccountsNext, AccountRequest, UserRequest, SubscriptionRequest, AgentRequest,
         VoicemailRequest, AccountStep, AccountRestart

\* Which steps bring a request to the places RequestHasRows is about, and which
\* write a section of an agent.
LEMMA RowsInductive ==
  ASSUME AccountsTypeOK, RequestsKnow, RequestHasRows, SectionHasRows, AccountsNext
  PROVE  RequestHasRows' /\ SectionHasRows'
<1>1. ASSUME NEW r \in Clients, request[r].at \in {"configuring", "appending"}
      PROVE  request[r].agent \in LiveAgents' /\ request[r].agent \in information'
  <2>1. PICK a \in Agents : a = request[r].agent
    BY <1>1 DEF RequestsKnow
  <2>2. a \in LiveAgents /\ a \in information
    BY <1>1, <2>1 DEF RequestHasRows
  <2> QED
    BY <2>1, <2>2, RowsStay
<1>2. ASSUME agentFile' \cap Agents \subseteq agentFile
      PROVE  SectionHasRows'
  <2>1. ASSUME NEW a \in Agents, a \in agentFile'
        PROVE  a \in LiveAgents' /\ a \in information'
    <3>1. a \in LiveAgents /\ a \in information
      BY <1>2, <2>1 DEF SectionHasRows
    <3> QED
      BY <3>1, RowsStay
  <2> QED
    BY <2>1 DEF SectionHasRows
<1>3. ASSUME \A r \in Clients : \/ request'[r] = request[r]
                                \/ request'[r].at \notin {"configuring", "appending"}
      PROVE  RequestHasRows'
  BY <1>1, <1>3 DEF RequestHasRows
<1>4. ASSUME NEW u \in Users,
             \/ \E c \in Companies : Register(u, c) \/ UpdateUser(u, c)
             \/ RemoveUser(u) \/ RemoveSubscription(u) \/ SectionAppended(u)
             \/ \E q \in Quotas : \/ CreateSubscription(u, q)
                                  \/ \E v \in Users : UpdateSubscription(u, v, q)
      PROVE  RequestHasRows' /\ SectionHasRows'
  <2>1. UNCHANGED request
    BY <1>4 DEF Register, UpdateUser, RemoveUser, RemoveSubscription, SectionAppended,
                CreateSubscription, UpdateSubscription
  <2>2. agentFile' \subseteq agentFile \cup {u}
    BY <1>4 DEF Register, UpdateUser, RemoveUser, RemoveSubscription, SectionAppended,
                CreateSubscription, UpdateSubscription
  <2> QED
    BY <1>2, <1>3, <2>1, <2>2, AgentsAssumption
<1>5. ASSUME NEW u \in Users, AppendFails(u)
      PROVE  RequestHasRows' /\ SectionHasRows'
  <2>1. \A r \in Clients : request'[r].at = "idle"
    BY <1>5 DEF AppendFails, Idle
  <2> QED
    BY <1>2, <1>3, <1>5, <2>1 DEF AppendFails
<1>6. ASSUME NEW a \in Agents, UpdatePassword(a)
      PROVE  RequestHasRows' /\ SectionHasRows'
  BY <1>2, <1>3, <1>6 DEF UpdatePassword
<1>7. ASSUME NEW r \in Clients, Done(r)
      PROVE  RequestHasRows'
  BY <1>3, <1>7 DEF Done, Idle, AccountsTypeOK
<1>8. ASSUME NEW r \in Clients,
             \/ \E u \in Users : CountAgents(r, u)
             \/ \E a \in Agents : \/ FindAgent(r, a)
                                  \/ \E files \in SUBSET Mails : ReadMailbox(r, a, files)
             \/ QueryRejected(r) \/ DeleteAgent(r) \/ CheckSubscription(r) \/ DeleteConfig(r)
             \/ \E a \in Agents, c \in Companies : InsertAgent(r, a, c)
             \/ NextFile(r) \/ CreateVoicemail(r)
      PROVE  RequestHasRows' /\ SectionHasRows'
  <2>1. UNCHANGED agentFile
    BY <1>8 DEF CountAgents, FindAgent, ReadMailbox, QueryRejected, DeleteAgent,
                CheckSubscription, DeleteConfig, InsertAgent, NextFile, CreateVoicemail
  <2>2. request[r] \in Request
    BY DEF AccountsTypeOK
  <2>3. request'[r].at \notin {"configuring", "appending"}
    <3>1. CASE Done(r)
      BY <3>1 DEF Done, Idle, AccountsTypeOK
    <3>2. CASE GoOn(r, "admitted") \/ GoOn(r, "deleting")
      BY <2>2, <3>2 DEF GoOn, AccountsTypeOK, Request
    <3>3. CASE \/ \E u \in Users : CountAgents(r, u)
               \/ \E a \in Agents : \/ FindAgent(r, a)
                                    \/ \E files \in SUBSET Mails : ReadMailbox(r, a, files)
      <4>1. CASE \E u \in Users : CountAgents(r, u)
        BY <4>1 DEF CountAgents, Idle, AccountsTypeOK
      <4>2. CASE \E a \in Agents : FindAgent(r, a)
        BY <4>2 DEF FindAgent, Idle, AccountsTypeOK
      <4>3. CASE \E a \in Agents, files \in SUBSET Mails : ReadMailbox(r, a, files)
        BY <4>3 DEF ReadMailbox, Idle, AccountsTypeOK
      <4> QED
        BY <3>3, <4>1, <4>2, <4>3
    <3>4. CASE (\E a \in Agents, c \in Companies : InsertAgent(r, a, c)) \/ CreateVoicemail(r)
      BY <2>2, <3>4 DEF InsertAgent, CreateVoicemail, AccountsTypeOK, Request
    <3>5. CASE NextFile(r) /\ ~Done(r)
      <4>1. PICK m \in request[r].files :
              request' = [request EXCEPT ![r].files = request[r].files \ {m},
                                         ![r].at = IF Seen(m) THEN "syncing" ELSE "creating",
                                         ![r].file = IF Seen(m) THEN None ELSE m]
        BY <3>5 DEF NextFile
      <4> QED
        BY <2>2, <4>1 DEF AccountsTypeOK, Request
    <3> QED
      BY <1>8, <3>1, <3>2, <3>3, <3>4, <3>5
         DEF QueryRejected, DeleteAgent, CheckSubscription, DeleteConfig
  <2>4. \A x \in Clients \ {r} : request'[x] = request[x]
    <3>1. CASE NextFile(r) \/ CheckSubscription(r)
      BY <3>1 DEF NextFile, CheckSubscription, Done, GoOn, AccountsTypeOK
    <3> QED
      BY <1>8, <3>1 DEF CountAgents, FindAgent, ReadMailbox, QueryRejected, DeleteAgent,
           DeleteConfig, InsertAgent, CreateVoicemail, Done, GoOn, AccountsTypeOK
  <2> QED
    BY <1>2, <1>3, <2>1, <2>3, <2>4
<1>9. ASSUME NEW r \in Clients, InsertInformation(r)
      PROVE  RequestHasRows' /\ SectionHasRows'
  <2>1. CASE GoOn(r, "configuring")
    <3>1. request'[r].agent = request[r].agent /\ request'[r].at = "configuring"
      BY <2>1 DEF GoOn, AccountsTypeOK, Request
    <3>2. request[r].agent \in LiveAgents' /\ request[r].agent \in information'
      BY <1>9 DEF InsertInformation, LiveAgents
    <3>3. \A x \in Clients \ {r} : request'[x] = request[x]
      BY <2>1 DEF GoOn, AccountsTypeOK
    <3>4. RequestHasRows'
      BY <1>1, <3>1, <3>2, <3>3 DEF RequestHasRows
    <3> QED
      BY <1>2, <1>9, <3>4 DEF InsertInformation
  <2> QED
    BY <1>2, <1>7, <1>9, <2>1 DEF InsertInformation
<1>10. ASSUME NEW r \in Clients, InsertConfig(r)
       PROVE  RequestHasRows' /\ SectionHasRows'
  <2>1. request'[r].agent = request[r].agent /\ request[r].at = "configuring"
    BY <1>10 DEF InsertConfig, GoOn, AccountsTypeOK, Request
  <2>2. \A x \in Clients \ {r} : request'[x] = request[x]
    BY <1>10 DEF InsertConfig, GoOn, AccountsTypeOK
  <2>3. RequestHasRows'
    BY <1>1, <2>1, <2>2 DEF RequestHasRows
  <2> QED
    BY <1>2, <1>10, <2>3 DEF InsertConfig
<1>11. ASSUME NEW r \in Clients, AppendAgent(r)
       PROVE  RequestHasRows' /\ SectionHasRows'
  <2>1. request[r].agent \in LiveAgents' /\ request[r].agent \in information'
    BY <1>1, <1>11 DEF AppendAgent
  <2>2. ASSUME NEW a \in Agents, a \in agentFile'
        PROVE  a \in LiveAgents' /\ a \in information'
    <3>1. CASE a = request[r].agent
      BY <2>1, <3>1
    <3>2. CASE a # request[r].agent
      <4>1. a \in LiveAgents /\ a \in information
        BY <1>11, <2>2, <3>2 DEF AppendAgent, SectionHasRows
      <4> QED
        BY <4>1, RowsStay
    <3> QED
      BY <3>1, <3>2
  <2> QED
    BY <1>7, <1>11, <2>2 DEF AppendAgent, SectionHasRows
<1> QED
  BY <1>4, <1>5, <1>6, <1>8, <1>9, <1>10, <1>11
     DEF AccountsNext, AccountRequest, UserRequest, SubscriptionRequest, AgentRequest,
         VoicemailRequest, AccountStep, AccountRestart

(* Accounts: the quota *)

\* The agents of company c whose create had counted the company's own.
OwnAgents(c) == AgentsOf(c) \ SentTo(c)

\* The requests of company c that the subscription may still admit, or has.
UnderWay(c) ==
  {r \in Clients : /\ request[r].at \in {"counted", "admitted"}
                  /\ request[r].company = c
                  /\ request[r].total < MaxQuota}

\* What a create knows when it has counted, and when it was admitted.
AdmittedHadRoom ==
  \A r \in Clients : /\ request[r].at = "counted" => request[r].user \in Users
                     /\ request[r].at = "admitted" => request[r].total < MaxQuota

\* The invariant behind QuotaOvershoot: whoever may still insert counts already.
QuotaInv ==
  \A c \in Companies :
    Cardinality(OwnAgents(c)) + Cardinality(UnderWay(c)) < MaxQuota + Cardinality(Clients)

LEMMA QuotaFinite ==
  ASSUME NEW c
  PROVE  /\ IsFiniteSet(OwnAgents(c)) /\ Cardinality(OwnAgents(c)) \in Nat
         /\ IsFiniteSet(UnderWay(c)) /\ Cardinality(UnderWay(c)) \in Nat
         /\ Cardinality(UnderWay(c)) <= Cardinality(Clients)
         /\ Cardinality(OwnAgents(c)) <= Cardinality(AgentsOf(c))
         /\ Cardinality(Clients) \in Nat \ {0}
<1>1. OwnAgents(c) \in SUBSET AgentsOf(c) /\ UnderWay(c) \in SUBSET Clients
  BY DEF OwnAgents, UnderWay
<1>2. IsFiniteSet(OwnAgents(c)) /\ Cardinality(OwnAgents(c)) <= Cardinality(AgentsOf(c))
  BY <1>1, AgentsOfFinite, FS_Subset
<1>3. IsFiniteSet(UnderWay(c)) /\ Cardinality(UnderWay(c)) <= Cardinality(Clients)
  BY <1>1, ClientsAssumption, FS_Subset
<1>4. Cardinality(Clients) \in Nat \ {0}
  BY ClientsAssumption, FS_CardinalityType, FS_EmptySet
<1> QED
  BY <1>2, <1>3, <1>4, FS_CardinalityType

\* Neither set grows: then the invariant stays.
LEMMA QuotaStays ==
  ASSUME QuotaInv, NEW c \in Companies,
         OwnAgents(c)' \subseteq OwnAgents(c), UnderWay(c)' \subseteq UnderWay(c)
  PROVE  Cardinality(OwnAgents(c)') + Cardinality(UnderWay(c)') < MaxQuota + Cardinality(Clients)
<1>1. Cardinality(OwnAgents(c)') <= Cardinality(OwnAgents(c)) /\ Cardinality(OwnAgents(c)') \in Nat
  BY QuotaFinite, FS_Subset, FS_CardinalityType
<1>2. Cardinality(UnderWay(c)') <= Cardinality(UnderWay(c)) /\ Cardinality(UnderWay(c)') \in Nat
  BY QuotaFinite, FS_Subset, FS_CardinalityType
<1>3. Cardinality(OwnAgents(c)) + Cardinality(UnderWay(c)) < MaxQuota + Cardinality(Clients)
  BY DEF QuotaInv
<1> QED
  BY <1>1, <1>2, <1>3, QuotaFinite, QuotaAssumption

\* A request that leaves the two places, or goes on with what it counted.
LEMMA UnderWayShrinks ==
  ASSUME AccountsTypeOK, NEW r \in Clients, NEW c \in Companies,
         \A x \in Clients \ {r} : request'[x] = request[x],
         \/ request'[r].at \notin {"counted", "admitted"}
         \/ /\ request[r].at \in {"counted", "admitted"}
            /\ request'[r].company = request[r].company
            /\ request'[r].total = request[r].total
  PROVE  UnderWay(c)' \subseteq UnderWay(c)
BY DEF UnderWay

LEMMA QuotaInductive ==
  ASSUME AccountsTypeOK, AdmittedHadRoom, QuotaInv, AccountsNext
  PROVE  AdmittedHadRoom' /\ QuotaInv'
<1>1. \A r \in Clients : request[r] \in Request
  BY DEF AccountsTypeOK
<1>2. ASSUME UNCHANGED <<agent, counted>>
      PROVE  \A c \in Companies : OwnAgents(c)' = OwnAgents(c)
  BY <1>2 DEF OwnAgents, SentTo, AgentsOf, LiveAgents
<1>3. ASSUME UNCHANGED request
      PROVE  AdmittedHadRoom' /\ \A c \in Companies : UnderWay(c)' = UnderWay(c)
  BY <1>3 DEF UnderWay, AdmittedHadRoom
<1>4. ASSUME \A c \in Companies : /\ OwnAgents(c)' \subseteq OwnAgents(c)
                                  /\ UnderWay(c)' \subseteq UnderWay(c)
      PROVE  QuotaInv'
  <2>1. ASSUME NEW c \in Companies
        PROVE  Cardinality(OwnAgents(c)') + Cardinality(UnderWay(c)')
                 < MaxQuota + Cardinality(Clients)
    BY <1>4, QuotaStays
  <2> QED
    BY <2>1 DEF QuotaInv
<1>5. ASSUME NEW u \in Users,
             \/ \E c \in Companies : Register(u, c) \/ UpdateUser(u, c)
             \/ RemoveUser(u) \/ RemoveSubscription(u) \/ SectionAppended(u)
             \/ \E q \in Quotas : \/ CreateSubscription(u, q)
                                  \/ \E v \in Users : UpdateSubscription(u, v, q)
      PROVE  AdmittedHadRoom' /\ QuotaInv'
  <2>1. UNCHANGED <<agent, counted, request>>
    BY <1>5 DEF Register, UpdateUser, RemoveUser, RemoveSubscription, SectionAppended,
                CreateSubscription, UpdateSubscription
  <2> QED
    BY <1>2, <1>3, <1>4, <2>1
<1>6. ASSUME NEW u \in Users, AppendFails(u)
      PROVE  AdmittedHadRoom' /\ QuotaInv'
  <2>1. \A r \in Clients : request'[r].at = "idle"
    BY <1>6 DEF AppendFails, Idle
  <2>2. AdmittedHadRoom' /\ \A c \in Companies : UnderWay(c)' = {}
    BY <2>1 DEF AdmittedHadRoom, UnderWay
  <2>3. UNCHANGED <<agent, counted>>
    BY <1>6 DEF AppendFails
  <2> QED
    BY <1>2, <1>4, <2>2, <2>3
<1>7. ASSUME NEW r \in Clients, \A x \in Clients \ {r} : request'[x] = request[x],
             request'[r].at = "counted" => request'[r].user \in Users,
             request'[r].at # "admitted"
      PROVE  AdmittedHadRoom'
  BY <1>7 DEF AdmittedHadRoom
<1>8. ASSUME NEW r \in Clients, Done(r)
      PROVE  /\ \A x \in Clients \ {r} : request'[x] = request[x]
             /\ request'[r].at = "idle"
  BY <1>8 DEF Done, Idle, AccountsTypeOK
<1>9. ASSUME NEW r \in Clients, NEW at, GoOn(r, at)
      PROVE  /\ \A x \in Clients \ {r} : request'[x] = request[x]
             /\ request'[r].at = at
             /\ request'[r].company = request[r].company
             /\ request'[r].total = request[r].total
  BY <1>1, <1>9 DEF GoOn, AccountsTypeOK, Request
\* A step that leaves the agents and who was counted, and does not count.
<1>10. ASSUME NEW r \in Clients, UNCHANGED <<agent, counted>>,
              \A x \in Clients \ {r} : request'[x] = request[x],
              request'[r].at \notin {"counted", "admitted"}
       PROVE  AdmittedHadRoom' /\ QuotaInv'
  BY <1>2, <1>4, <1>7, <1>10, UnderWayShrinks
<1>11. ASSUME NEW r \in Clients, NEW u \in Users, CountAgents(r, u)
       PROVE  AdmittedHadRoom' /\ QuotaInv'
  <2> DEFINE company == user[u].company
  <2>1. /\ request'[r].at = "counted" /\ request'[r].company = company
        /\ request'[r].user = u
        /\ request'[r].total = Cardinality(AgentsOf(company))
        /\ \A x \in Clients \ {r} : request'[x] = request[x]
    BY <1>11 DEF CountAgents, Idle, AccountsTypeOK
  <2>2. AdmittedHadRoom'
    BY <1>7, <2>1
  <2>3. \A c \in Companies : OwnAgents(c)' = OwnAgents(c)
    BY <1>2, <1>11 DEF CountAgents
  <2>4. ASSUME NEW c \in Companies
        PROVE  Cardinality(OwnAgents(c)') + Cardinality(UnderWay(c)')
                 < MaxQuota + Cardinality(Clients)
    <3>1. CASE UnderWay(c)' \subseteq UnderWay(c)
      BY <2>3, <3>1, QuotaStays
    <3>2. CASE c = company /\ Cardinality(AgentsOf(c)) < MaxQuota
      <4>1. UnderWay(c)' \in SUBSET Clients
        BY DEF UnderWay
      <4>2. Cardinality(UnderWay(c)') <= Cardinality(Clients) /\ Cardinality(UnderWay(c)') \in Nat
        BY <4>1, ClientsAssumption, FS_Subset, FS_CardinalityType
      <4> QED
        BY <2>3, <3>2, <4>2, QuotaFinite, AgentsOfFinite, QuotaAssumption
    <3>3. CASE ~(c = company /\ Cardinality(AgentsOf(c)) < MaxQuota)
      <4>1. r \notin UnderWay(c)'
        BY <2>1, <3>3 DEF UnderWay
      <4>2. UnderWay(c)' \subseteq UnderWay(c)
        BY <2>1, <4>1 DEF UnderWay
      <4> QED
        BY <3>1, <4>2
    <3> QED
      BY <3>2, <3>3
  <2> QED
    BY <2>2, <2>4 DEF QuotaInv
<1>12. ASSUME NEW r \in Clients, CheckSubscription(r)
       PROVE  AdmittedHadRoom' /\ QuotaInv'
  <2>1. UNCHANGED <<agent, counted>>
    BY <1>12 DEF CheckSubscription
  <2>2. CASE Done(r)
    BY <1>8, <1>10, <2>1, <2>2
  <2>3. CASE HasRoom(r) /\ GoOn(r, "admitted")
    <3>1. PICK u \in Users : u = request[r].user
      BY <1>12 DEF CheckSubscription, AdmittedHadRoom
    <3>2. request[r].total < MaxQuota
      <4>1. subscription[u] \in 0..MaxQuota /\ request[r].total < subscription[u]
        BY <2>3, <3>1 DEF HasRoom, AccountsTypeOK, Quotas
      <4>2. request[r].total \in Nat
        BY <1>1 DEF Request
      <4> QED
        BY <4>1, <4>2, QuotaAssumption
    <3>3. AdmittedHadRoom'
      BY <1>9, <2>3, <3>2 DEF AdmittedHadRoom
    <3>4. \A c \in Companies : UnderWay(c)' \subseteq UnderWay(c)
      BY <1>9, <1>12, <2>3, UnderWayShrinks DEF CheckSubscription
    <3> QED
      BY <1>2, <1>4, <2>1, <3>3, <3>4
  <2> QED
    BY <1>12, <2>2, <2>3 DEF CheckSubscription
<1>13. ASSUME NEW r \in Clients, NEW a \in Agents, NEW b \in Companies, InsertAgent(r, a, b)
       PROVE  AdmittedHadRoom' /\ QuotaInv'
  <2>1. /\ request'[r].at = "informing"
        /\ \A x \in Clients \ {r} : request'[x] = request[x]
    BY <1>1, <1>13 DEF InsertAgent, AccountsTypeOK, Request
  <2>2. AdmittedHadRoom'
    BY <1>7, <2>1
  <2>3. agent[a].row = "unused" /\ agent'[a].company = b /\ counted'[a] = request[r].company
    BY <1>13 DEF InsertAgent, AccountsTypeOK
  <2>4. \A x \in Agents \ {a} : agent'[x] = agent[x] /\ counted'[x] = counted[x]
    BY <1>13 DEF InsertAgent, AccountsTypeOK
  <2>5. ASSUME NEW c \in Companies
        PROVE  Cardinality(OwnAgents(c)') + Cardinality(UnderWay(c)')
                 < MaxQuota + Cardinality(Clients)
    <3>1. UnderWay(c)' \subseteq UnderWay(c)
      BY <2>1, UnderWayShrinks
    <3>2. CASE c = b /\ c = request[r].company
      <4>1. OwnAgents(c)' \in SUBSET (OwnAgents(c) \cup {a})
        BY <2>4 DEF OwnAgents, SentTo, AgentsOf, LiveAgents
      <4>2. /\ IsFiniteSet(OwnAgents(c) \cup {a})
            /\ Cardinality(OwnAgents(c) \cup {a}) <= Cardinality(OwnAgents(c)) + 1
            /\ Cardinality(OwnAgents(c) \cup {a}) \in Nat
        <5>1. IsFiniteSet(OwnAgents(c)) /\ Cardinality(OwnAgents(c)) \in Nat
          BY QuotaFinite
        <5>2. /\ IsFiniteSet(OwnAgents(c) \cup {a})
              /\ Cardinality(OwnAgents(c) \cup {a})
                   = IF a \in OwnAgents(c) THEN Cardinality(OwnAgents(c))
                     ELSE Cardinality(OwnAgents(c)) + 1
          BY <5>1, FS_AddElement
        <5> QED
          BY <5>1, <5>2
      <4>3. /\ Cardinality(OwnAgents(c)') <= Cardinality(OwnAgents(c) \cup {a})
            /\ Cardinality(OwnAgents(c)') \in Nat
        BY <4>1, <4>2, FS_Subset, FS_CardinalityType
      <4>4. r \in UnderWay(c)
        BY <1>13, <3>2 DEF InsertAgent, AdmittedHadRoom, UnderWay
      <4>5. UnderWay(c)' \in SUBSET (UnderWay(c) \ {r})
        BY <2>1, <3>1 DEF UnderWay
      <4>6. /\ IsFiniteSet(UnderWay(c) \ {r})
            /\ Cardinality(UnderWay(c) \ {r}) = Cardinality(UnderWay(c)) - 1
        BY <4>4, QuotaFinite, FS_RemoveElement
      <4>7. /\ Cardinality(UnderWay(c)') <= Cardinality(UnderWay(c)) - 1
            /\ Cardinality(UnderWay(c)') \in Nat
        BY <4>5, <4>6, FS_Subset, FS_CardinalityType
      <4>8. Cardinality(OwnAgents(c)) + Cardinality(UnderWay(c)) < MaxQuota + Cardinality(Clients)
        BY DEF QuotaInv
      <4> QED
        BY <4>2, <4>3, <4>7, <4>8, QuotaFinite, QuotaAssumption
    <3>3. CASE ~(c = b /\ c = request[r].company)
      <4>1. a \notin OwnAgents(c)'
        BY <2>3, <3>3 DEF OwnAgents, SentTo, AgentsOf
      <4>2. OwnAgents(c)' \subseteq OwnAgents(c)
        BY <2>4, <4>1 DEF OwnAgents, SentTo, AgentsOf, LiveAgents
      <4> QED
        BY <3>1, <4>2, QuotaStays
    <3> QED
      BY <3>2, <3>3
  <2> QED
    BY <2>2, <2>5 DEF QuotaInv
<1>14. ASSUME NEW r \in Clients,
              \/ InsertInformation(r) \/ InsertConfig(r) \/ AppendAgent(r) \/ DeleteConfig(r)
              \/ QueryRejected(r)
       PROVE  AdmittedHadRoom' /\ QuotaInv'
  <2>1. UNCHANGED <<agent, counted>>
    BY <1>14 DEF InsertInformation, InsertConfig, AppendAgent, DeleteConfig, QueryRejected
  <2>2. \/ Done(r) \/ GoOn(r, "configuring") \/ GoOn(r, "appending") \/ GoOn(r, "deleting")
    BY <1>14 DEF InsertInformation, InsertConfig, AppendAgent, DeleteConfig, QueryRejected
  <2> QED
    BY <1>8, <1>9, <1>10, <2>1, <2>2
<1>15. ASSUME NEW r \in Clients, NEW a \in Agents, NEW files \in SUBSET Mails,
              FindAgent(r, a) \/ ReadMailbox(r, a, files)
       PROVE  AdmittedHadRoom' /\ QuotaInv'
  <2>1. UNCHANGED <<agent, counted>>
    BY <1>15 DEF FindAgent, ReadMailbox
  <2>2. /\ \A x \in Clients \ {r} : request'[x] = request[x]
        /\ request'[r].at \notin {"counted", "admitted"}
    BY <1>15 DEF FindAgent, ReadMailbox, Idle, AccountsTypeOK
  <2> QED
    BY <1>10, <2>1, <2>2
<1>16. ASSUME NEW r \in Clients, NextFile(r) \/ CreateVoicemail(r)
       PROVE  AdmittedHadRoom' /\ QuotaInv'
  <2>1. UNCHANGED <<agent, counted>>
    BY <1>16 DEF NextFile, CreateVoicemail
  <2>2. CASE Done(r)
    BY <1>8, <1>10, <2>1, <2>2
  <2>3. CASE NextFile(r) /\ ~Done(r)
    <3>1. PICK m \in request[r].files :
            request' = [request EXCEPT ![r].files = request[r].files \ {m},
                                       ![r].at = IF Seen(m) THEN "syncing" ELSE "creating",
                                       ![r].file = IF Seen(m) THEN None ELSE m]
      BY <2>3 DEF NextFile
    <3>2. /\ \A x \in Clients \ {r} : request'[x] = request[x]
          /\ request'[r].at \in {"syncing", "creating"}
      BY <1>1, <3>1 DEF AccountsTypeOK, Request
    <3> QED
      BY <1>10, <2>1, <3>2
  <2>4. CASE CreateVoicemail(r)
    <3>1. /\ \A x \in Clients \ {r} : request'[x] = request[x]
          /\ request'[r].at = "syncing"
      BY <1>1, <2>4 DEF CreateVoicemail, AccountsTypeOK, Request
    <3> QED
      BY <1>10, <2>1, <3>1
  <2> QED
    BY <1>16, <2>2, <2>3, <2>4
<1>17. ASSUME NEW a \in Agents, UpdatePassword(a)
       PROVE  AdmittedHadRoom' /\ QuotaInv'
  <2>1. \A x \in Agents : agent'[x].row = agent[x].row /\ agent'[x].company = agent[x].company
    BY <1>17 DEF UpdatePassword, AccountsTypeOK, AgentRow
  <2>2. UNCHANGED <<counted, request>>
    BY <1>17 DEF UpdatePassword
  <2>3. \A c \in Companies : OwnAgents(c)' \subseteq OwnAgents(c)
    BY <2>1, <2>2 DEF OwnAgents, SentTo, AgentsOf, LiveAgents
  <2> QED
    BY <1>3, <1>4, <2>2, <2>3
<1>18. ASSUME NEW r \in Clients, DeleteAgent(r)
       PROVE  AdmittedHadRoom' /\ QuotaInv'
  <2>1. /\ \A x \in Clients \ {r} : request'[x] = request[x]
        /\ request'[r].at = "idle"
    BY <1>8, <1>18 DEF DeleteAgent
  <2>2. \A x \in Agents : agent'[x] = agent[x] \/ agent'[x].row = "deleted"
    BY <1>18 DEF DeleteAgent, AccountsTypeOK
  <2>3. \A c \in Companies : OwnAgents(c)' \subseteq OwnAgents(c)
    BY <1>18, <2>2 DEF DeleteAgent, OwnAgents, SentTo, AgentsOf, LiveAgents
  <2>4. \A c \in Companies : UnderWay(c)' \subseteq UnderWay(c)
    BY <2>1, UnderWayShrinks
  <2> QED
    BY <1>4, <1>7, <2>1, <2>3, <2>4
<1> QED
  BY <1>5, <1>6, <1>11, <1>12, <1>13, <1>14, <1>15, <1>16, <1>17, <1>18
     DEF AccountsNext, AccountRequest, UserRequest, SubscriptionRequest, AgentRequest,
         VoicemailRequest, AccountStep, AccountRestart

(* Accounts: voicemail rows *)

\* A request that is about to create a row for a file has created none yet.
MailInv ==
  \A r \in Clients, m \in Mails :
    /\ copies[m][r] <= 1
    /\ request[r].at = "creating" /\ request[r].file = m => copies[m][r] = 0

LEMMA MailInductive ==
  ASSUME AccountsTypeOK, RequestsKnow, MailInv, AccountsNext
  PROVE  MailInv'
<1>1. \A r \in Clients : request[r] \in Request
  BY DEF AccountsTypeOK
<1>2. ASSUME UNCHANGED copies,
             \A r \in Clients : \/ request'[r] = request[r]
                                \/ request'[r].at # "creating"
      PROVE  MailInv'
  BY <1>2 DEF MailInv
<1>3. ASSUME NEW u \in Users,
             \/ \E c \in Companies : Register(u, c) \/ UpdateUser(u, c)
             \/ RemoveUser(u) \/ RemoveSubscription(u) \/ SectionAppended(u) \/ AppendFails(u)
             \/ \E q \in Quotas : \/ CreateSubscription(u, q)
                                  \/ \E v \in Users : UpdateSubscription(u, v, q)
      PROVE  MailInv'
  <2>1. UNCHANGED copies
    BY <1>3 DEF Register, UpdateUser, RemoveUser, RemoveSubscription, SectionAppended,
                CreateSubscription, UpdateSubscription, AppendFails
  <2>2. \A r \in Clients : request'[r] = request[r] \/ request'[r].at = "idle"
    BY <1>3 DEF Register, UpdateUser, RemoveUser, RemoveSubscription, SectionAppended,
                CreateSubscription, UpdateSubscription, AppendFails, Idle
  <2> QED
    BY <1>2, <2>1, <2>2
<1>4. ASSUME NEW r \in Clients, Done(r), UNCHANGED copies
      PROVE  MailInv'
  BY <1>2, <1>4 DEF Done, Idle, AccountsTypeOK
<1>5. ASSUME NEW r \in Clients, UNCHANGED copies,
             GoOn(r, "admitted") \/ GoOn(r, "configuring") \/ GoOn(r, "appending")
               \/ GoOn(r, "deleting")
      PROVE  MailInv'
  <2>1. request'[r].at # "creating" /\ \A x \in Clients \ {r} : request'[x] = request[x]
    BY <1>1, <1>5 DEF GoOn, AccountsTypeOK, Request
  <2> QED
    BY <1>2, <1>5, <2>1
<1>6. ASSUME NEW r \in Clients,
             \/ CheckSubscription(r) \/ InsertInformation(r) \/ InsertConfig(r) \/ AppendAgent(r)
             \/ DeleteConfig(r) \/ DeleteAgent(r) \/ QueryRejected(r)
      PROVE  MailInv'
  BY <1>4, <1>5, <1>6 DEF CheckSubscription, InsertInformation, InsertConfig, AppendAgent,
                          DeleteConfig, DeleteAgent, QueryRejected
<1>7. ASSUME NEW r \in Clients,
             \/ \E u \in Users : CountAgents(r, u)
             \/ \E a \in Agents : \/ FindAgent(r, a)
                                  \/ \E files \in SUBSET Mails : ReadMailbox(r, a, files)
      PROVE  MailInv'
  <2>1. UNCHANGED copies /\ \A x \in Clients \ {r} : request'[x] = request[x]
    BY <1>7 DEF CountAgents, FindAgent, ReadMailbox, AccountsTypeOK
  <2>2. request'[r].at # "creating"
    <3>1. CASE \E u \in Users : CountAgents(r, u)
      BY <3>1 DEF CountAgents, Idle, AccountsTypeOK
    <3>2. CASE \E a \in Agents : FindAgent(r, a)
      BY <3>2 DEF FindAgent, Idle, AccountsTypeOK
    <3>3. CASE \E a \in Agents, files \in SUBSET Mails : ReadMailbox(r, a, files)
      BY <3>3 DEF ReadMailbox, Idle, AccountsTypeOK
    <3> QED
      BY <1>7, <3>1, <3>2, <3>3
  <2> QED
    BY <1>2, <2>1, <2>2
<1>8. ASSUME NEW r \in Clients, NEW a \in Agents, NEW c \in Companies, InsertAgent(r, a, c)
      PROVE  MailInv'
  <2>1. request'[r].at # "creating" /\ \A x \in Clients \ {r} : request'[x] = request[x]
    BY <1>1, <1>8 DEF InsertAgent, AccountsTypeOK, Request
  <2> QED
    BY <1>2, <1>8, <2>1 DEF InsertAgent
<1>9. ASSUME NEW a \in Agents, UpdatePassword(a)
      PROVE  MailInv'
  BY <1>2, <1>9 DEF UpdatePassword
<1>10. ASSUME NEW r \in Clients, NextFile(r)
       PROVE  MailInv'
  <2>1. UNCHANGED copies
    BY <1>10 DEF NextFile
  <2>2. ASSUME NEW m \in request[r].files,
               request' = [request EXCEPT ![r].files = request[r].files \ {m},
                                          ![r].at = IF Seen(m) THEN "syncing" ELSE "creating",
                                          ![r].file = IF Seen(m) THEN None ELSE m]
        PROVE  MailInv'
    <3>1. \A x \in Clients \ {r} : request'[x] = request[x]
      BY <2>2 DEF AccountsTypeOK
    <3>2. CASE Seen(m)
      <4>1. request'[r].at = "syncing"
        BY <1>1, <2>2, <3>2 DEF AccountsTypeOK, Request
      <4> QED
        BY <1>2, <2>1, <3>1, <4>1
    <3>3. CASE ~Seen(m)
      <4>1. request'[r].file = m
        BY <1>1, <2>2, <3>3 DEF AccountsTypeOK, Request
      <4>2. m \in Mails
        BY <1>1 DEF Request
      <4>3. copies[m][r] = 0
        BY <3>3, <4>2 DEF Seen, Stored, AccountsTypeOK
      <4> QED
        BY <2>1, <3>1, <4>1, <4>3 DEF MailInv
    <3> QED
      BY <3>2, <3>3
  <2> QED
    BY <1>4, <1>10, <2>1, <2>2 DEF NextFile
<1>11. ASSUME NEW r \in Clients, CreateVoicemail(r)
       PROVE  MailInv'
  <2>1. PICK m \in Mails : m = request[r].file
    BY <1>11 DEF CreateVoicemail, RequestsKnow
  <2>2. request'[r].at = "syncing" /\ \A x \in Clients \ {r} : request'[x] = request[x]
    BY <1>1, <1>11 DEF CreateVoicemail, AccountsTypeOK, Request
  <2>3. copies[m][r] = 0
    BY <1>11, <2>1 DEF CreateVoicemail, MailInv
  <2>4. copies'[m][r] = 1
    BY <1>11, <2>1, <2>3 DEF CreateVoicemail, AccountsTypeOK
  <2>5. \A n \in Mails, x \in Clients : ~(n = m /\ x = r) => copies'[n][x] = copies[n][x]
    BY <1>11, <2>1 DEF CreateVoicemail, AccountsTypeOK
  <2>6. ASSUME NEW x \in Clients, NEW n \in Mails
        PROVE  /\ copies'[n][x] <= 1
               /\ request'[x].at = "creating" /\ request'[x].file = n => copies'[n][x] = 0
    <3>1. CASE n = m /\ x = r
      BY <2>2, <2>4, <3>1
    <3>2. CASE ~(n = m /\ x = r)
      BY <2>2, <2>5, <3>2 DEF MailInv
    <3> QED
      BY <3>1, <3>2
  <2> QED
    BY <2>6 DEF MailInv
<1> QED
  BY <1>3, <1>6, <1>7, <1>8, <1>9, <1>10, <1>11
     DEF AccountsNext, AccountRequest, UserRequest, SubscriptionRequest, AgentRequest,
         VoicemailRequest, AccountStep, AccountRestart

(* Settings *)

\* A save that found no row has not created one.
SettingsInv ==
  \A r \in Clients, c \in Companies :
    /\ settings[c][r] <= 1
    /\ saving[r].company = c /\ ~saving[r].found => settings[c][r] = 0

LEMMA SettingsInit == Settings!Init => Settings!TypeOK /\ SettingsInv
BY DEF Settings!Init, Settings!TypeOK, Settings!Idle, Settings!Row, SettingsInv

LEMMA ConnectedType ==
  ASSUME Settings!TypeOK, NEW e \in Endpoints, NEW dids, NEW drop \in BOOLEAN
  PROVE  Settings!Connected(e, dids, drop)
           \in [DIDs -> [row: Settings!Row, endpoint: Endpoints \cup {None}]]
<1>1. \A d \in DIDs : did[d] \in [row: Settings!Row, endpoint: Endpoints \cup {None}]
  BY DEF Settings!TypeOK
<1> QED
  BY <1>1 DEF Settings!Connected

LEMMA SettingsInductive ==
  ASSUME Settings!TypeOK, SettingsInv, Settings!Next
  PROVE  Settings!TypeOK' /\ SettingsInv'
<1>1. ASSUME NEW r \in Clients, NEW c \in Companies, Settings!FindSettings(r, c)
      PROVE  Settings!TypeOK' /\ SettingsInv'
  <2>1. Settings!TypeOK'
    BY <1>1 DEF Settings!FindSettings, Settings!TypeOK, Settings!HasSettings
  <2>2. ~Settings!HasSettings(c) => settings[c][r] = 0
    BY DEF Settings!TypeOK, Settings!HasSettings
  <2>3. SettingsInv'
    BY <1>1, <2>2 DEF Settings!FindSettings, Settings!TypeOK, SettingsInv
  <2> QED
    BY <2>1, <2>3
<1>2. ASSUME NEW r \in Clients, Settings!UpdateSettings(r) \/ Settings!SaveRejected(r)
      PROVE  Settings!TypeOK' /\ SettingsInv'
  <2>1. UNCHANGED <<settings, endpoint, did, extension>> /\ saving[r].company # None
    BY <1>2 DEF Settings!UpdateSettings, Settings!SaveRejected
  <2>2. saving' = [saving EXCEPT ![r] = Settings!Idle]
    BY <1>2 DEF Settings!UpdateSettings, Settings!SaveRejected
  <2>3. Settings!TypeOK'
    BY <2>1, <2>2 DEF Settings!Idle, Settings!TypeOK
  <2>4. SettingsInv'
    BY <2>1, <2>2, NoneAssumption DEF Settings!Idle, Settings!TypeOK, SettingsInv
  <2> QED
    BY <2>3, <2>4
<1>3. ASSUME NEW r \in Clients, Settings!CreateSettings(r)
      PROVE  Settings!TypeOK' /\ SettingsInv'
  <2>1. PICK c \in Companies : c = saving[r].company
    BY <1>3 DEF Settings!CreateSettings, Settings!TypeOK
  <2>2. settings[c][r] = 0
    BY <1>3, <2>1 DEF Settings!CreateSettings, SettingsInv
  <2>3. /\ settings' = [settings EXCEPT ![c][r] = @ + 1]
        /\ saving' = [saving EXCEPT ![r] = Settings!Idle]
    BY <1>3, <2>1 DEF Settings!CreateSettings
  <2>4. Settings!TypeOK'
    BY <1>3, <2>3 DEF Settings!CreateSettings, Settings!TypeOK, Settings!Idle
  <2>5. /\ settings'[c][r] = 1
        /\ \A d \in Companies, x \in Clients : ~(d = c /\ x = r) => settings'[d][x] = settings[d][x]
    BY <2>2, <2>3 DEF Settings!TypeOK
  <2>6. saving'[r].company = None /\ \A x \in Clients \ {r} : saving'[x] = saving[x]
    BY <2>3 DEF Settings!TypeOK, Settings!Idle
  <2>7. saving[r].company # None
    BY <1>3 DEF Settings!CreateSettings
  <2>8. ASSUME NEW x \in Clients, NEW d \in Companies
        PROVE  /\ settings'[d][x] <= 1
               /\ saving'[x].company = d /\ ~saving'[x].found => settings'[d][x] = 0
    <3>1. CASE d = c /\ x = r
      BY <2>1, <2>5, <2>6, <2>7, <3>1, NoneAssumption
    <3>2. CASE d # c /\ x = r
      BY <2>5, <2>6, <3>2, NoneAssumption DEF SettingsInv
    <3>3. CASE x # r
      BY <2>5, <2>6, <3>3 DEF SettingsInv
    <3> QED
      BY <3>1, <3>2, <3>3
  <2> QED
    BY <2>4, <2>8 DEF SettingsInv
<1>4. ASSUME NEW e \in Endpoints,
             \/ \E dids \in SUBSET DIDs : \/ Settings!CreateEndpoint(e, dids)
                                          \/ Settings!UpdateEndpoint(e, dids)
             \/ Settings!RemoveEndpoint(e)
      PROVE  Settings!TypeOK' /\ SettingsInv'
  <2>1. endpoint' \in [Endpoints -> Settings!Row]
    BY <1>4 DEF Settings!CreateEndpoint, Settings!UpdateEndpoint, Settings!RemoveEndpoint,
                Settings!TypeOK, Settings!Row
  <2>2. did' \in [DIDs -> [row: Settings!Row, endpoint: Endpoints \cup {None}]]
    <3>1. PICK dids \in SUBSET DIDs, drop \in BOOLEAN : did' = Settings!Connected(e, dids, drop)
      BY <1>4 DEF Settings!CreateEndpoint, Settings!UpdateEndpoint, Settings!RemoveEndpoint
    <3> QED
      BY <3>1, ConnectedType
  <2>3. UNCHANGED <<settings, saving, extension>>
    BY <1>4 DEF Settings!CreateEndpoint, Settings!UpdateEndpoint, Settings!RemoveEndpoint
  <2> QED
    BY <2>1, <2>2, <2>3 DEF Settings!TypeOK, SettingsInv
<1>5. ASSUME NEW d \in DIDs, Settings!CreateDIDNumber(d) \/ Settings!DeleteDIDNumber(d)
      PROVE  Settings!TypeOK' /\ SettingsInv'
  <2>1. did' \in [DIDs -> [row: Settings!Row, endpoint: Endpoints \cup {None}]]
    BY <1>5 DEF Settings!CreateDIDNumber, Settings!DeleteDIDNumber, Settings!TypeOK, Settings!Row
  <2>2. UNCHANGED <<settings, saving, endpoint, extension>>
    BY <1>5 DEF Settings!CreateDIDNumber, Settings!DeleteDIDNumber
  <2> QED
    BY <2>1, <2>2 DEF Settings!TypeOK, SettingsInv
<1>6. ASSUME NEW x \in Extensions, Settings!CreateExtension(x)
      PROVE  Settings!TypeOK' /\ SettingsInv'
  BY <1>6 DEF Settings!CreateExtension, Settings!TypeOK, SettingsInv
<1>7. CASE Settings!Restart
  BY <1>7, NoneAssumption DEF Settings!Restart, Settings!TypeOK, Settings!Idle, SettingsInv
<1> QED
  BY <1>1, <1>2, <1>3, <1>4, <1>5, <1>6, <1>7 DEF Settings!Next, Settings!Request, Settings!Step

(* Recordings *)

\* An upload whose sound exists, or that a row already speaks for.
Made(f) == upload[f] \in {"writing", "saving"} \/ f \in ivrFiles

\* The file of such an upload is there, or a delete has unlinked it; it is the
\* upload's own as long as neither its delete nor a namesake came near it.
SoundOK(f) ==
  /\ sound[OutputOf[f]] = {} => \E g \in unlinked : OutputOf[g] = OutputOf[f]
  /\ f \notin unlinked /\ (\A g \in Recordings!Namesakes(f) : upload[g] \in {"unused", "converting"})
       => sound[OutputOf[f]] = {f}

\* Rows and deletes come after their conversion.
RecordingsInv ==
  /\ \A f \in Uploads : Made(f) => SoundOK(f)
  /\ \A w \in Sounds, g \in Uploads : g \in sound[w] => OutputOf[g] = w
  /\ ivrFiles \subseteq {f \in Uploads : upload[f] = "over"}
  /\ \A r \in Clients : removing[r].at # "idle" =>
        removing[r].file \in Uploads /\ upload[removing[r].file] = "over"

LEMMA RecordingsInit == Recordings!Init => Recordings!TypeOK /\ RecordingsInv
BY DEF Recordings!Init, Recordings!TypeOK, Recordings!Idle, RecordingsInv, Made

LEMMA RecordingsHaveSound == RecordingsInv => Recordings!RowHasSound
BY DEF RecordingsInv, Made, SoundOK, Recordings!RowHasSound

\* Uploads that were made stay so, and no namesake's file is taken back.
LEMMA SoundStays ==
  ASSUME NEW f \in Uploads, SoundOK(f), sound' = sound, unlinked' = unlinked,
         \A g \in Uploads : upload'[g] \in {"unused", "converting"} => upload[g] \in {"unused", "converting"}
  PROVE  SoundOK(f)'
BY DEF SoundOK, Recordings!Namesakes

LEMMA RecordingsInductive ==
  ASSUME Recordings!TypeOK, RecordingsInv, Recordings!Next
  PROVE  Recordings!TypeOK' /\ RecordingsInv'
<1>1. ASSUME NEW f \in Uploads, Recordings!UploadFile(f)
      PROVE  Recordings!TypeOK' /\ RecordingsInv'
  <2>1. Recordings!TypeOK'
    BY <1>1 DEF Recordings!UploadFile, Recordings!TypeOK
  <2>2. /\ upload[f] = "unused" /\ upload'[f] = "converting"
        /\ \A g \in Uploads \ {f} : upload'[g] = upload[g]
        /\ UNCHANGED <<sound, ivrFiles, removing, unlinked>>
    BY <1>1 DEF Recordings!UploadFile, Recordings!TypeOK
  <2>3. ASSUME NEW g \in Uploads, Made(g)' PROVE SoundOK(g)'
    BY <2>2, <2>3, SoundStays DEF RecordingsInv, Made
  <2> QED
    BY <2>1, <2>2, <2>3 DEF RecordingsInv
<1>2. ASSUME NEW f \in Uploads, Recordings!OpenOutput(f)
      PROVE  Recordings!TypeOK' /\ RecordingsInv'
  <2>1. PICK w \in Sounds : w = OutputOf[f]
    BY OutputsAssumption
  <2>2. PICK writing \in SUBSET Uploads :
          /\ writing = {g \in sound[w] : upload[g] = "writing"}
          /\ sound' = [sound EXCEPT ![w] = writing \cup {f}]
    BY <1>2, <2>1 DEF Recordings!OpenOutput, Recordings!TypeOK
  <2>3. /\ upload[f] = "converting"
        /\ upload' = [upload EXCEPT ![f] = "writing"]
        /\ UNCHANGED <<raw, ivrFiles, removing, unlinked>>
    BY <1>2 DEF Recordings!OpenOutput
  <2>4. Recordings!TypeOK'
    BY <2>2, <2>3 DEF Recordings!TypeOK
  <2>5. /\ upload'[f] = "writing" /\ \A g \in Uploads \ {f} : upload'[g] = upload[g]
        /\ sound'[w] = writing \cup {f} /\ \A v \in Sounds \ {w} : sound'[v] = sound[v]
    BY <2>2, <2>3 DEF Recordings!TypeOK
  <2>6. ASSUME NEW g \in Uploads, Made(g)' PROVE SoundOK(g)'
    <3>1. CASE OutputOf[g] = w
      <4>1. sound'[OutputOf[g]] # {}
        BY <2>5, <3>1
      <4>2. CASE g = f
        <5>1. ASSUME \A h \in Recordings!Namesakes(f) : upload'[h] \in {"unused", "converting"}
              PROVE  sound'[w] = {f}
          <6>1. writing = {}
            <7> SUFFICES ASSUME NEW h \in writing PROVE FALSE
              OBVIOUS
            <7>1. h \in Uploads /\ h \in sound[w] /\ upload[h] = "writing" /\ h # f
              BY <2>2, <2>3
            <7>2. OutputOf[h] # w
              BY <2>1, <2>5, <5>1, <7>1 DEF Recordings!Namesakes
            <7> QED
              BY <7>1, <7>2 DEF RecordingsInv
          <6> QED
            BY <2>5, <6>1
        <5> QED
          BY <2>1, <4>1, <4>2, <5>1 DEF SoundOK, Recordings!Namesakes
      <4>3. CASE g # f
        <5>1. f \in Recordings!Namesakes(g) /\ upload'[f] \notin {"unused", "converting"}
          BY <2>1, <2>5, <3>1, <4>3 DEF Recordings!Namesakes
        <5> QED
          BY <4>1, <5>1 DEF SoundOK, Recordings!Namesakes
      <4> QED
        BY <4>2, <4>3
    <3>2. CASE OutputOf[g] # w
      <4>1. OutputOf[g] \in Sounds /\ sound'[OutputOf[g]] = sound[OutputOf[g]] /\ Made(g)
        BY <2>1, <2>3, <2>5, <2>6, <3>2, OutputsAssumption DEF Made
      <4>2. SoundOK(g)
        BY <4>1 DEF RecordingsInv
      <4>3. \A h \in Uploads : upload'[h] \in {"unused", "converting"} =>
                                  upload[h] \in {"unused", "converting"}
        BY <2>3, <2>5
      <4> QED
        BY <2>3, <4>1, <4>2, <4>3 DEF SoundOK, Recordings!Namesakes
    <3> QED
      BY <3>1, <3>2
  <2>7. \A v \in Sounds, g \in Uploads : g \in sound'[v] => OutputOf[g] = v
    <3>1. \A g \in writing : OutputOf[g] = w
      BY <2>2 DEF RecordingsInv
    <3> QED
      BY <2>1, <2>5, <3>1 DEF RecordingsInv
  <2> QED
    BY <2>3, <2>4, <2>5, <2>6, <2>7 DEF RecordingsInv
<1>3. ASSUME NEW f \in Uploads,
             \/ Recordings!ConvertFails(f) \/ Recordings!Converted(f)
             \/ Recordings!SaveRow(f) \/ Recordings!SaveRefused(f)
      PROVE  Recordings!TypeOK' /\ RecordingsInv'
  <2>1. PICK at \in {"saving", "over"} : upload' = [upload EXCEPT ![f] = at]
    BY <1>3 DEF Recordings!ConvertFails, Recordings!Converted, Recordings!SaveRow,
                Recordings!SaveRefused
  <2>2. /\ at = "saving" => upload[f] = "writing"
        /\ upload[f] \in {"converting", "writing", "saving"}
        /\ ivrFiles' = ivrFiles \/ (ivrFiles' = ivrFiles \cup {f} /\ upload[f] = "saving" /\ at = "over")
        /\ raw' = raw \/ raw' = raw \ {f}
        /\ UNCHANGED <<sound, removing, unlinked>>
    BY <1>3, <2>1 DEF Recordings!ConvertFails, Recordings!Converted, Recordings!SaveRow,
                Recordings!SaveRefused, Recordings!TypeOK
  <2>3. Recordings!TypeOK'
    BY <2>1, <2>2 DEF Recordings!TypeOK
  <2>4. upload'[f] = at /\ \A g \in Uploads \ {f} : upload'[g] = upload[g]
    BY <2>1 DEF Recordings!TypeOK
  <2>5. ASSUME NEW g \in Uploads, Made(g)' PROVE SoundOK(g)'
    <3>1. Made(g)
      BY <2>2, <2>4, <2>5 DEF Made
    <3>2. SoundOK(g)
      BY <3>1 DEF RecordingsInv
    <3> QED
      BY <2>2, <2>4, <3>2, SoundStays
  <2>6. ivrFiles' \subseteq {g \in Uploads : upload'[g] = "over"}
    BY <2>2, <2>4 DEF RecordingsInv
  <2> QED
    BY <2>2, <2>3, <2>4, <2>5, <2>6 DEF RecordingsInv
<1>4. ASSUME NEW r \in Clients, NEW f \in Uploads, Recordings!FindFile(r, f)
      PROVE  Recordings!TypeOK' /\ RecordingsInv'
  <2>1. Recordings!TypeOK'
    BY <1>4 DEF Recordings!FindFile, Recordings!TypeOK
  <2>2. /\ f \in ivrFiles /\ removing'[r] = [at |-> "found", file |-> f]
        /\ \A q \in Clients \ {r} : removing'[q] = removing[q]
        /\ UNCHANGED <<upload, sound, ivrFiles, unlinked>>
    BY <1>4 DEF Recordings!FindFile, Recordings!TypeOK
  <2> QED
    BY <2>1, <2>2, SoundStays DEF RecordingsInv, Made
<1>5. ASSUME NEW r \in Clients, Recordings!UnlinkSound(r)
      PROVE  Recordings!TypeOK' /\ RecordingsInv'
  <2>1. PICK f \in Uploads : f = removing[r].file
    BY <1>5 DEF Recordings!UnlinkSound, RecordingsInv
  <2>2. /\ upload[f] = "over" /\ removing[r].at = "found"
        /\ sound' = [sound EXCEPT ![OutputOf[f]] = {}]
        /\ unlinked' = unlinked \cup {f}
        /\ removing' = [removing EXCEPT ![r].at = "deleting"]
        /\ UNCHANGED <<upload, raw, ivrFiles>>
    BY <1>5, <2>1 DEF Recordings!UnlinkSound, RecordingsInv
  <2>3. OutputOf[f] \in Sounds
    BY OutputsAssumption
  <2>4. /\ removing'[r].file = f /\ \A q \in Clients \ {r} : removing'[q] = removing[q]
        /\ removing' \in [Clients -> [at: {"idle", "found", "deleting"}, file: Uploads \cup {None}]]
    BY <2>1, <2>2 DEF Recordings!TypeOK
  <2>5. Recordings!TypeOK'
    BY <2>2, <2>3, <2>4 DEF Recordings!TypeOK
  <2>6. sound'[OutputOf[f]] = {} /\ \A v \in Sounds \ {OutputOf[f]} : sound'[v] = sound[v]
    BY <2>2, <2>3 DEF Recordings!TypeOK
  <2>7. ASSUME NEW g \in Uploads, Made(g)' PROVE SoundOK(g)'
    <3>1. SoundOK(g)
      BY <2>2, <2>7 DEF RecordingsInv, Made
    <3>2. CASE OutputOf[g] = OutputOf[f]
      <4>1. f \in unlinked'
        BY <2>2
      <4>2. g = f \/ (f \in Recordings!Namesakes(g) /\ upload'[f] = "over")
        BY <2>2, <3>2 DEF Recordings!Namesakes
      <4> QED
        BY <3>2, <4>1, <4>2 DEF SoundOK, Recordings!Namesakes
    <3>3. CASE OutputOf[g] # OutputOf[f]
      <4>1. sound'[OutputOf[g]] = sound[OutputOf[g]]
        BY <2>6, <3>3, OutputsAssumption
      <4> QED
        BY <2>2, <3>1, <4>1 DEF SoundOK, Recordings!Namesakes
    <3> QED
      BY <3>2, <3>3
  <2>8. \A q \in Clients : removing'[q].at # "idle" =>
          removing'[q].file \in Uploads /\ upload'[removing'[q].file] = "over"
    BY <2>2, <2>4 DEF RecordingsInv
  <2> QED
    BY <2>2, <2>5, <2>7, <2>8 DEF RecordingsInv
<1>6. ASSUME NEW r \in Clients, Recordings!DeleteRow(r) \/ Recordings!DeleteRefused(r)
      PROVE  Recordings!TypeOK' /\ RecordingsInv'
  <2>1. /\ removing' = [removing EXCEPT ![r] = Recordings!Idle]
        /\ ivrFiles' \subseteq ivrFiles
        /\ UNCHANGED <<upload, raw, sound, unlinked>>
    BY <1>6 DEF Recordings!DeleteRow, Recordings!DeleteRefused
  <2>2. Recordings!TypeOK'
    BY <2>1 DEF Recordings!TypeOK, Recordings!Idle
  <2>3. removing'[r].at = "idle" /\ \A q \in Clients \ {r} : removing'[q] = removing[q]
    BY <2>1 DEF Recordings!TypeOK, Recordings!Idle
  <2>4. ASSUME NEW g \in Uploads, Made(g)' PROVE SoundOK(g)'
    <3>1. SoundOK(g)
      BY <2>1, <2>4 DEF RecordingsInv, Made
    <3> QED
      BY <2>1, <3>1, SoundStays
  <2> QED
    BY <2>1, <2>2, <2>3, <2>4 DEF RecordingsInv
<1>7. CASE Recordings!Restart
  <2>1. Recordings!TypeOK'
    BY <1>7 DEF Recordings!Restart, Recordings!TypeOK, Recordings!Idle
  <2>2. /\ \A g \in Uploads : upload'[g] = IF upload[g] = "unused" THEN "unused" ELSE "over"
        /\ \A q \in Clients : removing'[q].at = "idle"
        /\ UNCHANGED <<sound, ivrFiles, unlinked>>
    BY <1>7 DEF Recordings!Restart, Recordings!Idle
  <2>3. ASSUME NEW g \in Uploads, Made(g)' PROVE SoundOK(g)'
    <3>1. g \in ivrFiles /\ SoundOK(g)
      BY <2>2, <2>3 DEF RecordingsInv, Made
    <3> QED
      BY <2>2, <3>1, SoundStays
  <2>4. ivrFiles' \subseteq {g \in Uploads : upload'[g] = "over"}
    BY <2>2 DEF RecordingsInv
  <2> QED
    BY <2>1, <2>2, <2>3, <2>4 DEF RecordingsInv
<1> QED
  BY <1>1, <1>2, <1>3, <1>4, <1>5, <1>6, <1>7
     DEF Recordings!Next, Recordings!Request, Recordings!Step

(* SIP providers *)

\* An update knows its provider, a configuration has its provider, and an update
\* that is about to write the file has the configuration.
TrunksInv ==
  /\ Trunks!SectionHasProvider
  /\ providerConfig \subseteq Trunks!LiveProviders
  /\ \A r \in Clients : updating[r].at # "idle" => updating[r].provider \in Providers
  /\ \A r \in Clients : updating[r].at = "configured" => updating[r].provider \in providerConfig

LEMMA TrunksInit == Trunks!Init => Trunks!TypeOK /\ TrunksInv
BY DEF Trunks!Init, Trunks!Idle, Trunks!TypeOK, Trunks!LiveProviders,
       Trunks!SectionHasProvider, TrunksInv

LEMMA TrunksInductive ==
  ASSUME Trunks!TypeOK, TrunksInv, Trunks!Next
  PROVE  Trunks!TypeOK' /\ TrunksInv'
<1> USE DEF Trunks!TypeOK, TrunksInv, Trunks!SectionHasProvider, Trunks!LiveProviders
<1>1. ASSUME NEW p \in Providers, Trunks!AddProvider(p)
      PROVE  Trunks!TypeOK' /\ TrunksInv'
  <2>1. Trunks!LiveProviders' = Trunks!LiveProviders \cup {p}
    BY <1>1 DEF Trunks!AddProvider
  <2> QED
    BY <1>1, <2>1 DEF Trunks!AddProvider
<1>2. ASSUME NEW p \in Providers, NEW r \in Clients, Trunks!UpdateProvider(r, p)
      PROVE  Trunks!TypeOK' /\ TrunksInv'
  BY <1>2 DEF Trunks!UpdateProvider
<1>3. ASSUME NEW r \in Clients, Trunks!UpsertConfig(r)
      PROVE  Trunks!TypeOK' /\ TrunksInv'
  <2>1. updating[r] \in [at: {"idle", "updated", "configured"}, provider: Providers \cup {None}]
    OBVIOUS
  <2>2. updating'[r].at = "configured" /\ updating'[r].provider = updating[r].provider
    BY <1>3, <2>1 DEF Trunks!UpsertConfig
  <2>3. updating' \in [Clients -> [at: {"idle", "updated", "configured"},
                                  provider: Providers \cup {None}]]
    BY <1>3, <2>1 DEF Trunks!UpsertConfig
  <2>4. \A x \in Clients \ {r} : updating'[x] = updating[x]
    BY <1>3 DEF Trunks!UpsertConfig
  <2>5. Trunks!LiveProviders' = Trunks!LiveProviders /\ updating[r].provider \in Trunks!LiveProviders
    BY <1>3 DEF Trunks!UpsertConfig
  <2>6. /\ providerConfig' = providerConfig \cup {updating[r].provider}
        /\ UNCHANGED <<provider, providerFile, tenant, address>>
    BY <1>3 DEF Trunks!UpsertConfig
  <2> QED
    BY <2>2, <2>3, <2>4, <2>5, <2>6
<1>4. ASSUME NEW r \in Clients, Trunks!ReplaceProvider(r)
      PROVE  Trunks!TypeOK' /\ TrunksInv'
  BY <1>4 DEF Trunks!ReplaceProvider, Trunks!Idle
<1>5. ASSUME NEW r \in Clients, Trunks!UpdateFails(r)
      PROVE  Trunks!TypeOK' /\ TrunksInv'
  BY <1>5 DEF Trunks!UpdateFails, Trunks!Idle
<1>6. ASSUME NEW p \in Providers, Trunks!RemoveProvider(p)
      PROVE  Trunks!TypeOK' /\ TrunksInv'
  <2>1. Trunks!LiveProviders' = Trunks!LiveProviders \ {p}
    BY <1>6 DEF Trunks!RemoveProvider
  <2> QED
    BY <1>6, <2>1 DEF Trunks!RemoveProvider, Trunks!Referenced
<1>7. ASSUME NEW t \in Tenants, NEW p \in Providers, Trunks!CreateCompany(t, p)
      PROVE  Trunks!TypeOK' /\ TrunksInv'
  BY <1>7 DEF Trunks!CreateCompany
<1>8. ASSUME NEW t \in Tenants, Trunks!RemoveCompany(t)
      PROVE  Trunks!TypeOK' /\ TrunksInv'
  BY <1>8 DEF Trunks!RemoveCompany
<1>9. ASSUME NEW i \in Addresses, NEW p \in Providers,
             Trunks!CreateAddress(i, p) \/ Trunks!UpdateAddress(i, p)
      PROVE  Trunks!TypeOK' /\ TrunksInv'
  BY <1>9 DEF Trunks!CreateAddress, Trunks!UpdateAddress
<1>10. ASSUME NEW i \in Addresses, Trunks!RemoveAddress(i)
       PROVE  Trunks!TypeOK' /\ TrunksInv'
  BY <1>10 DEF Trunks!RemoveAddress
<1>11. ASSUME Trunks!Restart PROVE Trunks!TypeOK' /\ TrunksInv'
  BY <1>11 DEF Trunks!Restart, Trunks!Idle
<1> QED
  BY <1>1, <1>2, <1>3, <1>4, <1>5, <1>6, <1>7, <1>8, <1>9, <1>10, <1>11
     DEF Trunks!Next, Trunks!Request, Trunks!ProviderRequest, Trunks!CompanyRequest,
         Trunks!AddressRequest, Trunks!Step

(* The board *)

LEMMA BoardInit ==
  Board!Init => Board!TypeOK /\ Board!BoardFollowsSockets /\ Board!ConsoleShowsBoard
BY NoneAssumption DEF Board!Init, Board!TypeOK, Board!Shown, Board!BoardFollowsSockets,
                      Board!ConsoleShowsBoard

LEMMA ShownTypes ==
  ASSUME Board!TypeOK
  PROVE  /\ \A a \in Agents, status \in Statuses \cup {Offline} :
              Board!Update(a, status) \in [Consoles -> [Agents -> Board!Shown]]
         /\ \A m \in Consoles : Board!List(m) \in [Agents -> Board!Shown]
BY DEF Board!TypeOK, Board!Update, Board!List, Board!Shown

LEMMA BoardInductive ==
  ASSUME Board!TypeOK, Board!BoardFollowsSockets, Board!ConsoleShowsBoard, Board!Next
  PROVE  Board!TypeOK' /\ Board!BoardFollowsSockets' /\ Board!ConsoleShowsBoard'
<1>1. ASSUME NEW m \in Consoles, Board!HandleManagerConnect(m)
      PROVE  Board!TypeOK' /\ Board!BoardFollowsSockets' /\ Board!ConsoleShowsBoard'
  <2>1. Board!TypeOK'
    BY <1>1, ShownTypes DEF Board!HandleManagerConnect, Board!TypeOK
  <2>2. Board!BoardFollowsSockets'
    BY <1>1 DEF Board!HandleManagerConnect, Board!BoardFollowsSockets
  <2>3. Board!ConsoleShowsBoard'
    BY <1>1 DEF Board!HandleManagerConnect, Board!TypeOK, Board!List, Board!ConsoleShowsBoard
  <2> QED
    BY <2>1, <2>2, <2>3
<1>2. ASSUME NEW s \in Sockets, NEW a \in Agents, NEW status \in Statuses,
             Board!HandleAgentStatus(s, a, status)
      PROVE  Board!TypeOK' /\ Board!BoardFollowsSockets' /\ Board!ConsoleShowsBoard'
  <2>1. Board!TypeOK'
    BY <1>2, ShownTypes DEF Board!HandleAgentStatus, Board!TypeOK
  <2>2. Board!BoardFollowsSockets'
    <3>1. /\ socketToAgent'[s] = a
          /\ \A t \in Sockets \ {s} : socketToAgent'[t] = socketToAgent[t]
      BY <1>2 DEF Board!HandleAgentStatus, Board!TypeOK
    <3>2. agents'[a] # None /\ \A b \in Agents \ {a} : agents'[b] = agents[b]
      BY <1>2, NoneAssumption DEF Board!HandleAgentStatus, Board!TypeOK
    <3>3. /\ dropped' = dropped \ {a}
          /\ \A b \in Agents \ {a} : b \in left' <=> b \in left \/ b = socketToAgent[s]
      BY <1>2, NoneAssumption DEF Board!HandleAgentStatus
    <3> QED
      BY <3>1, <3>2, <3>3 DEF Board!BoardFollowsSockets
  <2>3. Board!ConsoleShowsBoard'
    BY <1>2, NoneAssumption
       DEF Board!HandleAgentStatus, Board!TypeOK, Board!Update, Board!Audience,
           Board!ConsoleShowsBoard
  <2> QED
    BY <2>1, <2>2, <2>3
<1>3. ASSUME NEW s \in Sockets, Board!HandleDisconnect(s)
      PROVE  Board!TypeOK' /\ Board!BoardFollowsSockets' /\ Board!ConsoleShowsBoard'
  <2>1. /\ socketToAgent'[s] = None
        /\ \A t \in Sockets \ {s} : socketToAgent'[t] = socketToAgent[t]
        /\ socketToAgent' \in [Sockets -> Agents \cup {None}]
        /\ closed' \subseteq Sockets /\ UNCHANGED joined
    BY <1>3 DEF Board!HandleDisconnect, Board!TypeOK
  <2>2. CASE socketToAgent[s] = None
    <3>1. UNCHANGED <<agents, shown, left, dropped>>
      BY <1>3, <2>2 DEF Board!HandleDisconnect
    <3>2. Board!TypeOK'
      BY <2>1, <3>1 DEF Board!TypeOK
    <3>3. \A b \in Agents, t \in Sockets : socketToAgent'[t] = b <=> socketToAgent[t] = b
      BY <2>1, <2>2, NoneAssumption
    <3>4. Board!BoardFollowsSockets'
      BY <3>1, <3>3 DEF Board!BoardFollowsSockets
    <3>5. Board!ConsoleShowsBoard'
      BY <2>1, <3>1 DEF Board!ConsoleShowsBoard
    <3> QED
      BY <3>2, <3>4, <3>5
  <2>3. CASE socketToAgent[s] # None
    <3>1. PICK a \in Agents : a = socketToAgent[s]
      BY <2>3 DEF Board!TypeOK
    <3>2. /\ agents' = [agents EXCEPT ![a] = None]
          /\ shown' = IF agents[a] # None THEN Board!Update(a, Offline) ELSE shown
          /\ left' = left \ {a}
          /\ dropped' = dropped \cup {a}
      BY <1>3, <2>3, <3>1 DEF Board!HandleDisconnect, Board!Without
    <3>3. Board!TypeOK'
      BY <2>1, <3>2, ShownTypes DEF Board!TypeOK
    <3>4. agents'[a] = None /\ \A b \in Agents \ {a} : agents'[b] = agents[b]
      BY <3>2 DEF Board!TypeOK
    <3>5. \A b \in Agents \ {a}, t \in Sockets : socketToAgent'[t] = b <=> socketToAgent[t] = b
      BY <2>1, <3>1, NoneAssumption
    <3>6. Board!BoardFollowsSockets'
      BY <3>2, <3>4, <3>5 DEF Board!BoardFollowsSockets
    <3>7. Board!ConsoleShowsBoard'
      BY <2>1, <3>2, <3>4
         DEF Board!TypeOK, Board!Update, Board!Audience, Board!ConsoleShowsBoard
    <3> QED
      BY <3>3, <3>6, <3>7
  <2> QED
    BY <2>2, <2>3
<1>4. ASSUME Board!Tick
      PROVE  Board!TypeOK' /\ Board!BoardFollowsSockets' /\ Board!ConsoleShowsBoard'
  <2>1. Board!TypeOK'
    BY <1>4, ShownTypes DEF Board!Tick, Board!TypeOK
  <2>2. Board!BoardFollowsSockets'
    BY <1>4 DEF Board!Tick, Board!BoardFollowsSockets
  <2>3. ASSUME NEW m \in joined, NEW a \in Agents
        PROVE  IF RoomOf[m] \notin {CompanyOf[a], All} THEN shown'[m][a] = None
               ELSE IF agents'[a] # None THEN shown'[m][a] = agents'[a]
               ELSE shown'[m][a] \in {Offline, None}
    BY <1>4 DEF Board!Tick, Board!TypeOK, Board!List, Board!ConsoleShowsBoard
  <2> QED
    BY <1>4, <2>1, <2>2, <2>3 DEF Board!Tick, Board!ConsoleShowsBoard
<1>5. CASE Board!Restart
  BY <1>5, NoneAssumption
     DEF Board!Restart, Board!TypeOK, Board!BoardFollowsSockets, Board!ConsoleShowsBoard
<1> QED
  BY <1>1, <1>2, <1>3, <1>4, <1>5 DEF Board!Next, Board!Request

(* The composition *)

\* The inductive invariant: the types, the properties, and what each of the
\* longer requests relies on.
IInv ==
  /\ TypeOK
  /\ RequestsKnow /\ RequestHasRows /\ SectionHasRows
  /\ AdmittedHadRoom /\ QuotaInv
  /\ MailInv /\ SettingsInv /\ RecordingsInv /\ TrunksInv
  /\ BoardFollowsSockets /\ ConsoleShowsBoard

LEMMA BackOfficeInit == Init => IInv
<1> SUFFICES ASSUME Init PROVE IInv
  OBVIOUS
<1>1. /\ AccountsTypeOK
      /\ Settings!TypeOK /\ SettingsInv
      /\ Recordings!TypeOK /\ RecordingsInv
      /\ Trunks!TypeOK /\ TrunksInv
  BY AccountsTypeInit, SettingsInit, RecordingsInit, TrunksInit DEF Init
<1>2. Board!TypeOK /\ BoardFollowsSockets /\ ConsoleShowsBoard
  BY BoardInit DEF Init, BoardFollowsSockets, ConsoleShowsBoard
<1>3. requests \in 0..MaxRequests
  BY MaxRequestsAssumption DEF Init
<1>4. RequestsKnow /\ RequestHasRows /\ SectionHasRows /\ AdmittedHadRoom /\ MailInv
  BY DEF Init, AccountsInit, Idle, RequestsKnow, RequestHasRows, SectionHasRows,
         AdmittedHadRoom, MailInv
<1>5. QuotaInv
  <2>1. \A c \in Companies : OwnAgents(c) = {} /\ UnderWay(c) = {}
    BY DEF Init, AccountsInit, Idle, OwnAgents, SentTo, AgentsOf, LiveAgents, UnderWay
  <2>2. Cardinality({}) = 0
    BY FS_EmptySet
  <2>3. Cardinality(Clients) \in Nat \ {0}
    BY ClientsAssumption, FS_CardinalityType, FS_EmptySet
  <2>4. ASSUME NEW c \in Companies
        PROVE  Cardinality(OwnAgents(c)) + Cardinality(UnderWay(c)) < MaxQuota + Cardinality(Clients)
    <3>1. Cardinality(OwnAgents(c)) = 0 /\ Cardinality(UnderWay(c)) = 0
      BY <2>1, <2>2
    <3> QED
      BY <2>3, <3>1, QuotaAssumption
  <2> QED
    BY <2>4 DEF QuotaInv
<1> QED
  BY <1>1, <1>2, <1>3, <1>4, <1>5 DEF IInv, TypeOK

\* What is about the accounts and about nothing else.
LEMMA AccountsUnchanged ==
  ASSUME IInv, UNCHANGED accountVars
  PROVE  /\ AccountsTypeOK' /\ RequestsKnow' /\ RequestHasRows' /\ SectionHasRows'
         /\ AdmittedHadRoom' /\ QuotaInv' /\ MailInv'
<1>1. AccountsTypeOK'
  BY DEF IInv, TypeOK, accountVars, AccountsTypeOK
<1>2. RequestsKnow' /\ AdmittedHadRoom' /\ MailInv'
  BY DEF IInv, accountVars, RequestsKnow, AdmittedHadRoom, MailInv
<1>3. RequestHasRows' /\ SectionHasRows'
  BY DEF IInv, accountVars, RequestHasRows, SectionHasRows, LiveAgents
<1>4. \A c \in Companies : OwnAgents(c)' = OwnAgents(c) /\ UnderWay(c)' = UnderWay(c)
  BY DEF accountVars, OwnAgents, SentTo, AgentsOf, LiveAgents, UnderWay
<1>5. ASSUME NEW c \in Companies
      PROVE  Cardinality(OwnAgents(c)') + Cardinality(UnderWay(c)') < MaxQuota + Cardinality(Clients)
  BY <1>4, QuotaStays DEF IInv
<1> QED
  BY <1>1, <1>2, <1>3, <1>5 DEF QuotaInv

LEMMA SettingsUnchanged ==
  ASSUME IInv, UNCHANGED settingsVars
  PROVE  Settings!TypeOK' /\ SettingsInv'
BY DEF IInv, TypeOK, settingsVars, Settings!TypeOK, SettingsInv

LEMMA RecordingsUnchanged ==
  ASSUME IInv, UNCHANGED soundVars
  PROVE  Recordings!TypeOK' /\ RecordingsInv'
BY DEF IInv, TypeOK, soundVars, Recordings!TypeOK, RecordingsInv, Made, SoundOK,
       Recordings!Namesakes

LEMMA TrunksUnchanged ==
  ASSUME IInv, UNCHANGED trunkVars
  PROVE  Trunks!TypeOK' /\ TrunksInv'
BY DEF IInv, TypeOK, trunkVars, Trunks!TypeOK, TrunksInv, Trunks!SectionHasProvider,
       Trunks!LiveProviders

LEMMA BoardUnchanged ==
  ASSUME IInv, UNCHANGED boardVars
  PROVE  Board!TypeOK' /\ BoardFollowsSockets' /\ ConsoleShowsBoard'
BY DEF IInv, TypeOK, boardVars, Board!TypeOK, BoardFollowsSockets, Board!BoardFollowsSockets,
       ConsoleShowsBoard, Board!ConsoleShowsBoard

LEMMA BackOfficeInductive == IInv /\ [Next]_vars => IInv'
<1> SUFFICES ASSUME IInv, [Next]_vars PROVE IInv'
  OBVIOUS
<1>1. requests' \in 0..MaxRequests
  BY MaxRequestsAssumption
     DEF IInv, TypeOK, Next, AccountsMove, SettingsMove, RecordingsMove, TrunksMove, BoardMove,
         Restart, Counted, vars
<1>2. ASSUME AccountsNext
      PROVE  /\ AccountsTypeOK' /\ RequestsKnow' /\ RequestHasRows' /\ SectionHasRows'
             /\ AdmittedHadRoom' /\ QuotaInv' /\ MailInv'
  BY <1>2, AccountsTypeInductive, RequestsKnowInductive, RowsInductive, QuotaInductive,
     MailInductive DEF IInv, TypeOK
<1>3. ASSUME Settings!Next PROVE Settings!TypeOK' /\ SettingsInv'
  BY <1>3, SettingsInductive DEF IInv, TypeOK
<1>4. ASSUME Recordings!Next PROVE Recordings!TypeOK' /\ RecordingsInv'
  BY <1>4, RecordingsInductive DEF IInv, TypeOK
<1>5. ASSUME Board!Next
      PROVE  Board!TypeOK' /\ BoardFollowsSockets' /\ ConsoleShowsBoard'
  BY <1>5, BoardInductive DEF IInv, TypeOK, BoardFollowsSockets, ConsoleShowsBoard
<1>6. AccountsNext \/ UNCHANGED accountVars
  BY DEF Next, AccountsMove, SettingsMove, RecordingsMove, TrunksMove, BoardMove, Restart,
         AccountsNext, vars
<1>7. Settings!Next \/ UNCHANGED settingsVars
  BY DEF Next, AccountsMove, SettingsMove, RecordingsMove, TrunksMove, BoardMove, Restart,
         Settings!Next, vars
<1>8. Recordings!Next \/ UNCHANGED soundVars
  BY DEF Next, AccountsMove, SettingsMove, RecordingsMove, TrunksMove, BoardMove, Restart,
         Recordings!Next, vars
<1>9. Board!Next \/ UNCHANGED boardVars
  BY DEF Next, AccountsMove, SettingsMove, RecordingsMove, TrunksMove, BoardMove, Restart,
         Board!Next, vars
<1>10. /\ AccountsTypeOK' /\ RequestsKnow' /\ RequestHasRows' /\ SectionHasRows'
       /\ AdmittedHadRoom' /\ QuotaInv' /\ MailInv'
  BY <1>2, <1>6, AccountsUnchanged
<1>11. Settings!TypeOK' /\ SettingsInv'
  BY <1>3, <1>7, SettingsUnchanged
<1>12. Recordings!TypeOK' /\ RecordingsInv'
  BY <1>4, <1>8, RecordingsUnchanged
<1>13. Board!TypeOK' /\ BoardFollowsSockets' /\ ConsoleShowsBoard'
  BY <1>5, <1>9, BoardUnchanged
<1>14. Trunks!Next \/ UNCHANGED trunkVars
  BY DEF Next, AccountsMove, SettingsMove, RecordingsMove, TrunksMove, BoardMove, Restart,
         Trunks!Next, vars
<1>15. Trunks!TypeOK' /\ TrunksInv'
  <2>1. ASSUME Trunks!Next PROVE Trunks!TypeOK' /\ TrunksInv'
    BY <2>1, TrunksInductive DEF IInv, TypeOK
  <2> QED
    BY <1>14, <2>1, TrunksUnchanged
<1> QED
  BY <1>1, <1>10, <1>11, <1>12, <1>13, <1>15 DEF IInv, TypeOK

\* The variables of the accounts, settings, recordings, SIP providers and the
\* board keep their types.
THEOREM BackOfficeTypeCorrect == Spec => []TypeOK
<1>1. IInv => TypeOK
  BY DEF IInv
<1> QED
  BY BackOfficeInit, BackOfficeInductive, <1>1, PTL DEF Spec

\* AgentService.create: however many creates are between their count and their
\* insert, and however users, agents and subscriptions change meanwhile, a
\* company's agents exceed the highest quota by fewer than there are clients,
\* and by those whom requests sent there that had counted another company.
THEOREM QuotaOvershootHolds == Spec => []QuotaOvershoot
<1>1. IInv => QuotaOvershoot
  <2> SUFFICES ASSUME IInv, NEW c \in Companies
               PROVE  Cardinality(AgentsOf(c))
                        < MaxQuota + Cardinality(Clients) + Cardinality(SentTo(c))
    BY DEF QuotaOvershoot
  <2>1. Cardinality(OwnAgents(c)) + Cardinality(UnderWay(c)) < MaxQuota + Cardinality(Clients)
    BY DEF IInv, QuotaInv
  <2>2. /\ AgentsOf(c) = OwnAgents(c) \cup SentTo(c)
        /\ OwnAgents(c) \cap SentTo(c) = {}
        /\ SentTo(c) \in SUBSET AgentsOf(c)
    BY DEF OwnAgents, SentTo
  <2>3. IsFiniteSet(SentTo(c)) /\ Cardinality(SentTo(c)) \in Nat
    BY <2>2, AgentsOfFinite, FS_Subset, FS_CardinalityType
  <2>4. Cardinality(AgentsOf(c)) = Cardinality(OwnAgents(c)) + Cardinality(SentTo(c))
    <3>1. Cardinality(OwnAgents(c) \cup SentTo(c))
            = Cardinality(OwnAgents(c)) + Cardinality(SentTo(c))
              - Cardinality(OwnAgents(c) \cap SentTo(c))
      BY <2>3, QuotaFinite, FS_Union
    <3>2. Cardinality(OwnAgents(c) \cap SentTo(c)) = 0
      BY <2>2, FS_EmptySet
    <3> QED BY <2>2, <2>3, <3>1, <3>2, QuotaFinite
  <2> QED
    BY <2>1, <2>3, <2>4, QuotaFinite, QuotaAssumption
<1> QED
  BY BackOfficeInit, BackOfficeInductive, <1>1, PTL DEF Spec

\* AgentService.remove and create: an agent with a section in pjsip-agent.conf
\* has his row and his information, after any failure between two queries.
\* SipProviderService.update and remove: so has a provider in pjsip-provider.conf.
\* saveIVRFiles and deleteIVRFile: a row's sound is there and its own unless a
\* delete or a namesake took it, wherever a conversion or the process ended.
THEOREM FilesMatchRowsHolds == Spec => []FilesMatchRows
<1>1. IInv => FilesMatchRows
  BY RecordingsHaveSound DEF IInv, FilesMatchRows, TrunksInv
<1> QED
  BY BackOfficeInit, BackOfficeInductive, <1>1, PTL DEF Spec

\* syncNewMail and saveUserSettings: no client creates a second row for one
\* voicemail file, or for one company.
THEOREM NoDuplicateFromOneClientHolds == Spec => []NoDuplicateFromOneClient
<1>1. IInv => NoDuplicateFromOneClient
  BY DEF IInv, MailInv, SettingsInv, NoDuplicateFromOneClient, OneVoicemailPerClient,
         Settings!OneRowPerClient
<1> QED
  BY BackOfficeInit, BackOfficeInductive, <1>1, PTL DEF Spec

\* WsGatewayGateway: when the map and the sockets may disagree.
THEOREM BoardFollowsSocketsHolds == Spec => []BoardFollowsSockets
<1>1. IInv => BoardFollowsSockets
  BY DEF IInv
<1> QED
  BY BackOfficeInit, BackOfficeInductive, <1>1, PTL DEF Spec

\* WsGatewayGateway: consoles show the map, and only their own company's part.
THEOREM ConsoleShowsBoardHolds == Spec => []ConsoleShowsBoard
<1>1. IInv => ConsoleShowsBoard
  BY DEF IInv
<1> QED
  BY BackOfficeInit, BackOfficeInductive, <1>1, PTL DEF Spec
====
