---------------------------- MODULE AgentAccounts ----------------------------
(***************************************************************************)
(* Users, subscriptions, agents and voicemail: AuthService.register,       *)
(* UserService, SubscriptionsService, AgentService.create, remove,         *)
(* updatePassword, AuthService.login, VoicemailService.syncNewMail, the    *)
(* foreign keys between their tables, and the file pjsip-agent.conf.       *)
(*                                                                         *)
(* Creating or removing an agent and reading a mailbox take several        *)
(* queries with no transaction around them; requests interleave between    *)
(* two queries, and a query that fails ends its request and leaves the     *)
(* earlier ones done.  A query that only reads, and whose answer no later  *)
(* step uses, is not modelled.                                             *)
(***************************************************************************)
EXTENDS Naturals, FiniteSets

CONSTANTS
  Clients,    \* requests in flight at the same time
  Users, Companies,
  Agents,     \* agents by their sipUname, each created once
  Mails,      \* voicemail files, by url
  MailboxOf,  \* the agent in whose INBOX a file is
  MaxQuota,   \* the highest agentCount a subscription may have
  None        \* null

ASSUME ClientsAssumption == IsFiniteSet(Clients) /\ Clients # {}

\* An agent's sections have his sipUname, a user's "webrtc_" and his sipUser.
ASSUME AgentsAssumption == IsFiniteSet(Agents) /\ Agents \cap Users = {}

ASSUME QuotaAssumption == MaxQuota \in Nat

VARIABLES
  user,          \* [row, company]
  subscription,  \* the agentCount of each user's subscription, None without one
  agent,         \* [row, company, password]
  information,   \* the agents with an AgentInformation row
  config,        \* the agents with an AgentPJSIPConfig row
  agentFile,     \* whose sections pjsip-agent.conf has
  appending,     \* the users whose section is being appended
  copies,        \* history: the Voicemail rows each client created for a file
  request,       \* where each client's request is
  counted        \* history: the company whose agents were counted for an agent

Quotas == 0..MaxQuota

accountVars == <<user, subscription, agent, information, config, agentFile, appending,
                 copies, request, counted>>

Idle == [at |-> "idle", user |-> None, company |-> None, total |-> 0, agent |-> None,
         files |-> {}, file |-> None]

UserRow == [row: {"unused", "live", "deleted"}, company: Companies \cup {None}]

AgentRow == [row: {"unused", "live", "deleted"}, company: Companies \cup {None},
             password: {"none", "hash", "plain"}]

Request ==
  [at: {"idle", "counted", "admitted", "informing", "configuring", "appending",
        "removing", "deleting", "syncing", "creating"},
   user: Users \cup {None}, company: Companies \cup {None}, total: Nat,
   agent: Agents \cup {None}, files: SUBSET Mails, file: Mails \cup {None}]

AccountsTypeOK ==
  /\ user \in [Users -> UserRow]
  /\ subscription \in [Users -> Quotas \cup {None}]
  /\ agent \in [Agents -> AgentRow]
  /\ information \subseteq Agents
  /\ config \subseteq Agents
  /\ agentFile \subseteq Agents \cup Users
  /\ appending \subseteq Users
  /\ copies \in [Mails -> [Clients -> Nat]]
  /\ request \in [Clients -> Request]
  /\ counted \in [Agents -> Companies \cup {None}]

AccountsInit ==
  /\ user = [u \in Users |-> [row |-> "unused", company |-> None]]
  /\ subscription = [u \in Users |-> None]
  /\ agent = [a \in Agents |-> [row |-> "unused", company |-> None, password |-> "none"]]
  /\ information = {}
  /\ config = {}
  /\ agentFile = {}
  /\ appending = {}
  /\ copies = [m \in Mails |-> [r \in Clients |-> 0]]
  /\ request = [r \in Clients |-> Idle]
  /\ counted = [a \in Agents |-> None]

-----------------------------------------------------------------------------
(***************************************************************************)
(* Helpers.  An operator called Bad... is a plausible mistake in the one   *)
(* below it and no part of the specification.                              *)
(***************************************************************************)
LiveUsers == {u \in Users : user[u].row = "live"}

LiveAgents == {a \in Agents : agent[a].row = "live"}

AgentsOf(c) == {a \in LiveAgents : agent[a].company = c}

\* The Voicemail rows of file m exist.
Stored(m) == \E r \in Clients : copies[m][r] > 0

\* The rows whose foreign key refuses to let the row of agent a go.
BadReferenced(a) == a \in config

Referenced(a) ==
  \/ a \in information \/ a \in config
  \/ \E m \in Mails : MailboxOf[m] = a /\ Stored(m)

GoOn(r, at) == request' = [request EXCEPT ![r].at = at]

Done(r) == request' = [request EXCEPT ![r] = Idle]

-----------------------------------------------------------------------------
(***************************************************************************)
(* Users.  register does not wait for the section it appends, and answers. *)
(***************************************************************************)
Register(u, c) ==
  /\ user[u].row = "unused"
  /\ user' = [user EXCEPT ![u] = [row |-> "live", company |-> c]]
  /\ appending' = appending \cup {u}
  /\ UNCHANGED <<subscription, agent, information, config, agentFile, copies, request, counted>>

SectionAppended(u) ==
  /\ u \in appending
  /\ appending' = appending \ {u}
  /\ agentFile' = agentFile \cup {u}
  /\ UNCHANGED <<user, subscription, agent, information, config, copies, request, counted>>

\* The error is thrown in the callback: the process ends, and is restarted.
AppendFails(u) ==
  /\ u \in appending
  /\ appending' = {}
  /\ request' = [r \in Clients |-> Idle]
  /\ UNCHANGED <<user, subscription, agent, information, config, agentFile, copies, counted>>

\* updateUser takes any body: the user may move to another company.
UpdateUser(u, c) ==
  /\ u \in LiveUsers
  /\ user' = [user EXCEPT ![u].company = c]
  /\ UNCHANGED <<subscription, agent, information, config, agentFile, appending, copies,
                 request, counted>>

\* Refused while the user has a subscription.  His section stays in the file.
RemoveUser(u) ==
  /\ u \in LiveUsers
  /\ subscription[u] = None
  /\ user' = [user EXCEPT ![u] = [row |-> "deleted", company |-> None]]
  /\ UNCHANGED <<subscription, agent, information, config, agentFile, appending, copies,
                 request, counted>>

-----------------------------------------------------------------------------
(***************************************************************************)
(* Subscriptions: one for each user.  An update may give it to another.    *)
(***************************************************************************)
CreateSubscription(u, q) ==
  /\ u \in LiveUsers
  /\ subscription[u] = None
  /\ subscription' = [subscription EXCEPT ![u] = q]
  /\ UNCHANGED <<user, agent, information, config, agentFile, appending, copies, request, counted>>

UpdateSubscription(u, v, q) ==
  /\ subscription[u] # None
  /\ v \in LiveUsers
  /\ v = u \/ subscription[v] = None
  /\ subscription' = [subscription EXCEPT ![u] = None, ![v] = q]
  /\ UNCHANGED <<user, agent, information, config, agentFile, appending, copies, request, counted>>

RemoveSubscription(u) ==
  /\ subscription[u] # None
  /\ subscription' = [subscription EXCEPT ![u] = None]
  /\ UNCHANGED <<user, agent, information, config, agentFile, appending, copies, request, counted>>

-----------------------------------------------------------------------------
(***************************************************************************)
(* AgentService.create: count the agents of the caller's company, compare  *)
(* with his subscription, hash the password, insert the rows, append the   *)
(* section.  The dto names the agent's company, which may be another.      *)
(***************************************************************************)
CountAgents(r, u) ==
  /\ request[r].at = "idle"
  /\ user[u].row # "unused"
  /\ request' = [request EXCEPT ![r] =
                   [Idle EXCEPT !.at = "counted", !.user = u, !.company = user[u].company,
                                !.total = Cardinality(AgentsOf(user[u].company))]]
  /\ UNCHANGED <<user, subscription, agent, information, config, agentFile, appending,
                 copies, counted>>

\* "Subscription not found", "Maximum number of agents reached".
BadHasRoom(r) == subscription[request[r].user] # None

HasRoom(r) ==
  /\ subscription[request[r].user] # None
  /\ request[r].total < subscription[request[r].user]

CheckSubscription(r) ==
  /\ request[r].at = "counted"
  /\ IF HasRoom(r) THEN GoOn(r, "admitted") ELSE Done(r)
  /\ UNCHANGED <<user, subscription, agent, information, config, agentFile, appending,
                 copies, counted>>

InsertAgent(r, a, c) ==
  /\ request[r].at = "admitted"
  /\ agent[a].row = "unused"
  /\ agent' = [agent EXCEPT ![a] = [row |-> "live", company |-> c, password |-> "hash"]]
  /\ counted' = [counted EXCEPT ![a] = request[r].company]
  /\ request' = [request EXCEPT ![r].at = "informing", ![r].agent = a]
  /\ UNCHANGED <<user, subscription, information, config, agentFile, appending, copies>>

\* Only an agent with SIPTech PJSIP gets a configuration.
InsertInformation(r) ==
  /\ request[r].at = "informing"
  /\ request[r].agent \in LiveAgents
  /\ information' = information \cup {request[r].agent}
  /\ Done(r) \/ GoOn(r, "configuring")
  /\ UNCHANGED <<user, subscription, agent, config, agentFile, appending, copies, counted>>

InsertConfig(r) ==
  /\ request[r].at = "configuring"
  /\ request[r].agent \in LiveAgents
  /\ config' = config \cup {request[r].agent}
  /\ GoOn(r, "appending")
  /\ UNCHANGED <<user, subscription, agent, information, agentFile, appending, copies, counted>>

AppendAgent(r) ==
  /\ request[r].at = "appending"
  /\ agentFile' = agentFile \cup {request[r].agent}
  /\ Done(r)
  /\ UNCHANGED <<user, subscription, agent, information, config, appending, copies, counted>>

-----------------------------------------------------------------------------
(***************************************************************************)
(* AgentService.remove.  An agent without a configuration ends it there;   *)
(* the section stays in the file, the call that removes it is a comment.   *)
(***************************************************************************)
FindAgent(r, a) ==
  /\ request[r].at = "idle"
  /\ a \in LiveAgents
  /\ request' = [request EXCEPT ![r] = [Idle EXCEPT !.at = "removing", !.agent = a]]
  /\ UNCHANGED <<user, subscription, agent, information, config, agentFile, appending,
                 copies, counted>>

DeleteConfig(r) ==
  /\ request[r].at = "removing"
  /\ request[r].agent \in config
  /\ config' = config \ {request[r].agent}
  /\ GoOn(r, "deleting")
  /\ UNCHANGED <<user, subscription, agent, information, agentFile, appending, copies, counted>>

DeleteAgent(r) ==
  LET a == request[r].agent IN
  /\ request[r].at = "deleting"
  /\ agent' = IF Referenced(a) THEN agent
              ELSE [agent EXCEPT ![a] = [row |-> "deleted", company |-> None, password |-> "none"]]
  /\ Done(r)
  /\ UNCHANGED <<user, subscription, information, config, agentFile, appending, copies, counted>>

-----------------------------------------------------------------------------
(***************************************************************************)
(* Passwords.  updatePassword compares the old one with the hash, and      *)
(* stores the new one as it is: no later comparison succeeds.              *)
(***************************************************************************)
UpdatePassword(a) ==
  /\ a \in LiveAgents
  /\ agent[a].password = "hash"
  /\ agent' = [agent EXCEPT ![a].password = "plain"]
  /\ UNCHANGED <<user, subscription, information, config, agentFile, appending, copies,
                 request, counted>>

-----------------------------------------------------------------------------
(***************************************************************************)
(* syncNewMail: for each file of the mailbox, look for a row, create one.  *)
(* The message to /voicemail/new may name any mailbox, any number of times.*)
(***************************************************************************)
ReadMailbox(r, a, files) ==
  /\ request[r].at = "idle"
  /\ a \in LiveAgents
  /\ files \in SUBSET {m \in Mails : MailboxOf[m] = a} \ {{}}
  /\ request' = [request EXCEPT ![r] = [Idle EXCEPT !.at = "syncing", !.agent = a, !.files = files]]
  /\ UNCHANGED <<user, subscription, agent, information, config, agentFile, appending,
                 copies, counted>>

\* "Avoid duplicates".
BadSeen(m) == FALSE

Seen(m) == Stored(m)

NextFile(r) ==
  LET left == request[r].files IN
  /\ request[r].at = "syncing"
  /\ \/ \E m \in left :
          request' = [request EXCEPT ![r].files = left \ {m},
                                     ![r].at = IF Seen(m) THEN "syncing" ELSE "creating",
                                     ![r].file = IF Seen(m) THEN None ELSE m]
     \/ left = {} /\ Done(r)
  /\ UNCHANGED <<user, subscription, agent, information, config, agentFile, appending,
                 copies, counted>>

CreateVoicemail(r) ==
  /\ request[r].at = "creating"
  /\ request[r].agent \in LiveAgents
  /\ copies' = [copies EXCEPT ![request[r].file][r] = @ + 1]
  /\ request' = [request EXCEPT ![r].at = "syncing", ![r].file = None]
  /\ UNCHANGED <<user, subscription, agent, information, config, agentFile, appending, counted>>

-----------------------------------------------------------------------------
\* The next query of the request is refused by the database, or fails.
QueryRejected(r) ==
  /\ request[r].at # "idle"
  /\ Done(r)
  /\ UNCHANGED <<user, subscription, agent, information, config, agentFile, appending,
                 copies, counted>>

\* Requests that one query completes, or the first query of a longer one, by
\* the controller that takes them.
UserRequest ==
  \E u \in Users : RemoveUser(u) \/ \E c \in Companies : Register(u, c) \/ UpdateUser(u, c)

SubscriptionRequest ==
  \E u \in Users :
     \/ RemoveSubscription(u)
     \/ \E q \in Quotas : \/ CreateSubscription(u, q)
                          \/ \E v \in Users : UpdateSubscription(u, v, q)

AgentRequest ==
  \/ \E a \in Agents : UpdatePassword(a)
  \/ \E r \in Clients : \/ \E u \in Users : CountAgents(r, u)
                        \/ \E a \in Agents : FindAgent(r, a)

VoicemailRequest ==
  \E r \in Clients, a \in Agents, files \in SUBSET Mails : ReadMailbox(r, a, files)

AccountRequest == UserRequest \/ SubscriptionRequest \/ AgentRequest \/ VoicemailRequest

\* What follows from the requests made.
AccountStep ==
  \/ \E u \in Users : SectionAppended(u)
  \/ \E r \in Clients :
       \/ CheckSubscription(r) \/ InsertInformation(r) \/ InsertConfig(r) \/ AppendAgent(r)
       \/ \E a \in Agents, c \in Companies : InsertAgent(r, a, c)
       \/ DeleteConfig(r) \/ DeleteAgent(r)
       \/ NextFile(r) \/ CreateVoicemail(r)
       \/ QueryRejected(r)

\* The process ends.
AccountRestart == \E u \in Users : AppendFails(u)

AccountsNext == AccountRequest \/ AccountStep \/ AccountRestart

AccountsSpec == AccountsInit /\ [][AccountsNext]_accountVars

-----------------------------------------------------------------------------
(***************************************************************************)
(* Properties.                                                             *)
(***************************************************************************)
\* The agents that a request put into company c having counted another: that of
\* its user. Nothing bounds them, for create takes the agent's company from the
\* request.
SentTo(c) == {a \in AgentsOf(c) : counted[a] # c}

\* "Maximum number of agents reached": apart from those, of whom there may be
\* any number, a company's agents exceed the highest quota its users ever had
\* only by the requests that were under way together, one for each client but
\* the first, although a create counts long before it inserts, users move
\* between companies, and subscriptions change in between.
QuotaOvershoot ==
  \A c \in Companies :
    Cardinality(AgentsOf(c)) < MaxQuota + Cardinality(Clients) + Cardinality(SentTo(c))

\* Who has a section in pjsip-agent.conf, so that his phone may register, has
\* the rows the dialer looks for: remove takes away the configuration, and the
\* foreign key of AgentInformation then keeps the agent, whatever failed before.
SectionHasRows ==
  \A a \in agentFile \cap Agents : a \in LiveAgents /\ a \in information

\* "Avoid duplicates": a voicemail has two rows only if two syncs that ran side
\* by side made them; a single client never makes a second, however often the
\* message comes.
OneVoicemailPerClient == \A m \in Mails, r \in Clients : copies[m][r] <= 1

====
