----------------------------- MODULE SmsBilling -----------------------------
(***************************************************************************)
(* SMS over SMPP: SmsController.sendSMS, SmsService.sendSMPPSms, the       *)
(* workers SMPPSmsConsumer (smppQueue) and DLRConsumer (dlrQueue), and the *)
(* two providers whose sessions bring the delivery reports.  The messages  *)
(* are those of one company, a job is one number of one request, and a     *)
(* unit of money is the 0.05 a delivered message costs.                    *)
(*                                                                         *)
(* Row and job of a message are separate: sendSMPPSms creates a pending    *)
(* row that nothing updates, and the worker creates another one.  A report *)
(* may arrive before that row, and more than once: no provider answers     *)
(* deliver_sm.  BullMQ runs a job again that was active when the process   *)
(* died, once; no job is added with attempts, so none that throws is.      *)
(***************************************************************************)
EXTENDS Naturals, FiniteSets

CONSTANTS
  Users,       \* of the company
  Jobs,        \* of the smppQueue, each added once
  Sessionless, \* the jobs whose route has no session
  MessageIds,  \* that the message centre gives
  Reports,     \* jobs of the dlrQueue, each added once
  DlrWorkers,  \* one for each module that provides DLRConsumer
  MaxBalance,  \* bounds what a subscription is set to
  MaxCredits,  \* bounds how often subscriptions are changed
  MaxCrashes,  \* bounds how often the process dies
  None         \* null

ASSUME JobsAssumption == Jobs \cap Reports = {} /\ Sessionless \subseteq Jobs

ASSUME BoundsAssumption == MaxBalance \in Nat /\ DlrWorkers \in Nat

Statuses == {"SENT", "DELIVERED", "FAILED"}

ASSUME NoneAssumption ==
  None \notin MessageIds \cup Users \cup Statuses /\ None \notin [active: BOOLEAN, balance: Nat]

VARIABLES
  subscription, \* [active, balance] of each user, or None
  request,      \* [at, jobs]: the request each user is making
  pending,      \* DB: the jobs with a pending row
  failed,       \* DB: the jobs with a FAILED row, which has no messageId
  status,       \* DB: the status of the row of each messageId, None without one
  job,          \* [at, id]: where each job of smppQueue is
  taken,        \* the messageIds that the message centre has given
  submitted,    \* history: how often the number of a job was submitted
  report,       \* [at, id, status, user, balance]: where each job of dlrQueue is
  charges,      \* history: how often each report was charged
  stalls,       \* how often each job was active when the process died
  due,          \* history: what a user was credited less the charges since
  overlapped,   \* history: users credited while a charge was under way
  credits, crashes

vars == <<subscription, request, pending, failed, status, job, taken, submitted, report,
          charges, stalls, due, overlapped, credits, crashes>>

sendVars == <<request, pending>>
smppVars == <<failed, job, taken, submitted>>
dlrVars == <<report, charges>>
moneyVars == <<subscription, due, overlapped, credits>>

Balances == 0..MaxBalance

Subscription == [active: BOOLEAN, balance: Balances]

Request == [at: {"idle", "creating", "queueing"}, jobs: SUBSET Jobs]

Job == [at: {"unused", "asked", "queued", "submitting", "logging", "relogging", "returned", "over"},
        id: MessageIds \cup {None}]

Report == [at: {"unused", "queued", "found", "billing", "read", "returned", "over"},
           id: MessageIds \cup {None}, status: Statuses \cup {None},
           user: Users \cup {None}, balance: Balances]

TypeOK ==
  /\ subscription \in [Users -> Subscription \cup {None}]
  /\ request \in [Users -> Request]
  /\ pending \subseteq Jobs /\ failed \subseteq Jobs
  /\ status \in [MessageIds -> Statuses \cup {None}]
  /\ job \in [Jobs -> Job]
  /\ taken \subseteq MessageIds
  /\ submitted \in [Jobs -> Nat]
  /\ report \in [Reports -> Report]
  /\ charges \in [Reports -> Nat]
  /\ stalls \in [Jobs \cup Reports -> Nat]
  /\ due \in [Users -> Balances]
  /\ overlapped \subseteq Users
  /\ credits \in Nat /\ crashes \in Nat

Idle == [at |-> "idle", jobs |-> {}]

Init ==
  /\ subscription = [u \in Users |-> None]
  /\ request = [u \in Users |-> Idle]
  /\ pending = {} /\ failed = {}
  /\ status = [m \in MessageIds |-> None]
  /\ job = [j \in Jobs |-> [at |-> "unused", id |-> None]]
  /\ taken = {}
  /\ submitted = [j \in Jobs |-> 0]
  /\ report = [r \in Reports |-> [at |-> "unused", id |-> None, status |-> None, user |-> None,
                                  balance |-> 0]]
  /\ charges = [r \in Reports |-> 0]
  /\ stalls = [x \in Jobs \cup Reports |-> 0]
  /\ due = [u \in Users |-> 0]
  /\ overlapped = {}
  /\ credits = 0 /\ crashes = 0

-----------------------------------------------------------------------------
(***************************************************************************)
(* Helpers.  An operator called Bad... is a plausible mistake in the one   *)
(* below it and no part of the specification.                              *)
(***************************************************************************)

\* The jobs that the one worker of smppQueue, and those of dlrQueue, are at; a
\* job that has returned or thrown stays theirs until BullMQ has recorded it.
Sending == {j \in Jobs : job[j].at \in {"submitting", "logging", "relogging", "returned"}}

Handling == {r \in Reports : report[r].at \in {"found", "billing", "read", "returned"}}

\* The row of message m exists.
Logged(m) == m # None /\ status[m] # None

BadCharged(b) == b - 1

\* Math.max(smsBalance - 0.05, 0)
Charged(b) == IF b = 0 THEN 0 ELSE b - 1

BadBillable(s) == s # "SENT"

Billable(s) == s = "DELIVERED"

\* A job goes on, with what its run knows, or leaves its run.
GoOn(j, at) == job' = [job EXCEPT ![j] = [at |-> at, id |-> @.id]]

JobAt(j, at) == job' = [job EXCEPT ![j] = [at |-> at, id |-> None]]

ReportAt(r, at) ==
  report' = [report EXCEPT ![r] = [@ EXCEPT !.at = at, !.user = None, !.balance = 0]]

-----------------------------------------------------------------------------
(***************************************************************************)
(* The request.                                                            *)
(***************************************************************************)

\* sendSMS: the subscription of the user who sends is active and not empty.
Send(u, J) ==
  /\ request[u].at = "idle"
  /\ subscription[u] # None /\ subscription[u].active /\ subscription[u].balance # 0
  /\ J # {} /\ \A j \in J : job[j].at = "unused"
  /\ job' = [j \in Jobs |-> IF j \in J THEN [at |-> "asked", id |-> None] ELSE job[j]]
  /\ request' = [request EXCEPT ![u] = [at |-> "creating", jobs |-> J]]
  /\ UNCHANGED <<pending, failed, taken, status, submitted, dlrVars, stalls, moneyVars, crashes>>

\* Promise.all over the pending rows: one that fails ends the request.
CreatePending(u) ==
  /\ request[u].at = "creating"
  /\ \E J \in SUBSET request[u].jobs :
       /\ pending' = pending \cup J
       /\ request' = [request EXCEPT ![u] =
                        IF J = request[u].jobs THEN [at |-> "queueing", jobs |-> J] ELSE Idle]
  /\ UNCHANGED <<smppVars, status, dlrVars, stalls, moneyVars, crashes>>

\* smppQueue.add, number by number.
QueueJob(u, j) ==
  /\ request[u].at = "queueing" /\ j \in request[u].jobs
  /\ JobAt(j, "queued")
  /\ request' = [request EXCEPT ![u] =
                   IF request[u].jobs = {j} THEN Idle
                   ELSE [at |-> "queueing", jobs |-> request[u].jobs \ {j}]]
  /\ UNCHANGED <<pending, failed, taken, status, submitted, dlrVars, stalls, moneyVars, crashes>>

\* The queue refuses: the numbers that are left are never sent.
QueueFails(u) ==
  /\ request[u].at = "queueing"
  /\ request' = [request EXCEPT ![u] = Idle]
  /\ UNCHANGED <<pending, smppVars, status, dlrVars, stalls, moneyVars, crashes>>

-----------------------------------------------------------------------------
(***************************************************************************)
(* SMPPSmsConsumer.handleSend                                              *)
(***************************************************************************)

\* submit_sm; without a session it throws, which the catch takes for a refusal.
Submit(j) ==
  /\ job[j].at = "queued" /\ Sending = {}
  /\ JobAt(j, IF j \in Sessionless THEN "relogging" ELSE "submitting")
  /\ submitted' = [submitted EXCEPT ![j] = IF j \in Sessionless THEN @ ELSE @ + 1]
  /\ UNCHANGED <<sendVars, failed, taken, status, dlrVars, stalls, moneyVars, crashes>>

\* The centre takes the message.
Accepted(j, m) ==
  /\ job[j].at = "submitting" /\ m \notin taken
  /\ job' = [job EXCEPT ![j] = [at |-> "logging", id |-> m]]
  /\ taken' = taken \cup {m}
  /\ UNCHANGED <<sendVars, failed, submitted, status, dlrVars, stalls, moneyVars, crashes>>

Refused(j) ==
  /\ job[j].at = "submitting"
  /\ JobAt(j, "relogging")
  /\ UNCHANGED <<sendVars, failed, taken, submitted, status, dlrVars, stalls, moneyVars, crashes>>

\* The row of a message that was sent.
LogSent(j) ==
  /\ job[j].at = "logging"
  /\ JobAt(j, "returned")
  /\ status' = [status EXCEPT ![job[j].id] = "SENT"]
  /\ UNCHANGED <<sendVars, failed, taken, submitted, dlrVars, stalls, moneyVars, crashes>>

\* The insert fails: the catch tries once more, with what was set before.
LogFails(j) ==
  /\ job[j].at = "logging"
  /\ GoOn(j, "relogging")
  /\ UNCHANGED <<sendVars, failed, taken, submitted, status, dlrVars, stalls, moneyVars, crashes>>

Relog(j) ==
  LET m == job[j].id IN
  /\ job[j].at = "relogging"
  /\ JobAt(j, "returned")
  /\ IF m = None
     THEN failed' = failed \cup {j} /\ UNCHANGED status
     ELSE status' = [status EXCEPT ![m] = "SENT"] /\ UNCHANGED failed
  /\ UNCHANGED <<sendVars, taken, submitted, dlrVars, stalls, moneyVars, crashes>>

\* The second insert fails too: the job throws, and its message has no row.
RelogFails(j) ==
  /\ job[j].at = "relogging"
  /\ JobAt(j, "returned")
  /\ UNCHANGED <<sendVars, failed, taken, submitted, status, dlrVars, stalls, moneyVars, crashes>>

\* BullMQ records the end of the job, completed or failed.
JobOver(j) ==
  /\ job[j].at = "returned"
  /\ JobAt(j, "over")
  /\ UNCHANGED <<sendVars, failed, taken, submitted, status, dlrVars, stalls, moneyVars, crashes>>

-----------------------------------------------------------------------------
(***************************************************************************)
(* The providers' deliver_sm, and DLRConsumer.process.                     *)
(***************************************************************************)
Deliver(r, m, s) ==
  /\ report[r].at = "unused" /\ m \in taken
  /\ report' = [report EXCEPT ![r] = [@ EXCEPT !.at = "queued", !.id = m, !.status = s]]
  /\ UNCHANGED <<sendVars, smppVars, status, charges, stalls, moneyVars, crashes>>

\* findFirst: a report of a message without a row is dropped.
FindRow(r) ==
  /\ report[r].at = "queued" /\ Cardinality(Handling) < DlrWorkers
  /\ ReportAt(r, IF Logged(report[r].id) THEN "found" ELSE "returned")
  /\ UNCHANGED <<sendVars, smppVars, status, charges, stalls, moneyVars, crashes>>

\* updateMany
SetStatus(r) ==
  /\ report[r].at = "found"
  /\ status' = [status EXCEPT ![report[r].id] = report[r].status]
  /\ ReportAt(r, IF Billable(report[r].status) THEN "billing" ELSE "returned")
  /\ UNCHANGED <<sendVars, smppVars, charges, stalls, moneyVars, crashes>>

\* The transaction finds a subscription of any user of the company, or none.
ReadBalance(r, u) ==
  /\ report[r].at = "billing" /\ subscription[u] # None
  /\ report' = [report EXCEPT ![r] = [@ EXCEPT !.at = "read", !.user = u,
                                                 !.balance = subscription[u].balance]]
  /\ UNCHANGED <<sendVars, smppVars, status, charges, stalls, moneyVars, crashes>>

NoSubscription(r) ==
  /\ report[r].at = "billing" /\ \A u \in Users : subscription[u] = None
  /\ ReportAt(r, "returned")
  /\ UNCHANGED <<sendVars, smppVars, status, charges, stalls, moneyVars, crashes>>

WriteBalance(r) ==
  LET u == report[r].user IN
  /\ report[r].at = "read" /\ u # None
  /\ subscription' = [subscription EXCEPT ![u] =
                       [@ EXCEPT !.balance = Charged(report[r].balance)]]
  /\ due' = [due EXCEPT ![u] = Charged(@)]
  /\ charges' = [charges EXCEPT ![r] = @ + 1]
  /\ ReportAt(r, "returned")
  /\ UNCHANGED <<sendVars, smppVars, status, stalls, overlapped, credits, crashes>>

\* A query rejects, as the last one does when the subscription is gone.
ReportFails(r) ==
  /\ r \in Handling /\ report[r].at # "returned"
  /\ ReportAt(r, "returned")
  /\ UNCHANGED <<sendVars, smppVars, status, charges, stalls, moneyVars, crashes>>

ReportOver(r) ==
  /\ report[r].at = "returned"
  /\ ReportAt(r, "over")
  /\ UNCHANGED <<sendVars, smppVars, status, charges, stalls, moneyVars, crashes>>

-----------------------------------------------------------------------------
\* SubscriptionsService: create, update, remove.
\* A subscription that is removed and created again is another row: nobody who
\* has read the first one writes the second.
Administer(u, s) ==
  LET readers == {r \in Reports : report[r].at = "read" /\ report[r].user = u} IN
  /\ s # subscription[u]
  /\ credits < MaxCredits
  /\ credits' = credits + 1
  /\ subscription' = [subscription EXCEPT ![u] = s]
  /\ due' = [due EXCEPT ![u] = IF s = None THEN 0 ELSE s.balance]
  /\ overlapped' = IF s # None /\ readers # {} THEN overlapped \cup {u} ELSE overlapped \ {u}
  /\ report' = [r \in Reports |-> IF s = None /\ r \in readers THEN [report[r] EXCEPT !.user = None]
                                  ELSE report[r]]
  /\ UNCHANGED <<sendVars, smppVars, status, charges, stalls, crashes>>

\* Where BullMQ puts a job that was active: back once, then among the failed.
AfterStall(x) == IF stalls[x] = 0 THEN "queued" ELSE "over"

\* The process dies and starts again: the requests are lost, the queues are not.
Crash ==
  /\ crashes < MaxCrashes
  /\ crashes' = crashes + 1
  /\ request' = [u \in Users |-> Idle]
  /\ job' = [j \in Jobs |-> IF j \in Sending THEN [at |-> AfterStall(j), id |-> None]
                          ELSE job[j]]
  /\ report' = [r \in Reports |-> IF r \in Handling
                             THEN [report[r] EXCEPT !.at = AfterStall(r), !.user = None, !.balance = 0]
                             ELSE report[r]]
  /\ stalls' = [x \in Jobs \cup Reports |->
                  IF x \in Sending \cup Handling THEN stalls[x] + 1 ELSE stalls[x]]
  /\ UNCHANGED <<pending, failed, taken, status, submitted, charges, moneyVars>>

Next ==
  \/ \E u \in Users : \/ \E J \in SUBSET Jobs : Send(u, J)
                     \/ CreatePending(u) \/ QueueFails(u)
                     \/ \E j \in Jobs : QueueJob(u, j)
                     \/ \E s \in Subscription \cup {None} : Administer(u, s)
  \/ \E j \in Jobs : \/ Submit(j) \/ Refused(j) \/ LogSent(j) \/ LogFails(j)
                    \/ Relog(j) \/ RelogFails(j) \/ JobOver(j)
                    \/ \E m \in MessageIds : Accepted(j, m)
  \/ \E r \in Reports : \/ \E m \in MessageIds, s \in {"DELIVERED", "FAILED"} : Deliver(r, m, s)
                       \/ FindRow(r) \/ SetStatus(r) \/ NoSubscription(r)
                       \/ WriteBalance(r) \/ ReportFails(r) \/ ReportOver(r)
                       \/ \E u \in Users : ReadBalance(r, u)
  \/ Crash

Spec == Init /\ [][Next]_vars

-----------------------------------------------------------------------------
(***************************************************************************)
(* Properties.                                                             *)
(***************************************************************************)

\* A number is submitted once, and once more for each time that the process died
\* with its job active; so is a report charged, and only one that says DELIVERED
\* of a message with a row.
OncePerRun ==
  /\ \A j \in Jobs : submitted[j] <= 1 + stalls[j]
  /\ \A r \in Reports : charges[r] <= 1 + stalls[r]

ChargedAsReported ==
  \A r \in Reports : charges[r] > 0 => report[r].status = "DELIVERED" /\ Logged(report[r].id)

\* Whatever workers overlap, a user has at least what he was last credited less
\* one unit for each charge, unless that credit overlapped a charge.
NoOvercharge ==
  \A u \in Users :
    subscription[u] # None /\ u \notin overlapped => subscription[u].balance >= due[u]

\* The billing of the messages follows their reports: the three facts above, over
\* lost rows, repeated reports, crashes and two workers on one queue.
BilledForReports == OncePerRun /\ ChargedAsReported /\ NoOvercharge

====
