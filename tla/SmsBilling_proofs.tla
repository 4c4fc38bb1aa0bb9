------------------------- MODULE SmsBilling_proofs -------------------------
(***************************************************************************)
(* Proofs about SmsBilling, for any number of users, jobs, messages and    *)
(* reports, any number of workers on dlrQueue and any number of crashes.   *)
(***************************************************************************)
EXTENDS SmsBilling, TLAPS

\* What a run of a job still owes: the run that is on, or the last one, counts
\* from the step that submits or charges.
SubmittedOnce ==
  \A j \in Jobs :
    submitted[j] <= stalls[j] + IF job[j].at \in {"unused", "asked", "queued"} THEN 0 ELSE 1

ChargedOnce ==
  \A r \in Reports :
    charges[r] <= stalls[r] + IF report[r].at \in {"returned", "over"} THEN 1 ELSE 0

\* Where a report is says what has been read of its message.
ReportKnows ==
  \A r \in Reports :
    /\ report[r].at # "unused" =>
         report[r].id \in MessageIds /\ report[r].status \in {"DELIVERED", "FAILED"}
    /\ report[r].at = "unused" => charges[r] = 0
    /\ report[r].at \in {"found", "billing", "read"} => Logged(report[r].id)
    /\ report[r].at \in {"billing", "read"} => report[r].status = "DELIVERED"

\* A worker that has read a balance read a row that still exists, and read no
\* less than what the user is due unless he was credited meanwhile.
ReaderKnows ==
  \A r \in Reports :
    LET u == report[r].user IN
    report[r].at = "read" /\ u # None =>
      /\ subscription[u] # None
      /\ u \notin overlapped => report[r].balance >= due[u]

\* A request holds jobs that are not queued yet, and no two hold the same.
RequestsHold ==
  \A u \in Users : \A j \in request[u].jobs :
    job[j].at = "asked" /\ \A v \in Users \ {u} : j \notin request[v].jobs

SendInv == SubmittedOnce /\ RequestsHold

DlrInv == ChargedOnce /\ ReportKnows /\ ChargedAsReported /\ ReaderKnows /\ NoOvercharge

IInv == TypeOK /\ SendInv /\ DlrInv

LEMMA ChargedRange ==
  /\ \A b \in Balances : Charged(b) \in Balances
  /\ \A b, c \in Balances : b >= c => Charged(b) >= Charged(c)
BY BoundsAssumption DEF Charged, Balances

LEMMA InitIInv == Init => IInv
<1> SUFFICES ASSUME Init PROVE IInv
  OBVIOUS
<1>1. TypeOK
  BY BoundsAssumption DEF Init, TypeOK, Request, Job, Report, Balances, Idle
<1> QED
  BY <1>1 DEF Init, Idle, IInv, SendInv, DlrInv, SubmittedOnce, RequestsHold, ChargedOnce, ReportKnows,
              ChargedAsReported, ReaderKnows, NoOvercharge

-----------------------------------------------------------------------------
(***************************************************************************)
(* The request and the worker of smppQueue.                                *)
(***************************************************************************)
SendStep ==
  \/ \E u \in Users, J \in SUBSET Jobs : Send(u, J)
  \/ \E u \in Users : CreatePending(u) \/ QueueFails(u)
  \/ \E u \in Users, j \in Jobs : QueueJob(u, j)
  \/ \E j \in Jobs, m \in MessageIds : Accepted(j, m)
  \/ \E j \in Jobs : Submit(j) \/ Refused(j) \/ LogSent(j) \/ LogFails(j) \/ Relog(j)
                     \/ RelogFails(j) \/ JobOver(j)

\* What none of these steps touches, and that a row once written stays.
LEMMA SendFrame ==
  ASSUME IInv, SendStep
  PROVE  /\ UNCHANGED <<dlrVars, stalls, moneyVars, crashes>>
         /\ status' \in [MessageIds -> Statuses \cup {None}]
         /\ \A m \in MessageIds : Logged(m) => Logged(m)'
<1> USE DEF IInv, TypeOK, Logged
<1>1. ASSUME NEW u \in Users, NEW J \in SUBSET Jobs, Send(u, J)
      PROVE  UNCHANGED <<dlrVars, stalls, moneyVars, crashes, status>>
  BY <1>1 DEF Send
<1>2. ASSUME NEW u \in Users, CreatePending(u) \/ QueueFails(u)
      PROVE  UNCHANGED <<dlrVars, stalls, moneyVars, crashes, status>>
  BY <1>2 DEF CreatePending, QueueFails
<1>3. ASSUME NEW u \in Users, NEW j \in Jobs, QueueJob(u, j)
      PROVE  UNCHANGED <<dlrVars, stalls, moneyVars, crashes, status>>
  BY <1>3 DEF QueueJob
<1>4. ASSUME NEW j \in Jobs, NEW m \in MessageIds, Accepted(j, m)
      PROVE  UNCHANGED <<dlrVars, stalls, moneyVars, crashes, status>>
  BY <1>4 DEF Accepted
<1>5. ASSUME NEW j \in Jobs,
             Submit(j) \/ Refused(j) \/ LogFails(j) \/ RelogFails(j) \/ JobOver(j)
      PROVE  UNCHANGED <<dlrVars, stalls, moneyVars, crashes, status>>
  BY <1>5 DEF Submit, Refused, LogFails, RelogFails, JobOver
<1>6. ASSUME NEW j \in Jobs, LogSent(j) \/ Relog(j)
      PROVE  /\ UNCHANGED <<dlrVars, stalls, moneyVars, crashes>>
             /\ status' = status \/ \E m : status' = [status EXCEPT ![m] = "SENT"]
  BY <1>6 DEF LogSent, Relog
<1>7. /\ UNCHANGED <<dlrVars, stalls, moneyVars, crashes>>
      /\ status' = status \/ \E m : status' = [status EXCEPT ![m] = "SENT"]
  BY <1>1, <1>2, <1>3, <1>4, <1>5, <1>6 DEF SendStep
<1>8. CASE status' = status
  BY <1>7, <1>8
<1>9. ASSUME NEW m, status' = [status EXCEPT ![m] = "SENT"]
      PROVE  /\ status' \in [MessageIds -> Statuses \cup {None}]
             /\ \A n \in MessageIds : Logged(n) => Logged(n)'
  <2>1. status' \in [MessageIds -> Statuses \cup {None}]
    BY <1>9 DEF Statuses
  <2>2. None # "SENT"
    BY NoneAssumption DEF Statuses
  <2>3. ASSUME NEW n \in MessageIds, Logged(n) PROVE Logged(n)'
    BY <1>9, <2>2, <2>3
  <2> QED
    BY <2>1, <2>3
<1> QED
  BY <1>7, <1>8, <1>9

LEMMA SendKeepsDlrInv == IInv /\ SendStep => DlrInv'
<1> SUFFICES ASSUME IInv, SendStep PROVE DlrInv'
  OBVIOUS
<1>1. /\ report' = report /\ charges' = charges /\ stalls' = stalls
      /\ subscription' = subscription /\ due' = due /\ overlapped' = overlapped
      /\ \A m \in MessageIds : Logged(m) => Logged(m)'
  BY SendFrame DEF dlrVars, moneyVars
<1>2. ChargedOnce' /\ ReaderKnows' /\ NoOvercharge'
  BY <1>1 DEF IInv, DlrInv, ChargedOnce, ReaderKnows, NoOvercharge
<1>3. ReportKnows' /\ ChargedAsReported'
  <2>1. \A r \in Reports : Logged(report[r].id) => Logged(report[r].id)'
    BY <1>1, NoneAssumption DEF IInv, TypeOK, Report, Logged
  <2> QED
    BY <1>1, <2>1 DEF IInv, DlrInv, ReportKnows, ChargedAsReported
<1> QED
  BY <1>2, <1>3 DEF DlrInv

\* A step of one job: it keeps the type, and submits only what was queued.
LEMMA JobStep ==
  ASSUME IInv, NEW j \in Jobs, NEW v \in Job,
         job' = [job EXCEPT ![j] = v], stalls' = stalls,
         \/ submitted' = submitted /\ v.at \notin {"unused", "asked", "queued"}
         \/ submitted' = submitted /\ job[j].at \in {"unused", "asked", "queued"}
         \/ /\ submitted' = [submitted EXCEPT ![j] = @ + 1]
            /\ job[j].at = "queued" /\ v.at \notin {"unused", "asked", "queued"}
  PROVE  job' \in [Jobs -> Job] /\ submitted' \in [Jobs -> Nat] /\ SubmittedOnce'
<1>1. job \in [Jobs -> Job] /\ submitted \in [Jobs -> Nat] /\ stalls \in [Jobs \cup Reports -> Nat]
  BY DEF IInv, TypeOK
<1>2. job' \in [Jobs -> Job] /\ submitted' \in [Jobs -> Nat]
  BY <1>1
<1>3. \A i \in Jobs \ {j} : job'[i] = job[i] /\ submitted'[i] = submitted[i]
  BY <1>1
<1>4. job'[j] = v
  BY <1>1
<1>5. stalls[j] \in Nat /\ submitted[j] \in Nat
  BY <1>1
<1>6. submitted'[j] <= stalls[j] + IF v.at \in {"unused", "asked", "queued"} THEN 0 ELSE 1
  BY <1>1, <1>5 DEF IInv, SendInv, SubmittedOnce
<1> QED
  BY <1>2, <1>3, <1>4, <1>6 DEF IInv, SendInv, SubmittedOnce

\* A step of the worker: the job is not one that a request holds.
LEMMA WorkerStep ==
  ASSUME IInv, NEW j \in Jobs, NEW v \in Job, job[j].at # "asked",
         job' = [job EXCEPT ![j] = v], stalls' = stalls, request' = request,
         \/ submitted' = submitted /\ v.at \notin {"unused", "asked", "queued"}
         \/ /\ submitted' = [submitted EXCEPT ![j] = @ + 1]
            /\ job[j].at = "queued" /\ v.at \notin {"unused", "asked", "queued"}
  PROVE  job' \in [Jobs -> Job] /\ submitted' \in [Jobs -> Nat] /\ SendInv'
<1>1. job' \in [Jobs -> Job] /\ submitted' \in [Jobs -> Nat] /\ SubmittedOnce'
  BY JobStep
<1>2. RequestsHold'
  BY DEF IInv, SendInv, RequestsHold, TypeOK, Request
<1> QED
  BY <1>1, <1>2 DEF SendInv

LEMMA SendInductive == IInv /\ SendStep => TypeOK' /\ SendInv'
<1> SUFFICES ASSUME IInv, SendStep PROVE TypeOK' /\ SendInv'
  OBVIOUS
<1> DEFINE Sent == /\ request' \in [Users -> Request] /\ pending' \subseteq Jobs
                   /\ failed' \subseteq Jobs /\ taken' \subseteq MessageIds
                   /\ job' \in [Jobs -> Job] /\ submitted' \in [Jobs -> Nat]
                   /\ SubmittedOnce' /\ RequestsHold'
<1>1. ASSUME Sent PROVE TypeOK' /\ SendInv'
  BY <1>1, SendFrame DEF IInv, TypeOK, dlrVars, moneyVars, SendInv
<1>2. ASSUME NEW u \in Users, NEW J \in SUBSET Jobs, Send(u, J) PROVE Sent
  <2>1. [at |-> "asked", id |-> None] \in Job /\ [at |-> "creating", jobs |-> J] \in Request
    BY DEF Job, Request
  <2>2. /\ job' = [j \in Jobs |-> IF j \in J THEN [at |-> "asked", id |-> None] ELSE job[j]]
        /\ request' = [request EXCEPT ![u] = [at |-> "creating", jobs |-> J]]
        /\ \A j \in J : job[j].at = "unused"
        /\ submitted' = submitted /\ stalls' = stalls
    BY <1>2 DEF Send
  <2>3. job' \in [Jobs -> Job] /\ request' \in [Users -> Request]
    BY <2>1, <2>2 DEF IInv, TypeOK
  <2>4. SubmittedOnce'
    BY <2>2 DEF IInv, TypeOK, SendInv, SubmittedOnce
  <2>5. \A v \in Users \ {u} : request'[v] = request[v] /\ \A j \in request[v].jobs : j \notin J
    BY <2>2 DEF IInv, TypeOK, SendInv, RequestsHold
  <2>6. request'[u].jobs = J
    BY <2>2 DEF IInv, TypeOK
  <2>7. \A v \in Users : request[v].jobs \subseteq Jobs
    BY DEF IInv, TypeOK, Request
  <2>8. RequestsHold'
    BY <2>2, <2>5, <2>6, <2>7 DEF IInv, SendInv, RequestsHold
  <2> QED
    BY <1>2, <2>2, <2>3, <2>4, <2>8 DEF Send, IInv, TypeOK
<1>3. ASSUME NEW u \in Users, NEW J \in SUBSET request[u].jobs, NEW at,
             request' = [request EXCEPT ![u] = [at |-> at, jobs |-> J]],
             job' = job, submitted' = submitted, stalls' = stalls
      PROVE  SubmittedOnce' /\ RequestsHold'
  BY <1>3 DEF IInv, TypeOK, SendInv, SubmittedOnce, RequestsHold, Request
<1>4. ASSUME NEW u \in Users, CreatePending(u) PROVE Sent
  <2>1. PICK J \in SUBSET request[u].jobs :
          /\ pending' = pending \cup J
          /\ request' = [request EXCEPT ![u] =
                           IF J = request[u].jobs THEN [at |-> "queueing", jobs |-> J] ELSE Idle]
    BY <1>4 DEF CreatePending
  <2>2. J \subseteq Jobs
    BY <2>1 DEF IInv, TypeOK, Request
  <2>3. [at |-> "queueing", jobs |-> J] \in Request /\ Idle \in Request
    BY <2>2 DEF Request, Idle
  <2>4. UNCHANGED <<failed, job, taken, submitted, stalls>>
    BY <1>4 DEF CreatePending, smppVars
  <2>5. SubmittedOnce' /\ RequestsHold'
    <3>1. CASE J = request[u].jobs
      BY <1>3, <2>1, <2>4, <3>1
    <3>2. CASE J # request[u].jobs
      BY <1>3, <2>1, <2>4, <3>2 DEF Idle
    <3> QED
      BY <3>1, <3>2
  <2> QED
    BY <2>1, <2>2, <2>3, <2>4, <2>5 DEF IInv, TypeOK
<1>5. ASSUME NEW u \in Users, QueueFails(u) PROVE Sent
  <2>1. Idle \in Request
    BY DEF Request, Idle
  <2>2. UNCHANGED <<pending, failed, job, taken, submitted, stalls>>
    BY <1>5 DEF QueueFails, smppVars
  <2>3. SubmittedOnce' /\ RequestsHold'
    BY <1>3, <1>5, <2>2 DEF QueueFails, Idle
  <2> QED
    BY <1>5, <2>1, <2>2, <2>3 DEF QueueFails, IInv, TypeOK
<1>6. ASSUME NEW u \in Users, NEW j \in Jobs, QueueJob(u, j) PROVE Sent
  <2> DEFINE rest == [at |-> "queueing", jobs |-> request[u].jobs \ {j}]
  <2>1. /\ j \in request[u].jobs
        /\ job' = [job EXCEPT ![j] = [at |-> "queued", id |-> None]]
        /\ request' = [request EXCEPT ![u] = IF request[u].jobs = {j} THEN Idle ELSE rest]
        /\ UNCHANGED <<pending, failed, taken, submitted, stalls>>
    BY <1>6 DEF QueueJob, JobAt
  <2>2. [at |-> "queued", id |-> None] \in Job /\ Idle \in Request
    BY DEF Job, Request, Idle
  <2>3. rest \in Request
    BY DEF IInv, TypeOK, Request
  <2>4. request' \in [Users -> Request]
    BY <2>1, <2>2, <2>3 DEF IInv, TypeOK
  <2>5. job[j].at = "asked" /\ \A v \in Users \ {u} : j \notin request[v].jobs
    BY <2>1 DEF IInv, SendInv, RequestsHold
  <2>6. job' \in [Jobs -> Job] /\ SubmittedOnce'
    BY <2>1, <2>2, <2>5, JobStep
  <2>7. request'[u].jobs = request[u].jobs \ {j} /\ \A v \in Users \ {u} : request'[v] = request[v]
    BY <2>1 DEF IInv, TypeOK, Idle
  <2>8. \A i \in Jobs \ {j} : job'[i] = job[i]
    BY <2>1 DEF IInv, TypeOK
  <2>9. \A v \in Users : request[v].jobs \subseteq Jobs
    BY DEF IInv, TypeOK, Request
  <2>10. RequestsHold'
    BY <2>5, <2>7, <2>8, <2>9 DEF IInv, SendInv, RequestsHold
  <2> QED
    BY <2>1, <2>4, <2>6, <2>10 DEF IInv, TypeOK
<1>7. ASSUME NEW j \in Jobs, Submit(j) PROVE Sent
  <2> DEFINE v == [at |-> IF j \in Sessionless THEN "relogging" ELSE "submitting", id |-> None]
  <2>1. v \in Job
    BY DEF Job
  <2>2. /\ job[j].at = "queued" /\ job' = [job EXCEPT ![j] = v]
        /\ UNCHANGED <<request, pending, failed, taken, stalls>>
        /\ submitted' = [submitted EXCEPT ![j] = IF j \in Sessionless THEN @ ELSE @ + 1]
    BY <1>7 DEF Submit, JobAt, sendVars
  <2>3. submitted' = submitted \/ submitted' = [submitted EXCEPT ![j] = @ + 1]
    BY <2>2 DEF IInv, TypeOK
  <2>4. v.at \notin {"unused", "asked", "queued"}
    OBVIOUS
  <2>5. job' \in [Jobs -> Job] /\ submitted' \in [Jobs -> Nat] /\ SendInv'
    BY <2>1, <2>2, <2>3, <2>4, WorkerStep
  <2> QED
    BY <2>2, <2>5 DEF IInv, TypeOK, SendInv
<1>8. ASSUME NEW j \in Jobs, NEW v \in Job, job' = [job EXCEPT ![j] = v],
             job[j].at # "asked", v.at \notin {"unused", "asked", "queued"},
             taken' \subseteq MessageIds, failed' \subseteq Jobs,
             UNCHANGED <<request, pending, stalls, submitted>>
      PROVE  Sent
  <2>1. job' \in [Jobs -> Job] /\ submitted' \in [Jobs -> Nat] /\ SendInv'
    BY <1>8, WorkerStep
  <2> QED
    BY <1>8, <2>1 DEF IInv, TypeOK, SendInv
<1>9. ASSUME NEW j \in Jobs, NEW m \in MessageIds, Accepted(j, m) PROVE Sent
  <2>1. [at |-> "logging", id |-> m] \in Job
    BY DEF Job
  <2> QED
    BY <1>8, <1>9, <2>1 DEF Accepted, sendVars, IInv, TypeOK
<1>10. ASSUME NEW j \in Jobs,
              Refused(j) \/ LogSent(j) \/ LogFails(j) \/ Relog(j) \/ RelogFails(j) \/ JobOver(j)
       PROVE  Sent
  <2>1. \A at \in {"relogging", "returned", "over"} :
          [at |-> at, id |-> None] \in Job /\ [at |-> at, id |-> job[j].id] \in Job
    BY DEF IInv, TypeOK, Job
  <2>2. /\ job[j].at # "asked" /\ UNCHANGED <<request, pending, stalls, submitted, taken>>
        /\ \E at \in {"relogging", "returned", "over"} :
             \/ job' = [job EXCEPT ![j] = [at |-> at, id |-> None]]
             \/ job' = [job EXCEPT ![j] = [at |-> at, id |-> job[j].id]]
    BY <1>10 DEF Refused, LogSent, LogFails, Relog, RelogFails, JobOver, JobAt, GoOn, sendVars,
                 IInv, TypeOK
  <2>3. failed' \subseteq Jobs
    BY <1>10 DEF Refused, LogSent, LogFails, Relog, RelogFails, JobOver, IInv, TypeOK
  <2>4. PICK at \in {"relogging", "returned", "over"} :
             \/ job' = [job EXCEPT ![j] = [at |-> at, id |-> None]]
             \/ job' = [job EXCEPT ![j] = [at |-> at, id |-> job[j].id]]
    BY <2>2
  <2>5. at \notin {"unused", "asked", "queued"}
    BY <2>4
  <2>6. taken' \subseteq MessageIds
    BY <2>2 DEF IInv, TypeOK
  <2> QED
    BY <1>8, <2>1, <2>2, <2>3, <2>4, <2>5, <2>6
<1> QED
  BY <1>1, <1>2, <1>4, <1>5, <1>6, <1>7, <1>9, <1>10 DEF SendStep

-----------------------------------------------------------------------------
(***************************************************************************)
(* The reports and the workers of dlrQueue.                                *)
(***************************************************************************)
DlrStep ==
  \/ \E r \in Reports, m \in MessageIds, s \in {"DELIVERED", "FAILED"} : Deliver(r, m, s)
  \/ \E r \in Reports, u \in Users : ReadBalance(r, u)
  \/ \E r \in Reports : FindRow(r) \/ SetStatus(r) \/ NoSubscription(r) \/ WriteBalance(r)
                        \/ ReportFails(r) \/ ReportOver(r)

\* A step of one report: what it may become, given what its place promises.
LEMMA ReportStep ==
  ASSUME IInv, NEW r \in Reports, NEW v \in Report,
         report' = [report EXCEPT ![r] = v], stalls' = stalls,
         charges' \in [Reports -> Nat], \A q \in Reports \ {r} : charges'[q] = charges[q],
         \A m \in MessageIds : status[m] # None => status'[m] # None,
         charges'[r] <= stalls[r] + IF v.at \in {"returned", "over"} THEN 1 ELSE 0,
         v.at # "unused", v.id \in MessageIds, v.status \in {"DELIVERED", "FAILED"},
         v.at \in {"found", "billing", "read"} => status'[v.id] # None,
         v.at \in {"billing", "read"} => v.status = "DELIVERED",
         charges'[r] > 0 => v.status = "DELIVERED" /\ status'[v.id] # None
  PROVE  report' \in [Reports -> Report] /\ ChargedOnce' /\ ReportKnows' /\ ChargedAsReported'
<1>1. report \in [Reports -> Report] /\ charges \in [Reports -> Nat]
  BY DEF IInv, TypeOK
<1>2. report' \in [Reports -> Report] /\ report'[r] = v
  BY <1>1
<1>3. \A q \in Reports \ {r} : report'[q] = report[q]
  BY <1>1
<1>4. ChargedOnce'
  BY <1>2, <1>3 DEF IInv, DlrInv, ChargedOnce
<1>5. None \notin MessageIds
  BY NoneAssumption
<1>6. \A q \in Reports \ {r} : report[q].id \in MessageIds \cup {None}
  BY <1>1 DEF Report
<1>7. \A q \in Reports \ {r} :
        report[q].id # None /\ status[report[q].id] # None
          => report'[q].id # None /\ status'[report'[q].id] # None
  BY <1>3, <1>6
<1>8. v.id # None
  BY <1>5
<1>9. ReportKnows'
  BY <1>2, <1>3, <1>7, <1>8 DEF IInv, DlrInv, ReportKnows, Logged
<1>10. ChargedAsReported'
  BY <1>2, <1>3, <1>7, <1>8 DEF IInv, DlrInv, ChargedAsReported, Logged
<1> QED
  BY <1>2, <1>4, <1>9, <1>10

\* A step after which no balance is read that was not: the money stays as it is.
LEMMA MoneyFrame ==
  ASSUME IInv, NEW r \in Reports, NEW v \in Report, report' = [report EXCEPT ![r] = v],
         v.at # "read", UNCHANGED moneyVars
  PROVE  ReaderKnows' /\ NoOvercharge'
<1>1. report \in [Reports -> Report]
  BY DEF IInv, TypeOK
<1>2. report'[r].at # "read" /\ \A q \in Reports \ {r} : report'[q] = report[q]
  BY <1>1
<1>3. subscription' = subscription /\ due' = due /\ overlapped' = overlapped
  BY DEF moneyVars
<1> QED
  BY <1>2, <1>3 DEF IInv, DlrInv, ReaderKnows, NoOvercharge

LEMMA DlrInductive == IInv /\ DlrStep => IInv'
<1> SUFFICES ASSUME IInv, DlrStep PROVE IInv'
  OBVIOUS
<1> USE DEF sendVars, smppVars
<1>t. /\ report \in [Reports -> Report] /\ charges \in [Reports -> Nat]
      /\ stalls \in [Jobs \cup Reports -> Nat]
      /\ subscription \in [Users -> Subscription \cup {None}] /\ due \in [Users -> Balances]
      /\ \A r \in Reports : report[r] \in Report
  BY DEF IInv, TypeOK
<1>k. /\ ChargedOnce /\ ReportKnows /\ ChargedAsReported /\ ReaderKnows /\ NoOvercharge
  BY DEF IInv, DlrInv
<1>s. ASSUME UNCHANGED <<sendVars, smppVars, stalls>> PROVE SendInv'
  BY <1>s DEF IInv, SendInv, SubmittedOnce, RequestsHold
<1>1. ASSUME NEW r \in Reports, NEW v \in Report, report' = [report EXCEPT ![r] = v],
             UNCHANGED <<sendVars, smppVars, charges, stalls, moneyVars, crashes>>,
             v.at \notin {"unused", "read"}, v.id \in MessageIds, v.status \in {"DELIVERED", "FAILED"},
             v.at \in {"found", "billing"} => status'[v.id] # None, v.at = "billing" => v.status = "DELIVERED",
             status' = status \/ \E m : status' = [status EXCEPT ![m] = v.status],
             charges[r] = 0 \/ (v.status = report[r].status /\ v.id = report[r].id),
             report[r].at \in {"returned", "over"} => v.at \in {"returned", "over"}
      PROVE  IInv'
  <2>1. v.status # None
    BY <1>1, NoneAssumption DEF Statuses
  <2>2. /\ status' \in [MessageIds -> Statuses \cup {None}]
        /\ \A m \in MessageIds : status[m] # None => status'[m] # None
    BY <1>1, <2>1 DEF IInv, TypeOK, Statuses
  <2>3. charges[r] > 0 => v.status = "DELIVERED" /\ status[v.id] # None
    BY <1>1, <1>t, <1>k DEF ChargedAsReported, Logged
  <2>4. charges[r] <= stalls[r] + IF v.at \in {"returned", "over"} THEN 1 ELSE 0
    BY <1>1, <1>t, <1>k DEF ChargedOnce
  <2>5. charges[r] > 0 => v.status = "DELIVERED" /\ status'[v.id] # None
    BY <1>1, <2>2, <2>3
  <2>6. report' \in [Reports -> Report] /\ ChargedOnce' /\ ReportKnows' /\ ChargedAsReported'
    BY <1>1, <1>t, <2>2, <2>4, <2>5, ReportStep
  <2>7. ReaderKnows' /\ NoOvercharge'
    BY <1>1, MoneyFrame
  <2>8. TypeOK'
    BY <1>1, <2>2, <2>6 DEF IInv, TypeOK, moneyVars
  <2> QED
    BY <1>1, <1>s, <2>6, <2>7, <2>8 DEF IInv, DlrInv
<1>2. ASSUME NEW r \in Reports, NEW m \in MessageIds, NEW s \in {"DELIVERED", "FAILED"}, Deliver(r, m, s)
      PROVE  IInv'
  <2>1. PICK v : v = [report[r] EXCEPT !.at = "queued", !.id = m, !.status = s]
    OBVIOUS
  <2>2. v \in Report /\ v.at = "queued" /\ v.id = m /\ v.status = s
    BY <1>t, <2>1 DEF Report, Statuses
  <2>3. charges[r] = 0 /\ report[r].at = "unused"
    BY <1>2, <1>k DEF Deliver, ReportKnows
  <2> QED
    BY <1>1, <1>2, <2>1, <2>2, <2>3 DEF Deliver
\* The report leaves off what it has read.
<1>3. ASSUME NEW q \in Report, NEW at \in {"found", "billing", "returned", "over"}
      PROVE  /\ [q EXCEPT !.at = at, !.user = None, !.balance = 0] \in Report
             /\ [q EXCEPT !.at = at, !.user = None, !.balance = 0].at = at
             /\ [q EXCEPT !.at = at, !.user = None, !.balance = 0].id = q.id
             /\ [q EXCEPT !.at = at, !.user = None, !.balance = 0].status = q.status
  <2>1. 0 \in Balances
    BY BoundsAssumption DEF Balances
  <2>2. [q EXCEPT !.at = at, !.user = None, !.balance = 0] \in Report
    BY <2>1 DEF Report
  <2> QED
    BY <2>2 DEF Report
<1>4. ASSUME NEW r \in Reports, report[r].at # "unused", NEW at \in {"found", "billing", "returned", "over"},
             ReportAt(r, at), UNCHANGED <<sendVars, smppVars, charges, stalls, moneyVars, crashes>>,
             at \in {"found", "billing"} => status'[report[r].id] # None,
             at = "billing" => report[r].status = "DELIVERED",
             status' = status \/ \E m : status' = [status EXCEPT ![m] = report[r].status],
             report[r].at \in {"returned", "over"} => at \in {"returned", "over"}
      PROVE  IInv'
  <2>1. report[r].id \in MessageIds /\ report[r].status \in {"DELIVERED", "FAILED"}
    BY <1>4, <1>k DEF ReportKnows
  <2>2. PICK p : p = report[r]
    OBVIOUS
  <2>3. PICK v : v = [p EXCEPT !.at = at, !.user = None, !.balance = 0]
    OBVIOUS
  <2>4. v \in Report /\ v.at = at /\ v.id = p.id /\ v.status = p.status
    <3>1. p \in Report
      BY <1>t, <2>2
    <3> QED
      BY <1>3, <2>3, <3>1
  <2>5. report' = [report EXCEPT ![r] = v]
    BY <1>4, <2>2, <2>3 DEF ReportAt
  <2>6. v.at \notin {"unused", "read"}
    BY <2>4
  <2> QED
    BY <1>1, <1>4, <2>1, <2>2, <2>4, <2>5, <2>6
<1>5. ASSUME NEW r \in Reports, FindRow(r) PROVE IInv'
  <2>1. CASE Logged(report[r].id)
    BY <1>4, <1>5, <2>1 DEF FindRow, Logged
  <2>2. CASE ~Logged(report[r].id)
    BY <1>4, <1>5, <2>2 DEF FindRow
  <2> QED
    BY <2>1, <2>2
<1>6. ASSUME NEW r \in Reports, SetStatus(r) PROVE IInv'
  <2>1. /\ report[r].at = "found"
        /\ status' = [status EXCEPT ![report[r].id] = report[r].status]
        /\ report[r].status # None /\ report[r].id \in MessageIds
    BY <1>6, <1>k, NoneAssumption DEF SetStatus, ReportKnows, Statuses
  <2>2. status \in [MessageIds -> Statuses \cup {None}]
    BY DEF IInv, TypeOK
  <2>3. status'[report[r].id] # None
    BY <2>1, <2>2
  <2>4. CASE report[r].status = "DELIVERED"
    BY <1>4, <1>6, <2>1, <2>3, <2>4 DEF SetStatus, Billable
  <2>5. CASE report[r].status # "DELIVERED"
    BY <1>4, <1>6, <2>1, <2>3, <2>5 DEF SetStatus, Billable
  <2> QED
    BY <2>4, <2>5
<1>7. ASSUME NEW r \in Reports, NoSubscription(r) \/ ReportFails(r) \/ ReportOver(r) PROVE IInv'
  <2>1. \E at \in {"returned", "over"} : ReportAt(r, at)
    BY <1>7 DEF NoSubscription, ReportFails, ReportOver
  <2>2. /\ report[r].at # "unused" /\ status' = status
        /\ UNCHANGED <<sendVars, smppVars, charges, stalls, moneyVars, crashes>>
    BY <1>7 DEF NoSubscription, ReportFails, ReportOver, Handling
  <2> QED
    BY <1>4, <2>1, <2>2
<1>8. ASSUME NEW r \in Reports, NEW u \in Users, ReadBalance(r, u) PROVE IInv'
  <2>0. PICK v : v = [report[r] EXCEPT !.at = "read", !.user = u, !.balance = subscription[u].balance]
    OBVIOUS
  <2>1. /\ report[r].at = "billing" /\ subscription[u] # None /\ report' = [report EXCEPT ![r] = v]
        /\ UNCHANGED <<sendVars, smppVars, status, charges, stalls, moneyVars, crashes>>
    BY <1>8, <2>0 DEF ReadBalance
  <2>2. subscription[u].balance \in Balances
    BY <1>t, <2>1 DEF Subscription
  <2>3. /\ v \in Report /\ v.at = "read" /\ v.user = u /\ v.balance = subscription[u].balance
        /\ v.id = report[r].id /\ v.status = report[r].status
    BY <1>t, <2>0, <2>2 DEF Report
  <2>4. /\ v.id \in MessageIds /\ v.status = "DELIVERED" /\ status[v.id] # None
    BY <1>k, <2>1, <2>3 DEF ReportKnows, Logged
  <2>5. charges[r] <= stalls[r]
    BY <1>k, <1>t, <2>1 DEF ChargedOnce
  <2>6. status' = status /\ stalls' = stalls /\ charges' = charges /\ charges'[r] <= stalls[r] + 0
    BY <1>t, <2>1, <2>5
  <2>7. report' \in [Reports -> Report] /\ ChargedOnce' /\ ReportKnows' /\ ChargedAsReported'
    BY <1>t, <2>1, <2>3, <2>4, <2>6, ReportStep
  <2>8. report'[r] = v /\ \A q \in Reports \ {r} : report'[q] = report[q]
    BY <1>t, <2>1
  <2>9. subscription' = subscription /\ due' = due /\ overlapped' = overlapped
    BY <2>1 DEF moneyVars
  <2>10. NoOvercharge'
    BY <1>k, <2>9 DEF NoOvercharge
  <2>11. u \notin overlapped => v.balance >= due[u]
    BY <1>k, <2>1, <2>3 DEF NoOvercharge
  <2>12. ReaderKnows'
    BY <1>k, <2>1, <2>3, <2>8, <2>9, <2>11 DEF ReaderKnows
  <2>13. TypeOK'
    BY <2>1, <2>7 DEF IInv, TypeOK, moneyVars
  <2> QED
    BY <1>s, <2>1, <2>7, <2>10, <2>12, <2>13 DEF IInv, DlrInv
<1>9. ASSUME NEW r \in Reports, WriteBalance(r) PROVE IInv'
  <2>0. PICK p, u, b, v : /\ p = report[r] /\ u = p.user /\ b = Charged(p.balance)
                          /\ v = [p EXCEPT !.at = "returned", !.user = None, !.balance = 0]
    OBVIOUS
  <2>1. /\ report[r].at = "read" /\ u # None /\ report' = [report EXCEPT ![r] = v]
        /\ subscription' = [subscription EXCEPT ![u] = [@ EXCEPT !.balance = b]]
        /\ due' = [due EXCEPT ![u] = Charged(@)]
        /\ charges' = [charges EXCEPT ![r] = @ + 1]
        /\ UNCHANGED <<sendVars, smppVars, status, stalls, overlapped, credits, crashes>>
    BY <1>9, <2>0 DEF WriteBalance, ReportAt
  <2>2. u \in Users /\ report[r].balance \in Balances
    BY <1>t, <2>0, <2>1 DEF Report
  <2>3. subscription[u] \in Subscription /\ due[u] \in Balances
    BY <1>t, <1>k, <2>0, <2>1, <2>2 DEF ReaderKnows
  <2>4. b \in Balances /\ Charged(due[u]) \in Balances
    BY <2>0, <2>2, <2>3, ChargedRange
  <2>5. [subscription[u] EXCEPT !.balance = b] \in Subscription
    BY <2>3, <2>4 DEF Subscription
  <2>6. subscription' \in [Users -> Subscription \cup {None}] /\ due' \in [Users -> Balances]
    BY <1>t, <2>1, <2>2, <2>4, <2>5
  <2>7. v \in Report /\ v.at = "returned" /\ v.id = report[r].id /\ v.status = report[r].status
    <3>1. p \in Report
      BY <1>t, <2>0
    <3>2. v \in Report /\ v.at = "returned" /\ v.id = p.id /\ v.status = p.status
      BY <1>3, <2>0, <3>1
    <3> QED
      BY <2>0, <3>2
  <2>8. v.id \in MessageIds /\ v.status = "DELIVERED" /\ status[v.id] # None
    BY <1>k, <2>1, <2>7 DEF ReportKnows, Logged
  <2>9. status' = status /\ stalls' = stalls
    BY <2>1
  <2>10. charges' \in [Reports -> Nat] /\ charges'[r] <= stalls[r] + 1
    BY <1>k, <1>t, <2>1 DEF ChargedOnce
  <2>11. \A q \in Reports \ {r} : charges'[q] = charges[q]
    BY <1>t, <2>1
  <2>12. report' \in [Reports -> Report] /\ ChargedOnce' /\ ReportKnows' /\ ChargedAsReported'
    BY <2>1, <2>7, <2>8, <2>9, <2>10, <2>11, ReportStep
  <2>13. report'[r].at = "returned" /\ \A q \in Reports \ {r} : report'[q] = report[q]
    BY <1>t, <2>1, <2>7
  <2>14. /\ subscription'[u].balance = b /\ subscription'[u] \in Subscription
         /\ due'[u] = Charged(due[u]) /\ overlapped' = overlapped
         /\ \A w \in Users \ {u} : subscription'[w] = subscription[w] /\ due'[w] = due[w]
    BY <1>t, <2>1, <2>2, <2>3, <2>5 DEF Subscription
  <2>15. u \notin overlapped => b >= Charged(due[u])
    BY <1>k, <2>0, <2>1, <2>2, <2>3, ChargedRange DEF ReaderKnows
  <2>16. NoOvercharge'
    BY <1>k, <2>14, <2>15 DEF NoOvercharge
  <2>17. due[u] >= Charged(due[u]) /\ due[u] \in Nat /\ Charged(due[u]) \in Nat
    BY <2>3, BoundsAssumption DEF Charged, Balances
  <2>18. subscription'[u] # None
    BY <2>14, NoneAssumption DEF Subscription, Balances
  <2>19. \A q \in Reports : report[q].balance \in Nat
    BY <1>t, BoundsAssumption DEF Report, Balances
  <2>20. \A q \in Reports : report[q].user \in Users \cup {None}
    BY <1>t DEF Report
  <2>21. ReaderKnows'
    <3>1. ASSUME NEW q \in Reports, report'[q].at = "read", report'[q].user # None
          PROVE  /\ subscription'[report'[q].user] # None
                 /\ report'[q].user \notin overlapped' => report'[q].balance >= due'[report'[q].user]
      <4>1. report'[q] = report[q]
        BY <2>13, <3>1
      <4>2. report[q].at = "read" /\ report[q].user \in Users
        BY <2>20, <3>1, <4>1
      <4>3. /\ subscription[report[q].user] # None
            /\ report[q].user \notin overlapped => report[q].balance >= due[report[q].user]
        BY <1>k, <3>1, <4>1 DEF ReaderKnows
      <4>4. CASE report[q].user = u
        BY <2>14, <2>17, <2>18, <2>19, <4>1, <4>3, <4>4
      <4>5. CASE report[q].user # u
        BY <2>14, <4>1, <4>2, <4>3, <4>5
      <4> QED
        BY <4>4, <4>5
    <3> QED
      BY <3>1 DEF ReaderKnows
  <2>22. TypeOK'
    BY <2>1, <2>6, <2>10, <2>12 DEF IInv, TypeOK
  <2> QED
    BY <1>s, <2>1, <2>12, <2>16, <2>21, <2>22 DEF IInv, DlrInv
<1> QED
  BY <1>2, <1>5, <1>6, <1>7, <1>8, <1>9 DEF DlrStep

-----------------------------------------------------------------------------
(***************************************************************************)
(* The subscriptions, the crash, and the theorems.                         *)
(***************************************************************************)
LEMMA AdministerInductive ==
  ASSUME IInv, NEW u \in Users, NEW s \in Subscription \cup {None}, Administer(u, s)
  PROVE  IInv'
<1>t. /\ report \in [Reports -> Report] /\ due \in [Users -> Balances] /\ credits \in Nat
      /\ subscription \in [Users -> Subscription \cup {None}] /\ overlapped \subseteq Users
      /\ \A r \in Reports : report[r] \in Report
  BY DEF IInv, TypeOK
<1>k. ReportKnows /\ ChargedAsReported /\ ChargedOnce /\ ReaderKnows /\ NoOvercharge
  BY DEF IInv, DlrInv
<1>n. \A b : b \in Balances => b \in Nat
  BY BoundsAssumption DEF Balances
<1>a. None \notin Subscription
  BY NoneAssumption, <1>n DEF Subscription
<1>1. PICK readers, d : /\ readers = {r \in Reports : report[r].at = "read" /\ report[r].user = u}
                        /\ d = IF s = None THEN 0 ELSE s.balance
  OBVIOUS
<1>2. /\ subscription' = [subscription EXCEPT ![u] = s] /\ due' = [due EXCEPT ![u] = d]
      /\ overlapped' = IF s # None /\ readers # {} THEN overlapped \cup {u} ELSE overlapped \ {u}
      /\ report' = [r \in Reports |-> IF s = None /\ r \in readers THEN [report[r] EXCEPT !.user = None]
                                      ELSE report[r]]
      /\ credits' = credits + 1
      /\ UNCHANGED <<sendVars, smppVars, status, charges, stalls, crashes>>
  BY <1>1 DEF Administer
<1>3. d \in Balances
  BY <1>1, <1>a, BoundsAssumption DEF Subscription, Balances
<1>4. \A r \in Reports : /\ report'[r] \in Report /\ report'[r].at = report[r].at
                         /\ report'[r].id = report[r].id /\ report'[r].status = report[r].status
                         /\ report'[r].balance = report[r].balance
  <2>1. ASSUME NEW r \in Reports, NEW p, p = report[r]
        PROVE  LET v == [p EXCEPT !.user = None] IN
               /\ v \in Report /\ v.at = p.at /\ v.id = p.id /\ v.status = p.status
               /\ v.balance = p.balance
    BY <1>t, <2>1 DEF Report
  <2> QED
    BY <1>t, <1>2, <2>1
<1>5. \A r \in Reports : \/ report'[r] = report[r] /\ ~(s = None /\ r \in readers)
                         \/ report'[r].user = None
  BY <1>t, <1>2 DEF Report
<1>6. report' \in [Reports -> Report]
  BY <1>2, <1>4
<1>7. ChargedOnce' /\ ReportKnows' /\ ChargedAsReported'
  BY <1>k, <1>2, <1>4 DEF ChargedOnce, ReportKnows, ChargedAsReported, Logged
<1>8. /\ subscription'[u] = s /\ due'[u] = d
      /\ \A w \in Users \ {u} : subscription'[w] = subscription[w] /\ due'[w] = due[w]
      /\ \A w \in Users \ {u} : w \in overlapped' <=> w \in overlapped
  BY <1>t, <1>2
<1>9. s # None => s.balance \in Nat /\ s.balance = d
  BY <1>1, <1>n DEF Subscription
<1>10. NoOvercharge'
  BY <1>k, <1>8, <1>9 DEF NoOvercharge
<1>11. ReaderKnows'
  <2>1. ASSUME NEW r \in Reports, report'[r].at = "read", report'[r].user # None
        PROVE  /\ subscription'[report'[r].user] # None
               /\ report'[r].user \notin overlapped' => report'[r].balance >= due'[report'[r].user]
    <3>1. report'[r] = report[r] /\ ~(s = None /\ r \in readers)
      BY <1>5, <2>1
    <3>2. report[r].at = "read" /\ report[r].user \in Users
      BY <1>t, <2>1, <3>1 DEF Report
    <3>3. /\ subscription[report[r].user] # None
          /\ report[r].user \notin overlapped => report[r].balance >= due[report[r].user]
      BY <1>k, <2>1, <3>1 DEF ReaderKnows
    <3>4. CASE report[r].user = u
      <4>1. r \in readers /\ s # None
        BY <1>1, <3>1, <3>2, <3>4
      <4>2. u \in overlapped'
        BY <1>2, <4>1
      <4> QED
        BY <1>8, <3>1, <3>4, <4>1, <4>2
    <3>5. CASE report[r].user # u
      BY <1>8, <3>1, <3>2, <3>3, <3>5
    <3> QED
      BY <3>4, <3>5
  <2> QED
    BY <2>1 DEF ReaderKnows
<1>12. /\ subscription' \in [Users -> Subscription \cup {None}] /\ due' \in [Users -> Balances]
       /\ overlapped' \subseteq Users /\ credits' \in Nat
  BY <1>t, <1>2, <1>3
<1>13. TypeOK'
  BY <1>2, <1>6, <1>12 DEF IInv, TypeOK, sendVars, smppVars
<1>14. SendInv'
  BY <1>2 DEF IInv, SendInv, SubmittedOnce, RequestsHold, sendVars, smppVars
<1> QED
  BY <1>7, <1>10, <1>11, <1>13, <1>14 DEF IInv, DlrInv

LEMMA CrashInductive == IInv /\ Crash => IInv'
<1> SUFFICES ASSUME IInv, Crash PROVE IInv'
  OBVIOUS
<1>t. /\ report \in [Reports -> Report] /\ job \in [Jobs -> Job] /\ charges \in [Reports -> Nat]
      /\ submitted \in [Jobs -> Nat] /\ stalls \in [Jobs \cup Reports -> Nat] /\ crashes \in Nat
      /\ \A r \in Reports : report[r] \in Report
  BY DEF IInv, TypeOK
<1>k. ReportKnows /\ ChargedAsReported /\ ChargedOnce /\ SubmittedOnce /\ NoOvercharge
  BY DEF IInv, SendInv, DlrInv
<1>1. /\ crashes' = crashes + 1 /\ request' = [u \in Users |-> Idle]
      /\ job' = [j \in Jobs |-> IF j \in Sending THEN [at |-> AfterStall(j), id |-> None] ELSE job[j]]
      /\ report' = [r \in Reports |-> IF r \in Handling
                      THEN [report[r] EXCEPT !.at = AfterStall(r), !.user = None, !.balance = 0]
                      ELSE report[r]]
      /\ stalls' = [x \in Jobs \cup Reports |->
                      IF x \in Sending \cup Handling THEN stalls[x] + 1 ELSE stalls[x]]
      /\ UNCHANGED <<pending, failed, taken, status, submitted, charges, moneyVars>>
  BY DEF Crash
<1>2. \A x : AfterStall(x) \in {"queued", "over"}
  BY DEF AfterStall
<1>3. Sending \subseteq Jobs /\ Handling \subseteq Reports
  BY DEF Sending, Handling
<1>4. \A x \in Sending \cup Handling : stalls'[x] = stalls[x] + 1
  BY <1>1, <1>3
<1>5. \A x \in Jobs \ Sending : stalls'[x] = stalls[x]
  BY <1>1, <1>3, JobsAssumption
<1>6. \A x \in Reports \ Handling : stalls'[x] = stalls[x]
  BY <1>1, <1>3, JobsAssumption
<1>7. stalls' \in [Jobs \cup Reports -> Nat]
  <2>1. \A x \in Jobs \cup Reports : stalls[x] \in Nat /\ stalls[x] + 1 \in Nat
    BY <1>t
  <2> QED
    BY <1>1, <2>1
<1>8. \A j \in Sending : job'[j] \in Job /\ job'[j].at \in {"queued", "over"}
  <2>1. \A at \in {"queued", "over"} :
          [at |-> at, id |-> None] \in Job /\ [at |-> at, id |-> None].at = at
    BY DEF Job
  <2>2. \A j \in Sending : job'[j] = [at |-> AfterStall(j), id |-> None]
    BY <1>1, <1>3
  <2> QED
    BY <1>2, <2>1, <2>2
<1>9. \A j \in Jobs \ Sending : job'[j] = job[j]
  BY <1>1
<1>10. job' \in [Jobs -> Job]
  BY <1>t, <1>1, <1>8, <1>9
<1>11. SubmittedOnce'
  <2>1. ASSUME NEW j \in Jobs
        PROVE  submitted'[j] <= stalls'[j] + IF job'[j].at \in {"unused", "asked", "queued"} THEN 0 ELSE 1
    <3>1. /\ submitted[j] \in Nat /\ stalls[j] \in Nat /\ submitted' = submitted
          /\ submitted[j] <= stalls[j] + IF job[j].at \in {"unused", "asked", "queued"} THEN 0 ELSE 1
      BY <1>t, <1>1, <1>k DEF SubmittedOnce
    <3>2. CASE j \in Sending
      BY <1>4, <3>1, <3>2
    <3>3. CASE j \notin Sending
      BY <1>5, <1>9, <3>1, <3>3
    <3> QED
      BY <3>2, <3>3
  <2> QED
    BY <2>1 DEF SubmittedOnce
<1>12. request' \in [Users -> Request] /\ RequestsHold'
  BY <1>1 DEF Request, Idle, RequestsHold
<1>13. ASSUME NEW r \in Handling
       PROVE  /\ report'[r] \in Report /\ report'[r].at \in {"queued", "over"}
              /\ report'[r].id = report[r].id /\ report'[r].status = report[r].status
  <2>1. PICK p, at : p = report[r] /\ at = AfterStall(r)
    OBVIOUS
  <2>2. p \in Report /\ at \in {"queued", "over"}
    BY <1>t, <1>2, <1>3, <2>1
  <2>3. report'[r] = [p EXCEPT !.at = at, !.user = None, !.balance = 0]
    BY <1>1, <1>3, <2>1
  <2>4. 0 \in Balances
    BY BoundsAssumption DEF Balances
  <2>5. /\ [p EXCEPT !.at = at, !.user = None, !.balance = 0] \in Report
        /\ [p EXCEPT !.at = at, !.user = None, !.balance = 0].at = at
    BY <2>2, <2>4 DEF Report
  <2>6. /\ [p EXCEPT !.at = at, !.user = None, !.balance = 0].id = p.id
        /\ [p EXCEPT !.at = at, !.user = None, !.balance = 0].status = p.status
    BY <2>2 DEF Report
  <2> QED
    BY <2>1, <2>2, <2>3, <2>5, <2>6
<1>14. \A r \in Reports \ Handling : report'[r] = report[r]
  BY <1>1
<1>15. report' \in [Reports -> Report]
  BY <1>t, <1>1, <1>13, <1>14
<1>16. ChargedOnce'
  <2>1. ASSUME NEW r \in Reports
        PROVE  charges'[r] <= stalls'[r] + IF report'[r].at \in {"returned", "over"} THEN 1 ELSE 0
    <3>1. /\ charges[r] \in Nat /\ stalls[r] \in Nat /\ charges' = charges
          /\ charges[r] <= stalls[r] + IF report[r].at \in {"returned", "over"} THEN 1 ELSE 0
      BY <1>t, <1>1, <1>k DEF ChargedOnce
    <3>2. CASE r \in Handling
      BY <1>4, <3>1, <3>2
    <3>3. CASE r \notin Handling
      BY <1>6, <1>14, <3>1, <3>3
    <3> QED
      BY <3>2, <3>3
  <2> QED
    BY <2>1 DEF ChargedOnce
<1>17. \A r \in Reports : report'[r].id = report[r].id /\ report'[r].status = report[r].status
  BY <1>13, <1>14
<1>18. \A r \in Handling : report[r].at # "unused"
  BY DEF Handling
<1>19. ReportKnows'
  <2>1. ASSUME NEW r \in Reports
        PROVE  /\ report'[r].at # "unused" =>
                    report'[r].id \in MessageIds /\ report'[r].status \in {"DELIVERED", "FAILED"}
               /\ report'[r].at = "unused" => charges'[r] = 0
               /\ report'[r].at \in {"found", "billing", "read"} =>
                    report'[r].id # None /\ status'[report'[r].id] # None
               /\ report'[r].at \in {"billing", "read"} => report'[r].status = "DELIVERED"
    <3>1. CASE r \in Handling
      BY <1>k, <1>13, <1>18, <3>1 DEF ReportKnows
    <3>2. CASE r \notin Handling
      BY <1>k, <1>1, <1>14, <3>2 DEF ReportKnows, Logged
    <3> QED
      BY <3>1, <3>2
  <2> QED
    BY <2>1 DEF ReportKnows, Logged
<1>20. ChargedAsReported'
  BY <1>k, <1>1, <1>17 DEF ChargedAsReported, Logged
<1>21. \A r \in Reports : report'[r].at = "read" => FALSE
  <2>1. \A r \in Reports \ Handling : report[r].at # "read"
    BY DEF Handling
  <2> QED
    BY <1>13, <1>14, <2>1
<1>22. ReaderKnows' /\ NoOvercharge'
  BY <1>k, <1>1, <1>21 DEF ReaderKnows, NoOvercharge, moneyVars
<1>23. TypeOK'
  <2>1. UNCHANGED <<pending, failed, taken, status, submitted, charges, subscription, due, overlapped, credits>>
    BY <1>1 DEF moneyVars
  <2>2. crashes' \in Nat
    <3>1. crashes' = crashes + 1
      BY DEF Crash
    <3> QED
      BY <1>t, <3>1
  <2> QED
    BY <1>7, <1>10, <1>12, <1>15, <2>1, <2>2 DEF IInv, TypeOK
<1> QED
  BY <1>11, <1>12, <1>16, <1>19, <1>20, <1>22, <1>23 DEF IInv, SendInv, DlrInv

LEMMA IInvInductive == IInv /\ [Next]_vars => IInv'
<1> SUFFICES ASSUME IInv, [Next]_vars PROVE IInv'
  OBVIOUS
<1>1. CASE SendStep
  BY <1>1, SendInductive, SendKeepsDlrInv DEF IInv
<1>2. CASE DlrStep
  BY <1>2, DlrInductive
<1>3. ASSUME NEW u \in Users, NEW s \in Subscription \cup {None}, Administer(u, s) PROVE IInv'
  BY <1>3, AdministerInductive
<1>4. CASE Crash
  BY <1>4, CrashInductive
<1>5. CASE UNCHANGED vars
  BY <1>5 DEF IInv, TypeOK, SendInv, SubmittedOnce, RequestsHold, DlrInv, ChargedOnce, ReportKnows,
              ChargedAsReported, ReaderKnows, NoOvercharge, Logged, vars, sendVars, smppVars, dlrVars,
              moneyVars
<1> QED
  BY <1>1, <1>2, <1>3, <1>4, <1>5 DEF Next, SendStep, DlrStep

LEMMA SpecIInv == Spec => []IInv
BY InitIInv, IInvInductive, PTL DEF Spec

\* The rows, jobs, reports and balances of the SMS part keep their types: no
\* balance is negative, whatever the workers and the administrators do.
THEOREM SmsTypeCorrect == Spec => []TypeOK
<1>1. IInv => TypeOK
  BY DEF IInv
<1> QED
  BY SpecIInv, <1>1, PTL

\* Billing follows the reports: one submission of a number and one charge of a
\* report per run of their jobs, charges only for DELIVERED messages with a row,
\* and nobody charged more than that, whatever overlaps, crashes or is repeated.
THEOREM ReportsAreBilled == Spec => []BilledForReports
<1>1. IInv => OncePerRun
  <2> SUFFICES ASSUME IInv PROVE OncePerRun
    OBVIOUS
  <2>1. ASSUME NEW j \in Jobs PROVE submitted[j] <= 1 + stalls[j]
    <3>1. submitted[j] \in Nat /\ stalls[j] \in Nat
      BY DEF IInv, TypeOK
    <3> QED
      BY <3>1 DEF IInv, SendInv, SubmittedOnce
  <2>2. ASSUME NEW r \in Reports PROVE charges[r] <= 1 + stalls[r]
    <3>1. charges[r] \in Nat /\ stalls[r] \in Nat
      BY DEF IInv, TypeOK
    <3> QED
      BY <3>1 DEF IInv, DlrInv, ChargedOnce
  <2> QED
    BY <2>1, <2>2 DEF OncePerRun
<1>2. IInv => BilledForReports
  BY <1>1 DEF IInv, DlrInv, BilledForReports
<1> QED
  BY SpecIInv, <1>2, PTL

-----------------------------------------------------------------------------
(***************************************************************************)
(* Crashes.  OncePerRun counts runs, and BullMQ bounds them: a job that is *)
(* active at a second crash is not run a third time.                       *)
(***************************************************************************)
JobRunsEnd ==
  \A j \in Jobs : stalls[j] <= 2 /\ (stalls[j] = 2 => job[j].at = "over") /\ submitted[j] <= 2

ReportRunsEnd ==
  \A r \in Reports : stalls[r] <= 2 /\ (stalls[r] = 2 => report[r].at = "over") /\ charges[r] <= 2

\* A step of one job, or none: it leaves an over job alone and submits only a job
\* that is queued.
LEMMA JobRunsStep ==
  ASSUME IInv, JobRunsEnd, NEW j \in Jobs, job[j].at # "over", stalls' = stalls,
         \A i \in Jobs \ {j} : job'[i] = job[i] \/ job[i].at # "over",
         \/ submitted' = submitted
         \/ submitted' = [submitted EXCEPT ![j] = @ + 1] /\ job[j].at = "queued"
  PROVE  JobRunsEnd'
<1>1. \A i \in Jobs : stalls[i] \in Nat /\ submitted[i] \in Nat
  BY DEF IInv, TypeOK
<1>2. ASSUME NEW i \in Jobs, stalls[i] = 2 PROVE job'[i].at = "over"
  BY <1>2 DEF JobRunsEnd
<1>3. ASSUME NEW i \in Jobs PROVE submitted'[i] <= 2
  <2>1. CASE submitted'[i] = submitted[i]
    BY <2>1 DEF JobRunsEnd
  <2>2. CASE i = j /\ job[j].at = "queued" /\ submitted'[j] = submitted[j] + 1
    <3>1. submitted[j] <= stalls[j] /\ stalls[j] <= 2 /\ stalls[j] # 2
      BY <1>1, <2>2 DEF IInv, SendInv, SubmittedOnce, JobRunsEnd
    <3> QED
      BY <1>1, <2>2, <3>1
  <2> QED
    BY <1>1, <2>1, <2>2 DEF IInv, TypeOK
<1> QED
  BY <1>2, <1>3 DEF JobRunsEnd

\* The same for a report.
LEMMA ReportRunsStep ==
  ASSUME IInv, ReportRunsEnd, NEW r \in Reports, report[r].at # "over", stalls' = stalls,
         \A q \in Reports \ {r} : report'[q] = report[q],
         \/ charges' = charges
         \/ charges' = [charges EXCEPT ![r] = @ + 1] /\ report[r].at = "read"
  PROVE  ReportRunsEnd'
<1>1. \A q \in Reports : stalls[q] \in Nat /\ charges[q] \in Nat
  BY DEF IInv, TypeOK
<1>2. ASSUME NEW q \in Reports, stalls[q] = 2 PROVE report'[q].at = "over"
  BY <1>2 DEF ReportRunsEnd
<1>3. ASSUME NEW q \in Reports PROVE charges'[q] <= 2
  <2>1. CASE charges'[q] = charges[q]
    BY <2>1 DEF ReportRunsEnd
  <2>2. CASE q = r /\ report[r].at = "read" /\ charges'[r] = charges[r] + 1
    <3>1. charges[r] <= stalls[r] /\ stalls[r] <= 2 /\ stalls[r] # 2
      BY <1>1, <2>2 DEF IInv, DlrInv, ChargedOnce, ReportRunsEnd
    <3> QED
      BY <1>1, <2>2, <3>1
  <2> QED
    BY <1>1, <2>1, <2>2 DEF IInv, TypeOK
<1> QED
  BY <1>2, <1>3 DEF ReportRunsEnd

LEMMA JobRunsInductive ==
  ASSUME IInv, JobRunsEnd, SendStep PROVE JobRunsEnd' /\ UNCHANGED <<report, charges, stalls>>
<1>0. UNCHANGED <<report, charges, stalls>>
  BY SendFrame DEF dlrVars
<1> USE DEF GoOn, JobAt
<1>1. ASSUME NEW u \in Users, NEW J \in SUBSET Jobs, Send(u, J) PROVE JobRunsEnd'
  <2>1. PICK j \in J : TRUE
    BY <1>1 DEF Send
  <2>2. job[j].at = "unused" /\ submitted' = submitted
    BY <1>1 DEF Send
  <2>3. \A i \in Jobs : job'[i] = job[i] \/ job[i].at # "over"
    BY <1>1 DEF Send
  <2> QED
    BY <1>0, <2>2, <2>3, JobRunsStep
<1>2. ASSUME NEW u \in Users, CreatePending(u) \/ QueueFails(u) PROVE JobRunsEnd'
  BY <1>0, <1>2 DEF CreatePending, QueueFails, smppVars, JobRunsEnd
<1>3. ASSUME NEW u \in Users, NEW j \in Jobs, QueueJob(u, j) PROVE JobRunsEnd'
  <2>1. job[j].at = "asked" /\ submitted' = submitted
    BY <1>3 DEF QueueJob, IInv, SendInv, RequestsHold
  <2>2. \A i \in Jobs \ {j} : job'[i] = job[i]
    BY <1>3 DEF QueueJob, IInv, TypeOK
  <2> QED
    BY <1>0, <2>1, <2>2, JobRunsStep
<1>4. ASSUME NEW j \in Jobs, NEW m \in MessageIds, Accepted(j, m) PROVE JobRunsEnd'
  BY <1>0, <1>4, JobRunsStep DEF Accepted, IInv, TypeOK
<1>5. ASSUME NEW j \in Jobs, Submit(j) PROVE JobRunsEnd'
  <2>1. /\ job[j].at = "queued" /\ \A i \in Jobs \ {j} : job'[i] = job[i]
        /\ submitted' = submitted \/ submitted' = [submitted EXCEPT ![j] = @ + 1]
    BY <1>5 DEF Submit, IInv, TypeOK
  <2> QED
    BY <1>0, <2>1, JobRunsStep
<1>6. ASSUME NEW j \in Jobs, \/ Refused(j) \/ LogSent(j) \/ LogFails(j) \/ Relog(j)
                             \/ RelogFails(j) \/ JobOver(j)
      PROVE  JobRunsEnd'
  <2>1. /\ job[j].at # "over" /\ \A i \in Jobs \ {j} : job'[i] = job[i]
        /\ submitted' = submitted
    BY <1>6 DEF Refused, LogSent, LogFails, Relog, RelogFails, JobOver, IInv, TypeOK
  <2> QED
    BY <1>0, <2>1, JobRunsStep
<1> QED
  BY <1>0, <1>1, <1>2, <1>3, <1>4, <1>5, <1>6 DEF SendStep

LEMMA ReportRunsInductive ==
  ASSUME IInv, ReportRunsEnd, DlrStep
  PROVE  ReportRunsEnd' /\ UNCHANGED <<job, submitted, stalls>>
<1> USE DEF ReportAt, smppVars, dlrVars, IInv, TypeOK
<1>1. ASSUME NEW r \in Reports, NEW m \in MessageIds, NEW s \in {"DELIVERED", "FAILED"}, Deliver(r, m, s)
      PROVE  ReportRunsEnd' /\ UNCHANGED <<job, submitted, stalls>>
  BY <1>1, ReportRunsStep DEF Deliver
<1>2. ASSUME NEW r \in Reports, NEW u \in Users, ReadBalance(r, u)
      PROVE  ReportRunsEnd' /\ UNCHANGED <<job, submitted, stalls>>
  BY <1>2, ReportRunsStep DEF ReadBalance
<1>3. ASSUME NEW r \in Reports, FindRow(r) \/ SetStatus(r) \/ NoSubscription(r)
                                \/ ReportFails(r) \/ ReportOver(r)
      PROVE  ReportRunsEnd' /\ UNCHANGED <<job, submitted, stalls>>
  <2>1. /\ report[r].at # "over" /\ \A q \in Reports \ {r} : report'[q] = report[q]
        /\ UNCHANGED <<charges, job, submitted, stalls>>
    BY <1>3 DEF FindRow, SetStatus, NoSubscription, ReportFails, ReportOver, Handling
  <2> QED
    BY <2>1, ReportRunsStep
<1>4. ASSUME NEW r \in Reports, WriteBalance(r)
      PROVE  ReportRunsEnd' /\ UNCHANGED <<job, submitted, stalls>>
  <2>1. /\ report[r].at = "read" /\ \A q \in Reports \ {r} : report'[q] = report[q]
        /\ charges' = [charges EXCEPT ![r] = @ + 1] /\ UNCHANGED <<job, submitted, stalls>>
    BY <1>4 DEF WriteBalance
  <2> QED
    BY <2>1, ReportRunsStep
<1> QED
  BY <1>1, <1>2, <1>3, <1>4 DEF DlrStep

\* At a crash an active job is queued again if it has not stalled before, and is
\* over if it has.
LEMMA CrashRuns ==
  ASSUME IInv, JobRunsEnd, ReportRunsEnd, Crash PROVE JobRunsEnd' /\ ReportRunsEnd'
<1>1. /\ stalls' = [x \in Jobs \cup Reports |->
                      IF x \in Sending \cup Handling THEN stalls[x] + 1 ELSE stalls[x]]
      /\ submitted' = submitted /\ charges' = charges
      /\ \A x \in Jobs \cup Reports : stalls[x] \in Nat
  BY DEF Crash, IInv, TypeOK
<1>2. Sending \subseteq Jobs /\ Handling \subseteq Reports /\ Jobs \cap Reports = {}
  BY JobsAssumption DEF Sending, Handling
<1>3. ASSUME NEW j \in Jobs
      PROVE  stalls'[j] <= 2 /\ (stalls'[j] = 2 => job'[j].at = "over") /\ submitted'[j] <= 2
  <2>1. CASE j \in Sending
    <3>1. stalls'[j] = stalls[j] + 1 /\ stalls[j] \in {0, 1}
      BY <1>1, <1>2, <2>1 DEF JobRunsEnd, Sending
    <3>2. job'[j].at = AfterStall(j)
      BY <2>1 DEF Crash
    <3> QED
      BY <1>1, <3>1, <3>2 DEF AfterStall, JobRunsEnd
  <2>2. CASE j \notin Sending
    BY <1>1, <1>2, <2>2 DEF Crash, JobRunsEnd
  <2> QED
    BY <2>1, <2>2
<1>4. ASSUME NEW r \in Reports
      PROVE  stalls'[r] <= 2 /\ (stalls'[r] = 2 => report'[r].at = "over") /\ charges'[r] <= 2
  <2>1. CASE r \in Handling
    <3>1. stalls'[r] = stalls[r] + 1 /\ stalls[r] \in {0, 1}
      BY <1>1, <1>2, <2>1 DEF ReportRunsEnd, Handling
    <3>2. report'[r].at = AfterStall(r)
      BY <2>1 DEF Crash, IInv, TypeOK, Report
    <3> QED
      BY <1>1, <3>1, <3>2 DEF AfterStall, ReportRunsEnd
  <2>2. CASE r \notin Handling
    BY <1>1, <1>2, <2>2 DEF Crash, ReportRunsEnd
  <2> QED
    BY <2>1, <2>2
<1> QED
  BY <1>3, <1>4 DEF JobRunsEnd, ReportRunsEnd

\* However often the process dies, whatever workers and reports overlap: a number
\* is submitted, and a report charged, at most twice.
THEOREM AtMostTwice ==
  Spec => [](/\ \A j \in Jobs : submitted[j] <= 2
             /\ \A r \in Reports : charges[r] <= 2)
<1> DEFINE RunsEnd == JobRunsEnd /\ ReportRunsEnd
           Twice == /\ \A j \in Jobs : submitted[j] <= 2
                    /\ \A r \in Reports : charges[r] <= 2
<1>1. Init => RunsEnd
  BY DEF Init, JobRunsEnd, ReportRunsEnd
<1>2. IInv /\ RunsEnd /\ [Next]_vars => RunsEnd'
  <2> SUFFICES ASSUME IInv, JobRunsEnd, ReportRunsEnd, [Next]_vars
               PROVE  JobRunsEnd' /\ ReportRunsEnd'
    OBVIOUS
  <2>1. CASE SendStep
    BY <2>1, JobRunsInductive DEF ReportRunsEnd
  <2>2. CASE DlrStep
    BY <2>2, ReportRunsInductive DEF JobRunsEnd
  <2>3. ASSUME NEW u \in Users, NEW s \in Subscription \cup {None}, Administer(u, s)
        PROVE  JobRunsEnd' /\ ReportRunsEnd'
    <3>1. /\ UNCHANGED <<job, submitted, charges, stalls>>
          /\ \A r \in Reports : report'[r].at = report[r].at
      BY <2>3 DEF Administer, smppVars, IInv, TypeOK, Report
    <3> QED
      BY <3>1 DEF JobRunsEnd, ReportRunsEnd
  <2>4. CASE Crash
    BY <2>4, CrashRuns
  <2>5. CASE UNCHANGED vars
    BY <2>5 DEF vars, smppVars, dlrVars, JobRunsEnd, ReportRunsEnd
  <2> QED
    BY <2>1, <2>2, <2>3, <2>4, <2>5 DEF Next, SendStep, DlrStep
<1>3. RunsEnd => Twice
  BY DEF JobRunsEnd, ReportRunsEnd
<1> HIDE DEF RunsEnd, Twice
<1>4. Spec => []Twice
  BY <1>1, <1>2, <1>3, SpecIInv, PTL DEF Spec
<1> QED
  BY <1>4 DEF Twice

====
