-------------------------- MODULE BlastLoop_proofs --------------------------
(***************************************************************************)
(* Proofs about BlastLoop, for every number of loops, agents and leads and *)
(* every blast size.                                                       *)
(***************************************************************************)
EXTENDS BlastLoop, WellFoundedInduction, TLAPS

(***************************************************************************)
(* Type correctness.                                                       *)
(***************************************************************************)

\* What a loop's place says of its agent, its lead and its blast.
LoopOK(x) ==
  /\ pc[x] # "new" => agentOf[x] \in Agents
  /\ pc[x] \in {"locking", "dialing"} => lead[x] \in Leads
  /\ pc[x] \in {"finding", "locking", "dialing"} => left[x] > 0

LoopsOK == \A x \in Loops : LoopOK(x)

\* A blast has at least one iteration and at most MaxBlast.
LEMMA BlastSizeRange ==
  /\ \A n \in Nat : BlastSize(n) \in 0..MaxBlast
  /\ \A n \in Nat \ {0} : BlastSize(n) > 0
BY BlastAssumption DEF BlastSize

\* Next, taken apart: what a step may be.
LEMMA NextCases ==
  ASSUME [Next]_vars
  PROVE  \/ \E x \in Loops, a \in Agents : StartRequest(x, a)
         \/ \E x \in Loops : StartRefused(x)
         \/ \E x \in Loops : StartFlag(x)
         \/ \E x \in Loops : StartRunning(x)
         \/ \E a \in Agents : Stop(a)
         \/ \E a \in Agents : StopFlag(a)
         \/ \E x \in Loops : Enter(x)
         \/ \E x \in Loops : EnterStopped(x)
         \/ ListEndpoint
         \/ ListComplete
         \/ \E x \in Loops, l \in Leads : FindLead(x, l)
         \/ \E x \in Loops : NoLead(x)
         \/ \E x \in Loops : LockLead(x)
         \/ \E x \in Loops : Dial(x)
         \/ \E x \in Loops : NoSettings(x)
         \/ \E x \in Loops : AtCallLimit(x)
         \/ \E x \in Loops : Wake(x)
         \/ \E l \in Leads : LeadContacted(l)
         \/ \E l \in Leads : UpdateLead(l)
         \/ ConnectionLost
         \/ Restart
         \/ UNCHANGED vars
BY DEF Next, LoopStep, ListStep

LEMMA InitType == Init => TypeOK /\ LoopsOK
BY BlastAssumption DEF Init, TypeOK, LoopsOK, LoopOK

\* TypeOK is not inductive by itself: the agent, the lead and the iteration
\* count of a loop are there because of where the loop is.
LEMMA TypeInductive == TypeOK /\ LoopsOK /\ [Next]_vars => TypeOK' /\ LoopsOK'
<1> SUFFICES ASSUME TypeOK, LoopsOK, [Next]_vars PROVE TypeOK' /\ LoopsOK'
  OBVIOUS
<1> USE DEF TypeOK, LoopsOK, LoopOK, Step, db, ami
<1>1. ASSUME NEW x \in Loops, NEW a \in Agents, StartRequest(x, a) PROVE TypeOK' /\ LoopsOK'
  BY <1>1 DEF StartRequest
<1>2. ASSUME NEW x \in Loops, StartRefused(x) PROVE TypeOK' /\ LoopsOK'
  BY <1>2 DEF StartRefused
<1>3. ASSUME NEW x \in Loops, StartFlag(x) PROVE TypeOK' /\ LoopsOK'
  BY <1>3 DEF StartFlag
<1>4. ASSUME NEW x \in Loops, StartRunning(x) PROVE TypeOK' /\ LoopsOK'
  BY <1>4 DEF StartRunning
<1>5. ASSUME NEW a \in Agents, Stop(a) PROVE TypeOK' /\ LoopsOK'
  BY <1>5 DEF Stop
<1>6. ASSUME NEW a \in Agents, StopFlag(a) PROVE TypeOK' /\ LoopsOK'
  BY <1>6 DEF StopFlag
<1>7. ASSUME NEW x \in Loops, Enter(x) PROVE TypeOK' /\ LoopsOK'
  BY <1>7 DEF Enter, AskForList
<1>8. ASSUME NEW x \in Loops, EnterStopped(x) PROVE TypeOK' /\ LoopsOK'
  BY <1>8 DEF EnterStopped
<1>9. CASE ListEndpoint
  <2>1. PICK S \in SUBSET Listening :
          found' = [x \in Loops |-> IF x \in S THEN found[x] + 1 ELSE found[x]]
    BY <1>9 DEF ListEndpoint
  <2>2. found' \in [Loops -> Nat]
    BY <2>1
  <2>3. listed' \in 0..Endpoints
    BY <1>9, BlastAssumption DEF ListEndpoint
  <2> QED
    BY <1>9, <2>2, <2>3 DEF ListEndpoint
<1>10. CASE ListComplete
  BY <1>10, BlastSizeRange DEF ListComplete, Answered, Listening, AfterCount
<1>11. ASSUME NEW x \in Loops, NEW l \in Leads, FindLead(x, l) PROVE TypeOK' /\ LoopsOK'
  BY <1>11 DEF FindLead
<1>12. ASSUME NEW x \in Loops, NoLead(x) PROVE TypeOK' /\ LoopsOK'
  BY <1>12, BlastAssumption DEF NoLead
<1>13. ASSUME NEW x \in Loops, LockLead(x) PROVE TypeOK' /\ LoopsOK'
  BY <1>13 DEF LockLead, LockedWith
<1>14. ASSUME NEW x \in Loops, Dial(x) PROVE TypeOK' /\ LoopsOK'
  BY <1>14, BlastAssumption DEF Dial, LastCall
<1>15. ASSUME NEW x \in Loops, NoSettings(x) PROVE TypeOK' /\ LoopsOK'
  BY <1>15, BlastAssumption DEF NoSettings
<1>16. ASSUME NEW x \in Loops, AtCallLimit(x) PROVE TypeOK' /\ LoopsOK'
  BY <1>16, BlastAssumption DEF AtCallLimit
<1>17. ASSUME NEW x \in Loops, Wake(x) PROVE TypeOK' /\ LoopsOK'
  BY <1>17 DEF Wake
<1>18. ASSUME NEW l \in Leads, LeadContacted(l) \/ UpdateLead(l) PROVE TypeOK' /\ LoopsOK'
  BY <1>18 DEF LeadContacted, UpdateLead, Mark
<1>19. CASE Restart
  BY <1>19, BlastAssumption DEF Restart
<1>20. CASE ConnectionLost
  BY <1>20, BlastAssumption DEF ConnectionLost, Listening
<1>21. CASE UNCHANGED vars
  BY <1>21 DEF vars
<1> QED
  BY NextCases, <1>1, <1>2, <1>3, <1>4, <1>5, <1>6, <1>7, <1>8, <1>9, <1>10, <1>11, <1>12, <1>13, <1>14, <1>15, <1>16, <1>17, <1>18, <1>19, <1>20, <1>21

\* Init and every action give each variable a value of its type.
THEOREM TypeCorrect == Spec => [](TypeOK /\ LoopsOK)
<1> QED
  BY InitType, TypeInductive, PTL DEF Spec

(***************************************************************************)
(* Queries.  A query that listens has counted at most the endpoints of the *)
(* current list, because it ends with the first list that ends.            *)
(***************************************************************************)

CountFollowsList ==
  \A x \in Loops :
    /\ pc[x] = "counting" => x \in cutOff \/ found[x] <= listed
    /\ pc[x] # "counting" => found[x] = 0

LEMMA CountInductive ==
  TypeOK /\ CountFollowsList /\ [Next]_vars => CountFollowsList'
<1> SUFFICES ASSUME TypeOK, CountFollowsList, [Next]_vars PROVE CountFollowsList'
  OBVIOUS
<1> USE DEF TypeOK, CountFollowsList, Step, ami
<1>1. CASE ListEndpoint
  <2>1. PICK S \in SUBSET Listening :
          found' = [x \in Loops |-> IF x \in S THEN found[x] + 1 ELSE found[x]]
    BY <1>1 DEF ListEndpoint
  <2>2. listed' = listed + 1 /\ pc' = pc /\ cutOff' = cutOff
    BY <1>1 DEF ListEndpoint
  <2> QED
    BY <2>1, <2>2 DEF Listening
<1>2. CASE ListComplete
  <2>1. /\ found' = [x \in Loops |-> IF x \in Listening THEN 0 ELSE found[x]]
        /\ pc' = [x \in Loops |-> IF x \in Listening THEN AfterCount(found[x]) ELSE pc[x]]
        /\ cutOff' = cutOff \ Listening
    BY <1>2 DEF ListComplete, Answered
  <2> QED
    BY <2>1 DEF Listening, AfterCount
<1>3. CASE ConnectionLost
  BY <1>3 DEF ConnectionLost, Listening
<1>4. CASE Restart
  BY <1>4 DEF Restart
<1>5. ASSUME NEW x \in Loops, Enter(x) PROVE CountFollowsList'
  BY <1>5 DEF Enter, AskForList
<1>6. CASE ami' = ami /\ \A x \in Loops : (pc[x] = "counting") <=> (pc'[x] = "counting")
  BY <1>6
<1>7. \/ ListEndpoint \/ ListComplete \/ ConnectionLost \/ Restart
      \/ \E x \in Loops : Enter(x)
      \/ ami' = ami /\ \A x \in Loops : (pc[x] = "counting") <=> (pc'[x] = "counting")
  BY NextCases
  DEF StartRequest, StartRefused, StartFlag, StartRunning, Stop, StopFlag, EnterStopped, FindLead,
      NoLead, LockLead, Dial, NoSettings, AtCallLimit, Wake, LeadContacted, UpdateLead, Mark, vars
<1> QED
  BY <1>1, <1>2, <1>3, <1>4, <1>5, <1>6, <1>7

\* However the queries of several loops overlap on the one AMI connection, none
\* counts an agent twice, unless it has heard the lists of two connections.
THEOREM NobodyCountedTwice == Spec => []AgentsCountedOnce
<1>1. Init => CountFollowsList
  BY BlastAssumption DEF Init, CountFollowsList
<1>2. TypeOK /\ CountFollowsList => AgentsCountedOnce
  BY BlastAssumption DEF TypeOK, CountFollowsList, AgentsCountedOnce
<1> QED
  BY <1>1, <1>2, CountInductive, TypeCorrect, PTL DEF Spec

(***************************************************************************)
(* Locks.  What a loop has read or dialed is explained by the lock column: *)
(* a dialed lead is locked, and a lead about to be dialed was not when the *)
(* loop read it, so the loop has never dialed it.                          *)
(***************************************************************************)

DialedIsLocked == \A x \in Loops, l \in Leads : dials[x][l] > 0 => l \in locked

FreshLead == \A x \in Loops : pc[x] \in {"locking", "dialing"} => dials[x][lead[x]] = 0

DialingIsLocked == \A x \in Loops : pc[x] = "dialing" => lead[x] \in locked

\* A lead older than the one a loop has read is gone, or put aside, or was marked
\* since; and so the one it has read waits, or is locked, or was marked since.
LockingIsOldest ==
  \A x \in Loops : pc[x] = "locking" =>
    /\ \A m \in Leads : m < lead[x] => m \in locked \cup contacted \cup changed[x]
    /\ lead[x] \in contacted => lead[x] \in changed[x]

Locks ==
  DialedIsLocked /\ FreshLead /\ DialingIsLocked /\ LockingIsOldest /\ LoopNeverRedials

LEMMA InitLocks == Init => Locks
BY DEF Init, Locks, DialedIsLocked, FreshLead, DialingIsLocked, LockingIsOldest,
       LoopNeverRedials

LEMMA LocksInductive == TypeOK /\ LoopsOK /\ Locks /\ [Next]_vars => Locks'
<1> SUFFICES ASSUME TypeOK, LoopsOK, Locks, [Next]_vars PROVE Locks'
  OBVIOUS
<1> USE DEF TypeOK, LoopsOK, LoopOK, Step, db, ami
<1> USE DEF Locks, DialedIsLocked, FreshLead, DialingIsLocked, LockingIsOldest,
            LoopNeverRedials
<1>1. ASSUME NEW x \in Loops, NEW a \in Agents, StartRequest(x, a) PROVE Locks'
  BY <1>1 DEF StartRequest
<1>2. ASSUME NEW x \in Loops, StartRefused(x) PROVE Locks'
  BY <1>2 DEF StartRefused
<1>3. ASSUME NEW x \in Loops, StartFlag(x) PROVE Locks'
  BY <1>3 DEF StartFlag
<1>4. ASSUME NEW x \in Loops, StartRunning(x) PROVE Locks'
  BY <1>4 DEF StartRunning
<1>5. ASSUME NEW a \in Agents, Stop(a) PROVE Locks'
  BY <1>5 DEF Stop
<1>6. ASSUME NEW a \in Agents, StopFlag(a) PROVE Locks'
  BY <1>6 DEF StopFlag
<1>7. ASSUME NEW x \in Loops, Enter(x) PROVE Locks'
  BY <1>7 DEF Enter, AskForList
<1>8. ASSUME NEW x \in Loops, EnterStopped(x) PROVE Locks'
  BY <1>8 DEF EnterStopped
<1>9. CASE ListEndpoint
  BY <1>9 DEF ListEndpoint, Listening
<1>10. CASE ListComplete
  BY <1>10, BlastSizeRange DEF ListComplete, Answered, Listening, AfterCount
<1>11. ASSUME NEW x \in Loops, NEW l \in Leads, FindLead(x, l) PROVE Locks'
  BY <1>11, LeadsAssumption DEF FindLead, OldestWaiting, Waiting
<1>12. ASSUME NEW x \in Loops, NoLead(x) PROVE Locks'
  BY <1>12 DEF NoLead
<1>13. ASSUME NEW x \in Loops, LockLead(x) PROVE Locks'
  BY <1>13, LeadsAssumption DEF LockLead, LockedWith
<1>14. ASSUME NEW x \in Loops, Dial(x) PROVE Locks'
  BY <1>14 DEF Dial, LastCall
<1>15. ASSUME NEW x \in Loops, NoSettings(x) PROVE Locks'
  BY <1>15 DEF NoSettings
<1>16. ASSUME NEW x \in Loops, AtCallLimit(x) PROVE Locks'
  BY <1>16 DEF AtCallLimit
<1>17. ASSUME NEW x \in Loops, Wake(x) PROVE Locks'
  BY <1>17 DEF Wake
<1>18. ASSUME NEW l \in Leads, LeadContacted(l) \/ UpdateLead(l) PROVE Locks'
  BY <1>18 DEF LeadContacted, UpdateLead, Mark
<1>19. CASE Restart
  BY <1>19 DEF Restart
<1>20. CASE ConnectionLost
  BY <1>20 DEF ConnectionLost, Listening
<1>21. CASE UNCHANGED vars
  BY <1>21 DEF vars
<1> QED
  BY NextCases, <1>1, <1>2, <1>3, <1>4, <1>5, <1>6, <1>7, <1>8, <1>9, <1>10, <1>11, <1>12, <1>13, <1>14, <1>15, <1>16, <1>17, <1>18, <1>19, <1>20, <1>21

THEOREM LocksInvariant == Spec => []Locks
<1> QED
  BY InitLocks, LocksInductive, TypeCorrect, PTL DEF Spec

\* However often its timer re-arms it, a loop dials a lead at most once.
THEOREM NeverRedials == Spec => []LoopNeverRedials
<1>1. Locks => LoopNeverRedials
  BY DEF Locks
<1> QED
  BY <1>1, LocksInvariant, PTL

(***************************************************************************)
(* The loops implement LeadQueue: findFirst is its look and the update its *)
(* take, and what users and ended calls mark is put aside or back.         *)
(***************************************************************************)

Looking == {x \in Loops : pc[x] = "locking"}

LEMMA MarkStep ==
  ASSUME NEW l \in Leads, LeadContacted(l) \/ UpdateLead(l)
  PROVE  Queue!Change(l)
<1>1. contacted' = IF l \in contacted THEN contacted \ {l} ELSE contacted \cup {l}
  BY DEF LeadContacted, UpdateLead, Mark
<1>2. changed' = [x \in Loops |-> IF pc[x] = "locking" THEN changed[x] \cup {l} ELSE changed[x]]
  <2>1. (contacted \ contacted') \cup (contacted' \ contacted) = {l}
    BY <1>1
  <2> QED
    BY <2>1 DEF LeadContacted, UpdateLead, Mark
<1>3. pc' = pc /\ locked' = locked
  BY DEF LeadContacted, UpdateLead, Mark
<1> QED
  BY <1>1, <1>2, <1>3 DEF Queue!Change

LEMMA QueueStep == TypeOK /\ LoopsOK /\ Locks /\ [Next]_vars => [Queue!Next]_(Queue!queue)
<1> SUFFICES ASSUME TypeOK, LoopsOK, Locks, [Next]_vars PROVE [Queue!Next]_(Queue!queue)
  OBVIOUS
<1>1. ASSUME NEW x \in Loops, NEW l \in Leads, FindLead(x, l) PROVE Queue!Look(x)
  <2>1. pc[x] = "finding" /\ pc' = [pc EXCEPT ![x] = "locking"]
    BY <1>1 DEF FindLead, Step
  <2>2. Looking' = Looking \cup {x} /\ x \notin Looking
    BY <2>1 DEF Looking, TypeOK
  <2> QED
    BY <1>1, <2>2 DEF FindLead, Looking, Queue!Look, db
<1>2. ASSUME NEW x \in Loops, LockLead(x) PROVE Queue!Take(x, lead[x])
  <2>1. pc[x] = "locking" /\ pc' = [pc EXCEPT ![x] = "dialing"]
    BY <1>2 DEF LockLead, Step
  <2>2. Looking' = Looking \ {x} /\ x \in Looking
    BY <2>1 DEF Looking, TypeOK
  <2>3. /\ \A m \in Leads : m < lead[x] => m \in locked \cup contacted \cup changed[x]
        /\ lead[x] \in contacted => lead[x] \in changed[x]
    BY <2>1 DEF Locks, LockingIsOldest
  <2> QED
    BY <1>2, <2>2, <2>3 DEF LockLead, LockedWith, Looking, Queue!Take
<1>3. ASSUME Restart PROVE Queue!Forget
  <2>1. Looking' = {}
    BY <1>3 DEF Restart, Looking, TypeOK
  <2> QED
    BY <1>3, <2>1 DEF Restart, Looking, Queue!Forget, db
<1>4. CASE UNCHANGED <<locked, contacted, changed, Looking>>
  BY <1>4 DEF Queue!queue, Looking
<1>5. \/ \E x \in Loops, l \in Leads : FindLead(x, l)
      \/ \E x \in Loops : LockLead(x)
      \/ \E l \in Leads : LeadContacted(l) \/ UpdateLead(l)
      \/ Restart
      \/ UNCHANGED <<locked, contacted, changed, Looking>>
  BY NextCases
  DEF StartRequest, StartRefused, StartFlag, StartRunning, Stop, StopFlag, Enter, AskForList,
      EnterStopped, ListEndpoint, ListComplete, ConnectionLost, NoLead, Dial, NoSettings, AtCallLimit,
      Wake, Step, Answered, Listening, AfterCount, Looking, TypeOK, vars, db, ami
<1>6. ASSUME NEW x \in Loops, LockLead(x) PROVE \E l \in Leads : Queue!Take(x, l)
  <2>1. lead[x] \in Leads
    BY <1>6 DEF LockLead, Step, LoopsOK, LoopOK
  <2>2. PICK l \in Leads : l = lead[x]
    BY <2>1
  <2>3. Queue!Take(x, l)
    BY <1>2, <1>6, <2>2 DEF Queue!Take
  <2> QED
    BY <2>3
<1>7. (\E c \in Loops : Queue!Look(c) \/ \E l \in Leads : Queue!Take(c, l)) => Queue!Next
  BY DEF Queue!Next
<1>8. (\E l \in Leads : Queue!Change(l)) \/ Queue!Forget => Queue!Next
  BY DEF Queue!Next
<1> QED
  BY <1>1, <1>3, <1>4, <1>5, <1>6, <1>7, <1>8, MarkStep

\* However many loops race in nextLead and whatever users mark meanwhile, no lead
\* is taken while an older one waits, unless that one was marked between the two
\* queries of the loop that takes it; and no lead is ever given back.
THEOREM LoopsImplementQueue == Spec => HandedOutInOrder
<1>1. Init => Queue!Init
  BY DEF Init, Queue!Init
<1> QED
  BY <1>1, QueueStep, TypeCorrect, LocksInvariant, PTL DEF Spec, HandedOutInOrder, Queue!Spec

(***************************************************************************)
(* Running agents have a loop.                                             *)
(***************************************************************************)

\* The recorded timer of an agent belongs to a loop of that agent.
TimerIsOwn ==
  \A a \in Agents : agentTimers[a] # None =>
    agentOf[agentTimers[a]] = a /\ pc[agentTimers[a]] # "new"

LEMMA RunningInductive ==
  TypeOK /\ LoopsOK /\ TimerIsOwn /\ RunningHasLoop /\ [Next]_vars => TimerIsOwn' /\ RunningHasLoop'
<1> SUFFICES ASSUME TypeOK, LoopsOK, TimerIsOwn, RunningHasLoop, [Next]_vars
             PROVE  TimerIsOwn' /\ RunningHasLoop'
  OBVIOUS
<1> USE DEF TypeOK, LoopsOK, LoopOK, Step, db, ami, TimerIsOwn, RunningHasLoop, Active, CutOff
<1>1. ASSUME NEW x \in Loops, NEW a \in Agents, StartRequest(x, a) PROVE TimerIsOwn' /\ RunningHasLoop'
  BY <1>1, NoneAssumption DEF StartRequest
<1>2. ASSUME NEW x \in Loops, StartRefused(x) PROVE TimerIsOwn' /\ RunningHasLoop'
  BY <1>2 DEF StartRefused
<1>3. ASSUME NEW x \in Loops, StartFlag(x) PROVE TimerIsOwn' /\ RunningHasLoop'
  BY <1>3 DEF StartFlag
<1>4. ASSUME NEW x \in Loops, StartRunning(x) PROVE TimerIsOwn' /\ RunningHasLoop'
  BY <1>4 DEF StartRunning
<1>5. ASSUME NEW a \in Agents, Stop(a) PROVE TimerIsOwn' /\ RunningHasLoop'
  BY <1>5 DEF Stop
<1>6. ASSUME NEW a \in Agents, StopFlag(a) PROVE TimerIsOwn' /\ RunningHasLoop'
  BY <1>6 DEF StopFlag
<1>7. ASSUME NEW x \in Loops, Enter(x) PROVE TimerIsOwn' /\ RunningHasLoop'
  BY <1>7 DEF Enter, AskForList
<1>8. ASSUME NEW x \in Loops, EnterStopped(x) PROVE TimerIsOwn' /\ RunningHasLoop'
  BY <1>8 DEF EnterStopped
<1>9. CASE ListEndpoint
  BY <1>9 DEF ListEndpoint, Listening
<1>10. CASE ListComplete
  BY <1>10, BlastSizeRange DEF ListComplete, Answered, Listening, AfterCount
<1>11. ASSUME NEW x \in Loops, NEW l \in Leads, FindLead(x, l) PROVE TimerIsOwn' /\ RunningHasLoop'
  BY <1>11 DEF FindLead
<1>12. ASSUME NEW x \in Loops, NoLead(x) PROVE TimerIsOwn' /\ RunningHasLoop'
  BY <1>12 DEF NoLead
<1>13. ASSUME NEW x \in Loops, LockLead(x) PROVE TimerIsOwn' /\ RunningHasLoop'
  BY <1>13 DEF LockLead
<1>14. ASSUME NEW x \in Loops, Dial(x) PROVE TimerIsOwn' /\ RunningHasLoop'
  BY <1>14, NoneAssumption DEF Dial, LastCall
<1>15. ASSUME NEW x \in Loops, NoSettings(x) PROVE TimerIsOwn' /\ RunningHasLoop'
  BY <1>15 DEF NoSettings
<1>16. ASSUME NEW x \in Loops, AtCallLimit(x) PROVE TimerIsOwn' /\ RunningHasLoop'
  BY <1>16 DEF AtCallLimit
<1>17. ASSUME NEW x \in Loops, Wake(x) PROVE TimerIsOwn' /\ RunningHasLoop'
  BY <1>17 DEF Wake
<1>18. ASSUME NEW l \in Leads, LeadContacted(l) \/ UpdateLead(l) PROVE TimerIsOwn' /\ RunningHasLoop'
  BY <1>18 DEF LeadContacted, UpdateLead, Mark
<1>19. CASE Restart
  BY <1>19 DEF Restart
<1>20. CASE ConnectionLost
  BY <1>20 DEF ConnectionLost, Listening
<1>21. CASE UNCHANGED vars
  BY <1>21 DEF vars
<1> QED
  BY NextCases, <1>1, <1>2, <1>3, <1>4, <1>5, <1>6, <1>7, <1>8, <1>9, <1>10, <1>11, <1>12, <1>13, <1>14, <1>15, <1>16, <1>17, <1>18, <1>19, <1>20, <1>21

\* An agent that the dialer takes for running has a live loop, unless one of his
\* loops has run into callLimit.
THEOREM RunningAgentsHaveALoop == Spec => []RunningHasLoop
<1>1. Init => TimerIsOwn /\ RunningHasLoop
  BY DEF Init, TimerIsOwn, RunningHasLoop
<1> QED
  BY <1>1, RunningInductive, TypeCorrect, PTL DEF Spec

(***************************************************************************)
(* The order of the queue, as a state predicate.                           *)
(***************************************************************************)

\* Whoever has locked or read a lead younger than m has not passed m over.
NotPassedOver(m) ==
  /\ \A l \in locked : m < l => m \in locked \cup contacted
  /\ \A x \in Loops : pc[x] = "locking" /\ m < lead[x] => m \in locked \cup contacted

LEMMA NotPassedOverStep ==
  ASSUME NEW m \in Leads, TypeOK, LoopsOK, NotPassedOver(m), [Next]_vars,
         m \in contacted => m \in contacted'
  PROVE  NotPassedOver(m)'
<1> USE DEF NotPassedOver
<1>1. ASSUME NEW x \in Loops, NEW l \in Leads, FindLead(x, l) PROVE NotPassedOver(m)'
  <2>1. m < l => m \in locked \cup contacted
    BY <1>1, LeadsAssumption DEF FindLead, OldestWaiting, Waiting
  <2> QED
    BY <1>1, <2>1 DEF FindLead, Step, TypeOK, db
<1>2. ASSUME NEW x \in Loops, LockLead(x) PROVE NotPassedOver(m)'
  BY <1>2 DEF LockLead, LockedWith, Step, TypeOK
<1>3. ASSUME NEW l \in Leads, LeadContacted(l) \/ UpdateLead(l) PROVE NotPassedOver(m)'
  BY <1>3 DEF LeadContacted, UpdateLead, Mark
<1>4. ASSUME Restart PROVE NotPassedOver(m)'
  BY <1>4 DEF Restart, TypeOK, db
<1>5. ASSUME locked' = locked, contacted' = contacted,
             \A x \in Loops : pc'[x] = "locking" => pc[x] = "locking" /\ lead'[x] = lead[x]
      PROVE  NotPassedOver(m)'
  BY <1>5
<1>6. \/ \E x \in Loops, l \in Leads : FindLead(x, l)
      \/ \E x \in Loops : LockLead(x)
      \/ \E l \in Leads : LeadContacted(l) \/ UpdateLead(l)
      \/ Restart
      \/ /\ locked' = locked /\ contacted' = contacted
         /\ \A x \in Loops : pc'[x] = "locking" => pc[x] = "locking" /\ lead'[x] = lead[x]
  BY NextCases
  DEF StartRequest, StartRefused, StartFlag, StartRunning, Stop, StopFlag, Enter, AskForList,
      EnterStopped, ListEndpoint, ListComplete, ConnectionLost, NoLead, Dial, NoSettings, AtCallLimit,
      Wake, Step, Answered, Listening, AfterCount, TypeOK, vars, db, ami
<1> QED
  BY <1>1, <1>2, <1>3, <1>4, <1>5, <1>6

\* Nobody is passed over: a lead whose isContacted no request takes back is locked
\* or contacted before any younger lead is locked, although several loops may
\* have read the queue before any of them locked anything.
THEOREM NobodyPassedOver ==
  ASSUME NEW m \in Leads
  PROVE  Spec /\ [][(m \in contacted => m \in contacted')]_vars =>
           [](\A l \in locked : m < l => m \in locked \cup contacted)
<1>1. Init => NotPassedOver(m)
  BY DEF Init, NotPassedOver
<1>2. /\ TypeOK /\ LoopsOK /\ NotPassedOver(m) /\ [Next]_vars
      /\ [(m \in contacted => m \in contacted')]_vars
      => NotPassedOver(m)'
  BY NotPassedOverStep DEF vars, db
<1>3. NotPassedOver(m) => \A l \in locked : m < l => m \in locked \cup contacted
  BY DEF NotPassedOver
<1> QED
  BY <1>1, <1>2, <1>3, TypeCorrect, PTL DEF Spec

\* The queue has no dead end: findFirst finds nothing or exactly one lead, so a
\* loop that asks for a lead always goes on, with FindLead or with NoLead.
THEOREM NextLeadDecides == Waiting = {} \/ \E l \in Leads : OldestWaiting = {l}
<1> DEFINE R == OpToRel(<, Nat)
<1> SUFFICES ASSUME Waiting # {} PROVE \E l \in Leads : OldestWaiting = {l}
  OBVIOUS
<1>1. Waiting \subseteq Nat
  BY LeadsAssumption DEF Waiting
<1>2. IsWellFoundedOn(R, Nat)
  BY NatLessThanWellFounded
<1> HIDE DEF R
<1>3. PICK l \in Waiting : \A m \in Waiting : ~(<<m, l>> \in R)
  BY <1>1, <1>2, WFMin
<1>4. \A m \in Waiting : m < l => <<m, l>> \in R
  BY <1>1 DEF R, OpToRel
<1>5. \A m \in Waiting : l <= m
  <2> SUFFICES ASSUME NEW m \in Waiting PROVE l <= m
    OBVIOUS
  <2>1. ~(m < l)
    BY <1>3, <1>4
  <2>2. l \in Nat /\ m \in Nat
    BY <1>1
  <2> QED
    BY <2>1, <2>2
<1> QED
  BY <1>1, <1>5 DEF OldestWaiting, Waiting

(***************************************************************************)
(* A stopped loop runs down.                                               *)
(***************************************************************************)

\* The agent is not running, and no start request of the loop is under way.
Stopped(x) == agentOf[x] \notin agentRunning /\ pc[x] \notin {"new", "asked", "flagged"}

\* What a stopped loop has left to do: three steps for each call of its blast,
\* then the timer and the check that ends it.
ToDo(x) ==
  CASE pc[x] = "counting" -> 3 * MaxBlast + 3
    [] pc[x] = "finding" -> 3 * left[x] + 2
    [] pc[x] = "locking" -> 3 * left[x] + 1
    [] pc[x] = "dialing" -> 3 * left[x]
    [] pc[x] \in {"sleeping", "resting"} -> 2
    [] pc[x] = "entry" -> 1
    [] OTHER -> 0

\* The steps that are a loop's own turn: its timers and answers, and the end of a
\* list that it listens for.
Turn(x) == LoopStep(x) \/ (ListComplete /\ x \in Listening)

LEMMA ToDoRange ==
  ASSUME TypeOK, NEW x \in Loops PROVE ToDo(x) \in 0..(3 * MaxBlast + 3)
BY BlastAssumption DEF ToDo, TypeOK

\* A step of another loop leaves this one where it is.
LEMMA OthersWait ==
  ASSUME TypeOK, NEW x \in Loops, NEW y \in Loops, x # y,
         LoopStep(y) \/ StartRefused(y) \/ \E a \in Agents : StartRequest(y, a)
  PROVE  pc'[x] = pc[x] /\ left'[x] = left[x]
BY DEF LoopStep, StartFlag, StartRunning, Enter, AskForList, EnterStopped, FindLead, NoLead, LockLead,
       Dial, NoSettings, AtCallLimit, Wake, StartRefused, StartRequest, Step, TypeOK

\* A turn of a stopped loop does something that was left to do: it does not enter
\* a blast, since nobody is running.
LEMMA TurnLowersToDo ==
  ASSUME TypeOK, LoopsOK, NEW x \in Loops, Stopped(x), Turn(x)
  PROVE  ToDo(x)' < ToDo(x) /\ pc'[x] \notin {"new", "asked", "flagged"}
<1> USE BlastAssumption DEF TypeOK, LoopsOK, LoopOK, Step, ToDo, Stopped
<1>1. CASE EnterStopped(x)
  BY <1>1 DEF EnterStopped
<1>2. ASSUME NEW l \in Leads, FindLead(x, l) PROVE ToDo(x)' < ToDo(x) /\ pc'[x] = "locking"
  BY <1>2 DEF FindLead
<1>3. CASE NoLead(x)
  BY <1>3 DEF NoLead
<1>4. CASE LockLead(x)
  BY <1>4 DEF LockLead
<1>5. CASE Dial(x)
  BY <1>5 DEF Dial, LastCall
<1>6. CASE NoSettings(x)
  BY <1>6 DEF NoSettings
<1>7. CASE AtCallLimit(x)
  BY <1>7 DEF AtCallLimit
<1>8. CASE Wake(x)
  BY <1>8 DEF Wake
<1>9. CASE ListComplete /\ x \in Listening
  <2>1. pc[x] = "counting" /\ pc'[x] = AfterCount(found[x]) /\ left'[x] = BlastSize(found[x])
    BY <1>9 DEF ListComplete, Answered, Listening
  <2> QED
    BY <2>1, BlastSizeRange DEF AfterCount
<1>10. ~StartFlag(x) /\ ~StartRunning(x) /\ ~Enter(x)
  BY DEF StartFlag, StartRunning, Enter
<1> QED
  BY <1>1, <1>2, <1>3, <1>4, <1>5, <1>6, <1>7, <1>8, <1>9, <1>10 DEF Turn, LoopStep

\* What anybody else does, a stop and a restart among it, leaves a stopped loop
\* no more to do than it had.
LEMMA ToDoFalls ==
  ASSUME TypeOK, LoopsOK, NEW x \in Loops, Stopped(x), [Next]_vars, ~Turn(x)
  PROVE  ToDo(x)' <= ToDo(x) /\ pc'[x] \notin {"new", "asked", "flagged"}
<1>1. CASE pc'[x] = pc[x] /\ left'[x] = left[x]
  <2>1. ToDo(x)' = ToDo(x)
    BY <1>1 DEF ToDo
  <2> QED
    BY <1>1, <2>1, ToDoRange DEF Stopped
<1>2. CASE pc'[x] = "ended"
  <2>1. ToDo(x)' = 0
    BY <1>2 DEF ToDo
  <2> QED
    BY <1>2, <2>1, ToDoRange
<1>3. ASSUME NEW y \in Loops, LoopStep(y) \/ StartRefused(y) \/ \E a \in Agents : StartRequest(y, a)
      PROVE  pc'[x] = pc[x] /\ left'[x] = left[x]
  <2>1. y # x
    BY <1>3 DEF Turn, Stopped, StartRefused, StartRequest, Step
  <2> QED
    BY <1>3, <2>1, OthersWait
<1>4. ASSUME NEW a \in Agents, Stop(a)
      PROVE  (pc'[x] = pc[x] \/ pc'[x] = "ended") /\ left'[x] = left[x]
  BY <1>4 DEF Stop, TypeOK
<1>5. ASSUME ListComplete PROVE pc'[x] = pc[x] /\ left'[x] = left[x]
  BY <1>5 DEF ListComplete, Answered, Turn, TypeOK
<1>6. ASSUME Restart PROVE pc'[x] = "ended"
  BY <1>6 DEF Restart, Stopped, TypeOK
<1>7. ASSUME \/ ListEndpoint \/ ConnectionLost \/ UNCHANGED vars
             \/ \E a \in Agents : StopFlag(a)
             \/ \E l \in Leads : LeadContacted(l) \/ UpdateLead(l)
      PROVE  pc'[x] = pc[x] /\ left'[x] = left[x]
  BY <1>7 DEF ListEndpoint, ConnectionLost, StopFlag, LeadContacted, UpdateLead, Mark, vars
<1> QED
  BY <1>1, <1>2, <1>3, <1>4, <1>5, <1>6, <1>7 DEF Next, ListStep

\* A stopped loop cannot go on for ever: what it has left to do is at most 3 *
\* MaxBlast + 3 steps, each of its turns lowers that, and nothing anybody does
\* raises it as long as the agent is not started again.  It is the part of
\* StoppedDrains that does not need fairness: a stopped agent's loop still makes
\* the calls of its blast, then its timer finds that nobody is running.
THEOREM StoppedLoopsRunDown ==
  Spec => [][\A x \in Loops : Stopped(x) =>
               /\ ToDo(x) \in 0..(3 * MaxBlast + 3)
               /\ ToDo(x)' <= ToDo(x)
               /\ Turn(x) => ToDo(x)' < ToDo(x)
               /\ agentOf'[x] \notin agentRunning' => Stopped(x)']_vars
<1>1. TypeOK /\ LoopsOK /\ TypeOK' /\ [Next]_vars =>
        [\A x \in Loops : Stopped(x) =>
           /\ ToDo(x) \in 0..(3 * MaxBlast + 3)
           /\ ToDo(x)' <= ToDo(x)
           /\ Turn(x) => ToDo(x)' < ToDo(x)
           /\ agentOf'[x] \notin agentRunning' => Stopped(x)']_vars
  <2> SUFFICES ASSUME TypeOK, LoopsOK, TypeOK', [Next]_vars, NEW x \in Loops, Stopped(x)
               PROVE  /\ ToDo(x) \in 0..(3 * MaxBlast + 3)
                      /\ ToDo(x)' <= ToDo(x)
                      /\ Turn(x) => ToDo(x)' < ToDo(x)
                      /\ agentOf'[x] \notin agentRunning' => Stopped(x)'
    OBVIOUS
  <2>1. ToDo(x) \in Nat /\ ToDo(x)' \in Nat /\ ToDo(x) \in 0..(3 * MaxBlast + 3)
    BY ToDoRange, BlastAssumption DEF TypeOK, ToDo
  <2>2. /\ ToDo(x)' <= ToDo(x)
        /\ Turn(x) => ToDo(x)' < ToDo(x)
        /\ pc'[x] \notin {"new", "asked", "flagged"}
    BY <2>1, TurnLowersToDo, ToDoFalls
  <2> QED
    BY <2>1, <2>2 DEF Stopped
<1> QED
  BY <1>1, TypeCorrect, PTL DEF Spec

====
