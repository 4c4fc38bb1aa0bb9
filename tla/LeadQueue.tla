------------------------------ MODULE LeadQueue ------------------------------
(***************************************************************************)
(* What CustomerCrmService.nextLead promises its callers.  A caller looks  *)
(* at the queue and then takes a lead of it.  Users of the CRM put leads   *)
(* aside and back at any time, and between look and take a caller misses   *)
(* it.  For what did not change behind his back the queue is in order: no  *)
(* lead that waits is older than the one he takes, and that one waits too, *)
(* unless another caller has taken it.  A lead is taken for ever.          *)
(***************************************************************************)
EXTENDS Naturals

CONSTANTS
  Leads,    \* numbered in the order of createdAt
  Callers

VARIABLES
  taken,
  aside,    \* the leads that are not to be called
  looking,  \* the callers between look and take
  missed    \* the leads put aside or back since each of them looked

queue == <<taken, aside, looking, missed>>

Init ==
  /\ taken = {}
  /\ aside \subseteq Leads
  /\ looking = {}
  /\ missed = [c \in Callers |-> {}]

Look(c) ==
  /\ c \notin looking
  /\ looking' = looking \cup {c}
  /\ UNCHANGED <<taken, aside, missed>>

Take(c, l) ==
  /\ c \in looking
  /\ \A m \in Leads : m < l => m \in taken \cup aside \cup missed[c]
  /\ l \in aside => l \in missed[c]
  /\ taken' = taken \cup {l}
  /\ looking' = looking \ {c}
  /\ missed' = [missed EXCEPT ![c] = {}]
  /\ UNCHANGED aside

\* A lead is put aside or back, behind the back of those who have looked.
Change(l) ==
  /\ aside' = IF l \in aside THEN aside \ {l} ELSE aside \cup {l}
  /\ missed' = [c \in Callers |-> IF c \in looking THEN missed[c] \cup {l} ELSE missed[c]]
  /\ UNCHANGED <<taken, looking>>

\* Every caller is gone.
Forget ==
  /\ looking' = {}
  /\ missed' = [c \in Callers |-> {}]
  /\ UNCHANGED <<taken, aside>>

Next ==
  \/ \E c \in Callers : Look(c) \/ \E l \in Leads : Take(c, l)
  \/ \E l \in Leads : Change(l)
  \/ Forget

Spec == Init /\ [][Next]_queue

====
