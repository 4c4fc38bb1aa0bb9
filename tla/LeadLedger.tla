----------------------------- MODULE LeadLedger -----------------------------
(***************************************************************************)
(* What the CRM may expect of the dialer: how the record of a lead relates *)
(* to the calls made to it.  A record is closed only after a call to the   *)
(* lead has ended, stays closed, and never says "Answered" if no agent     *)
(* talked to the lead; a call that could not be placed is noted, which     *)
(* neither closes nor reopens a record.  Handlers, channels and call logs  *)
(* are not mentioned.                                                      *)
(***************************************************************************)
CONSTANT Leads

VARIABLES
  dialed,  \* the leads that have been called
  talked,  \* the leads an agent was joined with
  ended,   \* the leads with a call that has ended
  record   \* DB: [contactStatus, isContacted] of each lead

ledger == <<dialed, talked, ended, record>>

Init ==
  /\ dialed = {} /\ talked = {} /\ ended = {}
  /\ record = [l \in Leads |-> [contactStatus |-> "New", isContacted |-> FALSE]]

Dial(l) ==
  /\ l \notin dialed
  /\ dialed' = dialed \cup {l}
  /\ UNCHANGED <<talked, ended, record>>

Talk(l) ==
  /\ l \in dialed
  /\ talked' = talked \cup {l}
  /\ UNCHANGED <<dialed, ended, record>>

End(l) ==
  /\ l \in dialed
  /\ ended' = ended \cup {l}
  /\ UNCHANGED <<dialed, talked, record>>

NoteError(l) ==
  /\ l \in dialed
  /\ record' = [record EXCEPT ![l].contactStatus = "INTERNAL_ERROR"]
  /\ UNCHANGED <<dialed, talked, ended>>

Close(l, status) ==
  /\ l \in ended
  /\ status = "Answered" => l \in talked
  /\ record' = [record EXCEPT ![l] = [contactStatus |-> status, isContacted |-> TRUE]]
  /\ UNCHANGED <<dialed, talked, ended>>

Next ==
  \E l \in Leads :
    \/ Dial(l) \/ Talk(l) \/ End(l) \/ NoteError(l)
    \/ \E status \in {"Answered", "No Answer", "Busy", "Failed"} : Close(l, status)

Spec == Init /\ [][Next]_ledger

====
