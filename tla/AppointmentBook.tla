--------------------------- MODULE AppointmentBook ---------------------------
(***************************************************************************)
(* The tables behind CustomerCrmService and CompanyMembersService:         *)
(* appointment statuses, appointments, leads, members and services, with   *)
(* the foreign keys of the schema.                                         *)
(*                                                                         *)
(* A request on a status is several queries with no transaction around     *)
(* them, and requests interleave between two queries.  Every other request *)
(* has one query that matters: a lookup before it only turns "the row is   *)
(* gone" into another error, and is not modelled.  A query that the        *)
(* database refuses ends its request and leaves the earlier ones done.     *)
(***************************************************************************)
CONSTANTS
  Clients,    \* requests in flight at the same time
  CompanyOf,  \* the systemCompanyId of each client's user
  Statuses, Appointments, Leads, Members, Services,  \* ids, each used once
  None        \* null

ASSUME NoneAssumption == None \notin Clients \cup Statuses \cup Leads

VARIABLES
  status,        \* CRMAppointmentStatus: [row, company, isDefault]
  appointment,   \* CRMAppointment: [row, status, member, lead]
  lead,          \* CRMLeads
  member,        \* CompanyMembers
  service,       \* Services: [row, lead]
  request,       \* where each client's request on a status is
  madeDefaultBy, \* history: the request that last made a status the default
  chosen         \* history: the status a user last gave an appointment

vars == <<status, appointment, lead, member, service, request, madeDefaultBy, chosen>>

Row == {"unused", "live", "deleted"}

Idle == [at |-> "idle", id |-> None, found |-> None]

\* A deleted row keeps no columns.
DeletedStatus == [row |-> "deleted", company |-> None, isDefault |-> FALSE]

DeletedAppointment == [row |-> "deleted", status |-> None, member |-> None, lead |-> None]

DeletedService == [row |-> "deleted", lead |-> None]

StatusRow == [row: Row, company: {CompanyOf[r] : r \in Clients} \cup {None}, isDefault: BOOLEAN]

AppointmentRow == [row: Row, status: Statuses \cup {None}, member: Members \cup {None},
                   lead: Leads \cup {None}]

ServiceRow == [row: Row, lead: Leads \cup {None}]

Request == [at: {"idle", "creating", "updating", "moving", "deleting"},
            id: Statuses \cup {None}, found: Statuses \cup {None}]

TypeOK ==
  /\ status \in [Statuses -> StatusRow]
  /\ appointment \in [Appointments -> AppointmentRow]
  /\ lead \in [Leads -> Row]
  /\ member \in [Members -> Row]
  /\ service \in [Services -> ServiceRow]
  /\ request \in [Clients -> Request]
  /\ madeDefaultBy \in [Statuses -> Clients \cup {None}]
  /\ chosen \in [Appointments -> Statuses \cup {None}]

Init ==
  /\ status = [s \in Statuses |-> [row |-> "unused", company |-> None, isDefault |-> FALSE]]
  /\ appointment = [a \in Appointments |->
                      [row |-> "unused", status |-> None, member |-> None, lead |-> None]]
  /\ lead = [l \in Leads |-> "unused"]
  /\ member = [m \in Members |-> "unused"]
  /\ service = [v \in Services |-> [row |-> "unused", lead |-> None]]
  /\ request = [r \in Clients |-> Idle]
  /\ madeDefaultBy = [s \in Statuses |-> None]
  /\ chosen = [a \in Appointments |-> None]

-----------------------------------------------------------------------------
(***************************************************************************)
(* Helpers.  An operator called Bad... is a plausible mistake in the one   *)
(* below it and no part of the specification.                              *)
(***************************************************************************)
LiveStatuses == {s \in Statuses : status[s].row = "live"}

LiveLeads == {l \in Leads : lead[l] = "live"}

LiveMembers == {m \in Members : member[m] = "live"}

LiveServices == {v \in Services : service[v].row = "live"}

Defaults == {s \in LiveStatuses : status[s].isDefault}

\* The live appointments with status s.
Having(s) == {a \in Appointments : appointment[a].row = "live" /\ appointment[a].status = s}

\* The row of a new status: the company comes from the request's user.
BadNewStatus(r, isDefault) == [row |-> "live", company |-> r, isDefault |-> isDefault]

NewStatus(r, isDefault) == [row |-> "live", company |-> CompanyOf[r], isDefault |-> isDefault]

\* updateMany where isDefault, NOT id: in every company.
BadCleared(r, id) ==
  [s \in Statuses |-> IF s = id \/ status[s].company # CompanyOf[r] THEN status[s]
                      ELSE [status[s] EXCEPT !.isDefault = FALSE]]

Cleared(r, id) ==
  [s \in Statuses |-> IF s = id THEN status[s]
                      ELSE [status[s] EXCEPT !.isDefault = FALSE]]

\* What findFirst may return for the default that takes over from id.
BadTakesOver(id) == LiveStatuses \ {id}

TakesOver(id) == Defaults \ {id}

GoTo(r, at, id, found) ==
  request' = [request EXCEPT ![r] = [at |-> at, id |-> id, found |-> found]]

Done(r) == request' = [request EXCEPT ![r] = Idle]

-----------------------------------------------------------------------------
(***************************************************************************)
(* createStatus                                                            *)
(***************************************************************************)
CreateStatus(r, s) ==
  /\ request[r].at = "idle"
  /\ status[s].row = "unused"
  /\ status' = [status EXCEPT ![s] = NewStatus(r, FALSE)]
  /\ UNCHANGED <<appointment, lead, member, service, request, madeDefaultBy, chosen>>

ClearToCreate(r) ==
  /\ request[r].at = "idle"
  /\ status' = Cleared(r, None)
  /\ GoTo(r, "creating", None, None)
  /\ UNCHANGED <<appointment, lead, member, service, madeDefaultBy, chosen>>

CreateDefault(r, s) ==
  /\ request[r].at = "creating"
  /\ status[s].row = "unused"
  /\ status' = [status EXCEPT ![s] = NewStatus(r, TRUE)]
  /\ madeDefaultBy' = [madeDefaultBy EXCEPT ![s] = r]
  /\ Done(r)
  /\ UNCHANGED <<appointment, lead, member, service, chosen>>

(***************************************************************************)
(* updateStatus: the id comes from the client's list, and may be stale.    *)
(***************************************************************************)
UpdateStatus(r, s) ==
  /\ request[r].at = "idle"
  /\ s \in LiveStatuses
  /\ status' = [status EXCEPT ![s].isDefault = FALSE]
  /\ UNCHANGED <<appointment, lead, member, service, request, madeDefaultBy, chosen>>

ClearToUpdate(r, s) ==
  /\ request[r].at = "idle"
  /\ status[s].row # "unused"
  /\ status' = Cleared(r, s)
  /\ GoTo(r, "updating", s, None)
  /\ UNCHANGED <<appointment, lead, member, service, madeDefaultBy, chosen>>

MakeDefault(r) ==
  /\ request[r].at = "updating"
  /\ request[r].id \in LiveStatuses
  /\ status' = [status EXCEPT ![request[r].id].isDefault = TRUE]
  /\ madeDefaultBy' = [madeDefaultBy EXCEPT ![request[r].id] = r]
  /\ Done(r)
  /\ UNCHANGED <<appointment, lead, member, service, chosen>>

(***************************************************************************)
(* deleteStatus: look for another default; with one, move the appointments *)
(* to it, with none, go on only if there are none; then delete.            *)
(***************************************************************************)
FindDefault(r, s) ==
  /\ request[r].at = "idle"
  /\ status[s].row # "unused"
  /\ \/ \E d \in TakesOver(s) : GoTo(r, "moving", s, d)
     \/ TakesOver(s) = {} /\ GoTo(r, "moving", s, None)
  /\ UNCHANGED <<status, appointment, lead, member, service, madeDefaultBy, chosen>>

CountAppointments(r) ==
  /\ request[r].at = "moving"
  /\ request[r].found = None
  /\ IF Having(request[r].id) = {} THEN GoTo(r, "deleting", request[r].id, None) ELSE Done(r)
  /\ UNCHANGED <<status, appointment, lead, member, service, madeDefaultBy, chosen>>

\* The foreign key refuses the update if the default has been deleted.
MoveAppointments(r) ==
  LET id == request[r].id
      found == request[r].found
  IN
  /\ request[r].at = "moving"
  /\ found # None
  /\ found \in LiveStatuses \/ Having(id) = {}
  /\ appointment' = [a \in Appointments |->
                       IF a \in Having(id) THEN [appointment[a] EXCEPT !.status = found]
                       ELSE appointment[a]]
  /\ GoTo(r, "deleting", id, found)
  /\ UNCHANGED <<status, lead, member, service, madeDefaultBy, chosen>>

\* The foreign key refuses the delete if an appointment has the status.
BadDeleteStatus(r) ==
  /\ request[r].at = "deleting"
  /\ request[r].id \in LiveStatuses
  /\ status' = [status EXCEPT ![request[r].id] = DeletedStatus]
  /\ madeDefaultBy' = [madeDefaultBy EXCEPT ![request[r].id] = None]
  /\ Done(r)
  /\ UNCHANGED <<appointment, lead, member, service, chosen>>

DeleteStatus(r) ==
  /\ request[r].at = "deleting"
  /\ request[r].id \in LiveStatuses
  /\ Having(request[r].id) = {}
  /\ status' = [status EXCEPT ![request[r].id] = DeletedStatus]
  /\ madeDefaultBy' = [madeDefaultBy EXCEPT ![request[r].id] = None]
  /\ Done(r)
  /\ UNCHANGED <<appointment, lead, member, service, chosen>>

\* The next query of the request is refused by the database, or fails.
QueryRejected(r) ==
  /\ request[r].at # "idle"
  /\ Done(r)
  /\ UNCHANGED <<status, appointment, lead, member, service, madeDefaultBy, chosen>>

-----------------------------------------------------------------------------
(***************************************************************************)
(* Appointments                                                            *)
(***************************************************************************)
CreateAppointment(a, s, m, l) ==
  /\ appointment[a].row = "unused"
  /\ s \in LiveStatuses /\ m \in LiveMembers /\ l \in LiveLeads \cup {None}
  /\ appointment' = [appointment EXCEPT ![a] =
                       [row |-> "live", status |-> s, member |-> m, lead |-> l]]
  /\ chosen' = [chosen EXCEPT ![a] = s]
  /\ UNCHANGED <<status, lead, member, service, request, madeDefaultBy>>

\* A dto without a status leaves it alone, one with cRMLeadsId null clears it.
UpdateAppointment(a, l) ==
  /\ appointment[a].row = "live"
  /\ l \in LiveLeads \cup {None}
  /\ \/ /\ appointment' = [appointment EXCEPT ![a].lead = l]
        /\ UNCHANGED chosen
     \/ \E s \in LiveStatuses :
          /\ appointment' = [appointment EXCEPT ![a].lead = l, ![a].status = s]
          /\ chosen' = [chosen EXCEPT ![a] = s]
  /\ UNCHANGED <<status, lead, member, service, request, madeDefaultBy>>

DeleteAppointment(a) ==
  /\ appointment[a].row = "live"
  /\ appointment' = [appointment EXCEPT ![a] = DeletedAppointment]
  /\ chosen' = [chosen EXCEPT ![a] = None]
  /\ UNCHANGED <<status, lead, member, service, request, madeDefaultBy>>

(***************************************************************************)
(* Leads.  A service has one lead: connecting it takes it from another.    *)
(***************************************************************************)
CreateLead(l, serviceIds) ==
  /\ lead[l] = "unused"
  /\ serviceIds \subseteq LiveServices
  /\ lead' = [lead EXCEPT ![l] = "live"]
  /\ service' = [v \in Services |-> IF v \in serviceIds THEN [service[v] EXCEPT !.lead = l]
                                    ELSE service[v]]
  /\ UNCHANGED <<status, appointment, member, request, madeDefaultBy, chosen>>

\* ON DELETE SET NULL in appointments and services.
BadDeleteLead(l) ==
  /\ l \in LiveLeads
  /\ lead' = [lead EXCEPT ![l] = "deleted"]
  /\ UNCHANGED <<status, appointment, member, service, request, madeDefaultBy, chosen>>

DeleteLead(l) ==
  /\ l \in LiveLeads
  /\ lead' = [lead EXCEPT ![l] = "deleted"]
  /\ appointment' = [a \in Appointments |->
                       [appointment[a] EXCEPT !.lead = IF @ = l THEN None ELSE @]]
  /\ service' = [v \in Services |-> [service[v] EXCEPT !.lead = IF @ = l THEN None ELSE @]]
  /\ UNCHANGED <<status, member, request, madeDefaultBy, chosen>>

(***************************************************************************)
(* Members and services                                                    *)
(***************************************************************************)
CreateMember(m) ==
  /\ member[m] = "unused"
  /\ member' = [member EXCEPT ![m] = "live"]
  /\ UNCHANGED <<status, appointment, lead, service, request, madeDefaultBy, chosen>>

\* P2003, "Cannot delete: member is referenced by appointments".
RemoveMember(m) ==
  /\ m \in LiveMembers
  /\ \A a \in Appointments : appointment[a].row = "live" => appointment[a].member # m
  /\ member' = [member EXCEPT ![m] = "deleted"]
  /\ UNCHANGED <<status, appointment, lead, service, request, madeDefaultBy, chosen>>

CreateService(v) ==
  /\ service[v].row = "unused"
  /\ service' = [service EXCEPT ![v] = [row |-> "live", lead |-> None]]
  /\ UNCHANGED <<status, appointment, lead, member, request, madeDefaultBy, chosen>>

RemoveService(v) ==
  /\ v \in LiveServices
  /\ service' = [service EXCEPT ![v] = DeletedService]
  /\ UNCHANGED <<status, appointment, lead, member, request, madeDefaultBy, chosen>>

StatusRequest(r) ==
  \/ \E s \in Statuses : \/ CreateStatus(r, s) \/ CreateDefault(r, s) \/ UpdateStatus(r, s)
                         \/ ClearToUpdate(r, s) \/ FindDefault(r, s)
  \/ ClearToCreate(r) \/ MakeDefault(r) \/ CountAppointments(r) \/ MoveAppointments(r)
  \/ DeleteStatus(r) \/ QueryRejected(r)

AppointmentRequest(a) ==
  \/ \E s \in Statuses, m \in Members, l \in Leads \cup {None} : CreateAppointment(a, s, m, l)
  \/ \E l \in Leads \cup {None} : UpdateAppointment(a, l)
  \/ DeleteAppointment(a)

MemberRequest(m) == CreateMember(m) \/ RemoveMember(m)

Next ==
  \/ \E r \in Clients : StatusRequest(r)
  \/ \E a \in Appointments : AppointmentRequest(a)
  \/ \E l \in Leads : DeleteLead(l) \/ (\E S \in SUBSET Services : CreateLead(l, S))
  \/ \E m \in Members : MemberRequest(m)
  \/ \E v \in Services : CreateService(v) \/ RemoveService(v)

Spec == Init /\ [][Next]_vars

-----------------------------------------------------------------------------
(***************************************************************************)
(* Properties.                                                             *)
(***************************************************************************)

\* "ensure only one default": two statuses are the default at the same time
\* only if two different requests made them so, side by side; a single client
\* never leaves two, whatever it does and whichever of its requests fail.
\* (customer-crm.service.ts:236 and 255.)
OneDefaultPerClient ==
  \A s, t \in Defaults : madeDefaultBy[s] = madeDefaultBy[t] => s = t

\* Deleting statuses, leads and members never leaves an appointment or a
\* service with a row that is gone, whatever is created between the queries
\* of deleteStatus.
NoOrphan ==
  /\ \A a \in Appointments : appointment[a].row = "live" =>
       /\ appointment[a].status \in LiveStatuses
       /\ appointment[a].member \in LiveMembers
       /\ appointment[a].lead \in LiveLeads \cup {None}
  /\ \A v \in LiveServices : service[v].lead \in LiveLeads \cup {None}

\* "reassign appointments to some default": an appointment has the status a
\* user gave it, or one that has been the default; deleteStatus never moves it
\* to any other, although the default it looked up may not be one any more.
ChosenOrDefault ==
  \A a \in Appointments : appointment[a].row = "live" =>
    \/ appointment[a].status = chosen[a]
    \/ madeDefaultBy[appointment[a].status] # None

====
