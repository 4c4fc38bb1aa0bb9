----------------------- MODULE AppointmentBook_proofs -----------------------
(* Proofs about AppointmentBook, for every number of clients and rows.       *)
EXTENDS AppointmentBook, TLAPS

(* Type correctness *)

LEMMA TypeInductive == TypeOK /\ [Next]_vars => TypeOK'
<1> SUFFICES ASSUME TypeOK, [Next]_vars PROVE TypeOK'
  OBVIOUS
<1> USE DEF TypeOK
<1>1. ASSUME NEW r \in Clients, NEW s \in Statuses, CreateStatus(r, s) \/ CreateDefault(r, s)
      PROVE  TypeOK'
  <2>1. \A d \in BOOLEAN : NewStatus(r, d) \in StatusRow
    BY DEF NewStatus, StatusRow, Row
  <2>2. status' \in [Statuses -> StatusRow]
    BY <1>1, <2>1 DEF CreateStatus, CreateDefault
  <2>3. request' \in [Clients -> Request]
    <3>1. request' = request \/ Done(r)
      BY <1>1 DEF CreateStatus, CreateDefault
    <3> QED
      BY <3>1 DEF Done, Idle, Request
  <2>4. madeDefaultBy' \in [Statuses -> Clients \cup {None}]
    BY <1>1 DEF CreateStatus, CreateDefault
  <2> QED
    BY <1>1, <2>2, <2>3, <2>4 DEF CreateStatus, CreateDefault
<1>2. \A r \in Clients, id \in Statuses \cup {None} : Cleared(r, id) \in [Statuses -> StatusRow]
  BY DEF Cleared, StatusRow
<1>3. ASSUME NEW r \in Clients, ClearToCreate(r)
      PROVE  TypeOK'
  BY <1>2, <1>3 DEF ClearToCreate, GoTo, Request
<1>4. ASSUME NEW r \in Clients, NEW s \in Statuses, UpdateStatus(r, s)
      PROVE  TypeOK'
  BY <1>4 DEF UpdateStatus, StatusRow
<1>5. ASSUME NEW r \in Clients, NEW s \in Statuses, ClearToUpdate(r, s)
      PROVE  TypeOK'
  BY <1>2, <1>5 DEF ClearToUpdate, GoTo, Request
<1>6. ASSUME NEW r \in Clients, MakeDefault(r)
      PROVE  TypeOK'
  <2>1. request[r].id \in Statuses
    BY <1>6 DEF MakeDefault, LiveStatuses
  <2>2. status' \in [Statuses -> StatusRow]
    BY <1>6, <2>1 DEF MakeDefault, StatusRow
  <2>3. request' \in [Clients -> Request] /\ madeDefaultBy' \in [Statuses -> Clients \cup {None}]
    BY <1>6, <2>1 DEF MakeDefault, Done, Idle, Request
  <2> QED
    BY <1>6, <2>2, <2>3 DEF MakeDefault
<1>7. ASSUME NEW r \in Clients, NEW s \in Statuses, FindDefault(r, s)
      PROVE  TypeOK'
  <2>1. PICK d \in Statuses \cup {None} : GoTo(r, "moving", s, d)
    BY <1>7 DEF FindDefault, TakesOver, Defaults, LiveStatuses
  <2>2. request' \in [Clients -> Request]
    BY <2>1 DEF GoTo, Request
  <2> QED
    BY <1>7, <2>2 DEF FindDefault
<1>8. ASSUME NEW r \in Clients, CountAppointments(r) \/ QueryRejected(r)
      PROVE  TypeOK'
  <2>1. request[r].id \in Statuses \cup {None}
    BY DEF Request
  <2>2. Done(r) \/ GoTo(r, "deleting", request[r].id, None)
    BY <1>8 DEF CountAppointments, QueryRejected
  <2>3. request' \in [Clients -> Request]
    BY <2>1, <2>2 DEF Done, GoTo, Idle, Request
  <2> QED
    BY <1>8, <2>3 DEF CountAppointments, QueryRejected
<1>9. ASSUME NEW r \in Clients, MoveAppointments(r)
      PROVE  TypeOK'
  <2>1. request[r].id \in Statuses \cup {None} /\ request[r].found \in Statuses \cup {None}
    BY DEF Request
  <2>2. appointment' \in [Appointments -> AppointmentRow]
    <3>1. \A a \in Appointments :
            [appointment[a] EXCEPT !.status = request[r].found] \in AppointmentRow
      BY <2>1 DEF AppointmentRow
    <3> QED
      BY <1>9, <3>1 DEF MoveAppointments
  <2>3. request' \in [Clients -> Request]
    BY <1>9, <2>1 DEF MoveAppointments, GoTo, Request
  <2> QED
    BY <1>9, <2>2, <2>3 DEF MoveAppointments
<1>10. ASSUME NEW r \in Clients, DeleteStatus(r)
       PROVE  TypeOK'
  <2>1. DeletedStatus \in StatusRow
    BY DEF DeletedStatus, StatusRow, Row
  <2> QED
    BY <1>10, <2>1 DEF DeleteStatus, Done, Idle, Request
<1>11. ASSUME NEW a \in Appointments, NEW s \in Statuses, NEW m \in Members,
              NEW l \in Leads \cup {None}, CreateAppointment(a, s, m, l)
       PROVE  TypeOK'
  BY <1>11 DEF CreateAppointment, AppointmentRow, Row
<1>12. ASSUME NEW a \in Appointments, NEW l \in Leads \cup {None}, UpdateAppointment(a, l)
       PROVE  TypeOK'
  <2>1. CASE appointment' = [appointment EXCEPT ![a].lead = l] /\ UNCHANGED chosen
    <3>1. appointment' \in [Appointments -> AppointmentRow]
      BY <2>1 DEF AppointmentRow
    <3> QED
      BY <1>12, <2>1, <3>1 DEF UpdateAppointment
  <2>2. ASSUME NEW s \in Statuses, appointment' = [appointment EXCEPT ![a].lead = l, ![a].status = s],
               chosen' = [chosen EXCEPT ![a] = s]
        PROVE  TypeOK'
    <3>1. appointment' \in [Appointments -> AppointmentRow]
      BY <2>2 DEF AppointmentRow
    <3> QED
      BY <1>12, <2>2, <3>1 DEF UpdateAppointment
  <2> QED
    BY <1>12, <2>1, <2>2 DEF UpdateAppointment, LiveStatuses
<1>13. ASSUME NEW a \in Appointments, DeleteAppointment(a)
       PROVE  TypeOK'
  BY <1>13 DEF DeleteAppointment, DeletedAppointment, AppointmentRow, Row
<1>14. ASSUME NEW l \in Leads, NEW S \in SUBSET Services, CreateLead(l, S)
       PROVE  TypeOK'
  BY <1>14 DEF CreateLead, ServiceRow, Row
<1>15. ASSUME NEW l \in Leads, DeleteLead(l)
       PROVE  TypeOK'
  <2>1. appointment' \in [Appointments -> AppointmentRow]
    BY <1>15 DEF DeleteLead, AppointmentRow
  <2>2. service' \in [Services -> ServiceRow] /\ lead' \in [Leads -> Row]
    BY <1>15 DEF DeleteLead, ServiceRow, Row
  <2> QED
    BY <1>15, <2>1, <2>2 DEF DeleteLead
<1>16. ASSUME NEW m \in Members, CreateMember(m) \/ RemoveMember(m)
       PROVE  TypeOK'
  BY <1>16 DEF CreateMember, RemoveMember, Row
<1>17. ASSUME NEW v \in Services, CreateService(v) \/ RemoveService(v)
       PROVE  TypeOK'
  BY <1>17 DEF CreateService, RemoveService, DeletedService, ServiceRow, Row
<1>18. CASE UNCHANGED vars
  BY <1>18 DEF vars
<1> QED
  BY <1>1, <1>3, <1>4, <1>5, <1>6, <1>7, <1>8, <1>9, <1>10, <1>11, <1>12, <1>13, <1>14, <1>15,
     <1>16, <1>17, <1>18 DEF Next, MemberRequest, StatusRequest, AppointmentRequest

\* Every table and every request keeps its type.
THEOREM TypeCorrect == Spec => []TypeOK
<1>1. Init => TypeOK
  BY DEF Init, TypeOK, Idle, Row, StatusRow, AppointmentRow, ServiceRow, Request
<1> QED
  BY <1>1, TypeInductive, PTL DEF Spec

(* Foreign keys *)

LEMMA OrphanInductive == TypeOK /\ NoOrphan /\ [Next]_vars => NoOrphan'
<1> SUFFICES ASSUME TypeOK, NoOrphan, [Next]_vars PROVE NoOrphan'
  OBVIOUS
<1> DEFINE Fit(a) == /\ appointment[a].status \in LiveStatuses
                     /\ appointment[a].member \in LiveMembers
                     /\ appointment[a].lead \in LiveLeads \cup {None}
<1>0. ASSUME \A a \in Appointments : appointment'[a].row = "live" => Fit(a)',
             \A v \in LiveServices' : service'[v].lead \in LiveLeads' \cup {None}
      PROVE  NoOrphan'
  BY <1>0 DEF NoOrphan
\* A step that leaves the appointments alone and deletes no row they name.
<1>1. ASSUME UNCHANGED <<appointment, lead, member, service>>, LiveStatuses \subseteq LiveStatuses'
      PROVE  NoOrphan'
  BY <1>1 DEF NoOrphan, LiveMembers, LiveLeads, LiveServices
<1>2. \A r \in Clients, id \in Statuses \cup {None} : status' = Cleared(r, id) =>
        LiveStatuses' = LiveStatuses
  BY DEF TypeOK, StatusRow, Cleared, LiveStatuses
<1>3. ASSUME NEW r \in Clients, NEW s \in Statuses, CreateStatus(r, s) \/ CreateDefault(r, s)
      PROVE  NoOrphan'
  <2>1. LiveStatuses \subseteq LiveStatuses'
    BY <1>3 DEF TypeOK, CreateStatus, CreateDefault, NewStatus, LiveStatuses
  <2> QED
    BY <1>1, <1>3, <2>1 DEF CreateStatus, CreateDefault
<1>4. ASSUME NEW r \in Clients, ClearToCreate(r)
      PROVE  NoOrphan'
  BY <1>1, <1>2, <1>4 DEF ClearToCreate
<1>5. ASSUME NEW r \in Clients, NEW s \in Statuses, UpdateStatus(r, s)
      PROVE  NoOrphan'
  <2>1. LiveStatuses \subseteq LiveStatuses'
    BY <1>5 DEF TypeOK, StatusRow, UpdateStatus, LiveStatuses
  <2> QED
    BY <1>1, <1>5, <2>1 DEF UpdateStatus
<1>6. ASSUME NEW r \in Clients, NEW s \in Statuses, ClearToUpdate(r, s)
      PROVE  NoOrphan'
  BY <1>1, <1>2, <1>6 DEF ClearToUpdate
<1>7. ASSUME NEW r \in Clients, MakeDefault(r)
      PROVE  NoOrphan'
  <2>1. LiveStatuses \subseteq LiveStatuses'
    BY <1>7 DEF TypeOK, StatusRow, MakeDefault, LiveStatuses
  <2> QED
    BY <1>1, <1>7, <2>1 DEF MakeDefault
<1>8. ASSUME NEW r \in Clients,
             (\E s \in Statuses : FindDefault(r, s)) \/ CountAppointments(r) \/ QueryRejected(r)
      PROVE  NoOrphan'
  BY <1>1, <1>8 DEF FindDefault, CountAppointments, QueryRejected, LiveStatuses
<1>9. ASSUME NEW r \in Clients, MoveAppointments(r)
      PROVE  NoOrphan'
  <2>1. ASSUME NEW a \in Appointments, appointment'[a].row = "live"
        PROVE  Fit(a)'
    <3>1. CASE a \in Having(request[r].id)
      <4>1. request[r].found \in LiveStatuses
        BY <1>9, <3>1 DEF MoveAppointments
      <4>2. appointment'[a] = [appointment[a] EXCEPT !.status = request[r].found]
        BY <1>9, <3>1 DEF MoveAppointments
      <4>3. appointment[a] \in AppointmentRow
        BY DEF TypeOK
      <4>4. /\ appointment'[a].status = request[r].found
            /\ appointment'[a].member = appointment[a].member
            /\ appointment'[a].lead = appointment[a].lead
            /\ appointment[a].row = "live"
        BY <4>2, <4>3, <3>1 DEF AppointmentRow, Having
      <4> QED
        BY <1>9, <4>1, <4>4
           DEF MoveAppointments, NoOrphan, LiveStatuses, LiveMembers, LiveLeads
    <3>2. CASE a \notin Having(request[r].id)
      <4>1. appointment'[a] = appointment[a]
        BY <1>9, <3>2 DEF MoveAppointments
      <4> QED
        BY <1>9, <2>1, <4>1 DEF MoveAppointments, NoOrphan, LiveStatuses, LiveMembers, LiveLeads
    <3> QED
      BY <3>1, <3>2
  <2> QED
    BY <1>0, <1>9, <2>1 DEF MoveAppointments, NoOrphan, LiveServices, LiveLeads
<1>10. ASSUME NEW r \in Clients, DeleteStatus(r)
       PROVE  NoOrphan'
  <2>1. LiveStatuses' = LiveStatuses \ {request[r].id}
    BY <1>10 DEF TypeOK, StatusRow, DeleteStatus, DeletedStatus, LiveStatuses
  <2>2. \A a \in Appointments : appointment[a].row = "live" => appointment[a].status # request[r].id
    BY <1>10 DEF DeleteStatus, Having
  <2> QED
    BY <1>10, <2>1, <2>2 DEF DeleteStatus, NoOrphan, LiveServices, LiveLeads, LiveMembers
<1>11. ASSUME NEW a \in Appointments, NEW s \in Statuses, NEW m \in Members,
              NEW l \in Leads \cup {None}, CreateAppointment(a, s, m, l)
       PROVE  NoOrphan'
  <2>1. ASSUME NEW b \in Appointments, appointment'[b].row = "live"
        PROVE  Fit(b)'
    BY <1>11, <2>1
       DEF CreateAppointment, TypeOK, NoOrphan, LiveStatuses, LiveMembers, LiveLeads
  <2> QED
    BY <1>0, <1>11, <2>1 DEF CreateAppointment, NoOrphan, LiveServices, LiveLeads
<1>12. ASSUME NEW a \in Appointments, NEW l \in Leads \cup {None}, UpdateAppointment(a, l)
       PROVE  NoOrphan'
  <2>1. PICK s \in Statuses : /\ s \in LiveStatuses
                              /\ \/ appointment' = [appointment EXCEPT ![a].lead = l]
                                 \/ appointment' = [appointment EXCEPT ![a].lead = l, ![a].status = s]
    BY <1>12 DEF UpdateAppointment, NoOrphan, LiveStatuses
  <2>2. /\ appointment'[a].status \in {appointment[a].status, s}
        /\ appointment'[a].member = appointment[a].member
        /\ appointment'[a].lead = l
        /\ appointment[a].row = "live"
    BY <1>12, <2>1 DEF UpdateAppointment, TypeOK, AppointmentRow
  <2>3. \A b \in Appointments : b # a => appointment'[b] = appointment[b]
    BY <2>1 DEF TypeOK
  <2>4. ASSUME NEW b \in Appointments, appointment'[b].row = "live"
        PROVE  Fit(b)'
    BY <1>12, <2>1, <2>2, <2>3, <2>4
       DEF UpdateAppointment, NoOrphan, LiveStatuses, LiveMembers, LiveLeads
  <2> QED
    BY <1>0, <1>12, <2>4 DEF UpdateAppointment, NoOrphan, LiveServices, LiveLeads
<1>13. ASSUME NEW a \in Appointments, DeleteAppointment(a)
       PROVE  NoOrphan'
  BY <1>13 DEF DeleteAppointment, DeletedAppointment, TypeOK, NoOrphan, LiveStatuses, LiveMembers,
               LiveLeads, LiveServices
<1>14. ASSUME NEW l \in Leads, NEW S \in SUBSET Services, CreateLead(l, S)
       PROVE  NoOrphan'
  <2>1. LiveLeads \subseteq LiveLeads' /\ l \in LiveLeads'
    BY <1>14 DEF CreateLead, TypeOK, LiveLeads
  <2>2. ASSUME NEW v \in LiveServices'
        PROVE  service'[v].lead \in LiveLeads' \cup {None}
    <3>1. v \in Services /\ service[v] \in ServiceRow
      BY DEF TypeOK, LiveServices
    <3>2. /\ service[v].row = "live"
          /\ service'[v].lead \in {l, service[v].lead}
      BY <1>14, <2>2, <3>1 DEF CreateLead, ServiceRow, LiveServices
    <3> QED
      BY <2>1, <3>1, <3>2 DEF NoOrphan, LiveServices
  <2> QED
    BY <1>0, <1>14, <2>1, <2>2 DEF CreateLead, NoOrphan, LiveStatuses, LiveMembers
<1>15. ASSUME NEW l \in Leads, DeleteLead(l)
       PROVE  NoOrphan'
  <2>1. LiveLeads' = LiveLeads \ {l}
    BY <1>15 DEF DeleteLead, TypeOK, LiveLeads
  <2>2. ASSUME NEW a \in Appointments, appointment'[a].row = "live"
        PROVE  Fit(a)'
    <3>1. /\ appointment[a].row = "live"
          /\ appointment'[a].status = appointment[a].status
          /\ appointment'[a].member = appointment[a].member
          /\ appointment'[a].lead = IF appointment[a].lead = l THEN None ELSE appointment[a].lead
      BY <1>15, <2>2 DEF DeleteLead, TypeOK, AppointmentRow
    <3> QED
      BY <1>15, <2>1, <3>1 DEF DeleteLead, NoOrphan, LiveStatuses, LiveMembers
  <2>3. ASSUME NEW v \in LiveServices'
        PROVE  service'[v].lead \in LiveLeads' \cup {None}
    <3>1. v \in Services /\ service[v] \in ServiceRow
      BY DEF TypeOK, LiveServices
    <3>2. /\ service[v].row = "live"
          /\ service'[v].lead = IF service[v].lead = l THEN None ELSE service[v].lead
      BY <1>15, <2>3, <3>1 DEF DeleteLead, ServiceRow, LiveServices
    <3> QED
      BY <2>1, <3>1, <3>2 DEF NoOrphan, LiveServices
  <2> QED
    BY <1>0, <2>2, <2>3
<1>16. ASSUME NEW m \in Members, CreateMember(m) \/ RemoveMember(m)
       PROVE  NoOrphan'
  <2>1. \A a \in Appointments : appointment[a].row = "live" => appointment[a].member \in LiveMembers'
    BY <1>16 DEF CreateMember, RemoveMember, TypeOK, NoOrphan, LiveMembers
  <2> QED
    BY <1>16, <2>1 DEF CreateMember, RemoveMember, NoOrphan, LiveStatuses, LiveLeads, LiveServices
<1>17. ASSUME NEW v \in Services, CreateService(v) \/ RemoveService(v)
       PROVE  NoOrphan'
  <2>1. ASSUME NEW u \in LiveServices'
        PROVE  service'[u].lead \in LiveLeads' \cup {None}
    <3>1. u \in Services /\ service[u] \in ServiceRow /\ service'[u].row = "live"
      BY <2>1 DEF TypeOK, LiveServices
    <3>2. CASE CreateService(v)
      BY <3>1, <3>2 DEF CreateService, TypeOK, NoOrphan, LiveServices, LiveLeads
    <3>3. CASE RemoveService(v)
      BY <3>1, <3>3 DEF RemoveService, DeletedService, TypeOK, NoOrphan, LiveServices, LiveLeads
    <3> QED
      BY <1>17, <3>2, <3>3
  <2> QED
    BY <1>0, <1>17, <2>1 DEF CreateService, RemoveService, NoOrphan, LiveStatuses, LiveMembers, LiveLeads
<1>18. CASE UNCHANGED vars
  BY <1>1, <1>18 DEF vars, LiveStatuses
<1> QED
  BY <1>3, <1>4, <1>5, <1>6, <1>7, <1>8, <1>9, <1>10, <1>11, <1>12, <1>13, <1>14, <1>15,
     <1>16, <1>17, <1>18 DEF Next, MemberRequest, StatusRequest, AppointmentRequest

(* The default status *)

\* A request that has cleared the defaults finds none of its own making, save
\* the status it is about to update.
ClearedItsOwn ==
  \A r \in Clients : request[r].at \in {"creating", "updating"} =>
    /\ \A s \in Defaults : madeDefaultBy[s] = r => s = request[r].id
    /\ request[r].at = "creating" => request[r].id = None

DefaultsAreMade == \A s \in Defaults : madeDefaultBy[s] # None

\* The default deleteStatus has looked up was one, or is gone.
FoundWasDefault ==
  \A r \in Clients : request[r].at = "moving" /\ request[r].found # None =>
    \/ status[request[r].found].row = "deleted"
    \/ madeDefaultBy[request[r].found] # None

\* Defaults after a step that changes status only by clearing or setting flags.
LEMMA DefaultsAfter ==
  ASSUME TypeOK
  PROVE  /\ \A r \in Clients, id \in Statuses \cup {None} : status' = Cleared(r, id) =>
               Defaults' = Defaults \cap {id}
         /\ \A s \in Statuses : status' = [status EXCEPT ![s].isDefault = FALSE] =>
               Defaults' = Defaults \ {s}
         /\ \A s \in LiveStatuses : status' = [status EXCEPT ![s].isDefault = TRUE] =>
               Defaults' = Defaults \cup {s}
         /\ \A s \in Statuses : status' = [status EXCEPT ![s] = DeletedStatus] =>
               Defaults' = Defaults \ {s}
         /\ \A r \in Clients, s \in Statuses : status' = [status EXCEPT ![s] = NewStatus(r, TRUE)] =>
               Defaults' = Defaults \cup {s}
         /\ \A r \in Clients, s \in Statuses : status' = [status EXCEPT ![s] = NewStatus(r, FALSE)] =>
               Defaults' = Defaults \ {s}
<1> USE DEF TypeOK, StatusRow, Defaults, LiveStatuses
<1>1. \A r \in Clients, id \in Statuses \cup {None} : status' = Cleared(r, id) =>
        Defaults' = Defaults \cap {id}
  BY DEF Cleared
<1>2. \A s \in Statuses : status' = [status EXCEPT ![s].isDefault = FALSE] => Defaults' = Defaults \ {s}
  OBVIOUS
<1>3. \A s \in LiveStatuses : status' = [status EXCEPT ![s].isDefault = TRUE] =>
        Defaults' = Defaults \cup {s}
  OBVIOUS
<1>4. \A s \in Statuses : status' = [status EXCEPT ![s] = DeletedStatus] => Defaults' = Defaults \ {s}
  BY DEF DeletedStatus
<1>5. \A r \in Clients, s \in Statuses : status' = [status EXCEPT ![s] = NewStatus(r, TRUE)] =>
        Defaults' = Defaults \cup {s}
  BY DEF NewStatus
<1>6. \A r \in Clients, s \in Statuses : status' = [status EXCEPT ![s] = NewStatus(r, FALSE)] =>
        Defaults' = Defaults \ {s}
  BY DEF NewStatus
<1> QED
  BY <1>1, <1>2, <1>3, <1>4, <1>5, <1>6

Flags == ClearedItsOwn /\ DefaultsAreMade /\ OneDefaultPerClient

\* Fewer defaults, made by the same requests, and no request newly past its
\* clearing query.
LEMMA FlagsShrink ==
  ASSUME TypeOK, Flags, Defaults' \subseteq Defaults,
         \A s \in Defaults' : madeDefaultBy'[s] = madeDefaultBy[s],
         \A r \in Clients : request'[r] = request[r] \/ request'[r].at \notin {"creating", "updating"}
  PROVE  Flags'
BY DEF Flags, ClearedItsOwn, DefaultsAreMade, OneDefaultPerClient

\* The request r makes s the default, and is done.
LEMMA FlagsMade ==
  ASSUME TypeOK, Flags, NEW r \in Clients, NEW s \in Statuses,
         request[r].at \in {"creating", "updating"},
         request[r].at = "updating" => request[r].id = s,
         Defaults' = Defaults \cup {s},
         madeDefaultBy' = [madeDefaultBy EXCEPT ![s] = r],
         Done(r)
  PROVE  Flags'
<1>1. /\ madeDefaultBy'[s] = r
      /\ \A t \in Defaults : t # s => t \in Statuses /\ madeDefaultBy'[t] = madeDefaultBy[t]
  BY DEF TypeOK, Defaults, LiveStatuses
<1>2. \A t \in Defaults : t # s => madeDefaultBy[t] # r
  BY NoneAssumption DEF Flags, ClearedItsOwn, Defaults, LiveStatuses
<1>3. r # None
  BY NoneAssumption
<1>4. request'[r].at = "idle" /\ \A q \in Clients : q # r => request'[q] = request[q]
  BY DEF TypeOK, Done, Idle
<1>5. OneDefaultPerClient' /\ DefaultsAreMade'
  BY <1>1, <1>2, <1>3 DEF Flags, OneDefaultPerClient, DefaultsAreMade
<1>6. ClearedItsOwn'
  BY <1>1, <1>4 DEF Flags, ClearedItsOwn
<1> QED
  BY <1>5, <1>6 DEF Flags

\* The request r clears every default but id.
LEMMA FlagsCleared ==
  ASSUME TypeOK, Flags, NEW r \in Clients, NEW id \in Statuses \cup {None}, NEW at,
         Defaults' = Defaults \cap {id},
         GoTo(r, at, id, None),
         at = "creating" => id = None,
         UNCHANGED madeDefaultBy
  PROVE  Flags'
<1>1. request'[r].at = at /\ request'[r].id = id /\ \A q \in Clients : q # r => request'[q] = request[q]
  BY DEF TypeOK, GoTo
<1> QED
  BY <1>1 DEF Flags, ClearedItsOwn, DefaultsAreMade, OneDefaultPerClient

LEMMA FlagsInductive == TypeOK /\ Flags /\ [Next]_vars => Flags'
<1> SUFFICES ASSUME TypeOK, Flags, [Next]_vars PROVE Flags'
  OBVIOUS
<1>1. ASSUME NEW r \in Clients, NEW s \in Statuses, CreateStatus(r, s)
      PROVE  Flags'
  <2>1. Defaults' = Defaults \ {s}
    BY <1>1, DefaultsAfter DEF CreateStatus
  <2> QED
    BY <1>1, <2>1, FlagsShrink DEF CreateStatus
<1>2. ASSUME NEW r \in Clients, NEW s \in Statuses, CreateDefault(r, s)
      PROVE  Flags'
  <2>1. Defaults' = Defaults \cup {s}
    BY <1>2, DefaultsAfter DEF CreateDefault
  <2> QED
    BY <1>2, <2>1, FlagsMade DEF CreateDefault
<1>3. ASSUME NEW r \in Clients, ClearToCreate(r)
      PROVE  Flags'
  <2>1. Defaults' = Defaults \cap {None}
    BY <1>3, DefaultsAfter DEF ClearToCreate
  <2> QED
    BY <1>3, <2>1, FlagsCleared DEF ClearToCreate
<1>4. ASSUME NEW r \in Clients, NEW s \in Statuses, UpdateStatus(r, s)
      PROVE  Flags'
  <2>1. Defaults' = Defaults \ {s}
    BY <1>4, DefaultsAfter DEF UpdateStatus
  <2> QED
    BY <1>4, <2>1, FlagsShrink DEF UpdateStatus
<1>5. ASSUME NEW r \in Clients, NEW s \in Statuses, ClearToUpdate(r, s)
      PROVE  Flags'
  <2>1. Defaults' = Defaults \cap {s}
    BY <1>5, DefaultsAfter DEF ClearToUpdate
  <2> QED
    BY <1>5, <2>1, FlagsCleared DEF ClearToUpdate
<1>6. ASSUME NEW r \in Clients, MakeDefault(r)
      PROVE  Flags'
  <2>1. request[r].id \in LiveStatuses /\ request[r].id \in Statuses
    BY <1>6 DEF MakeDefault, LiveStatuses
  <2>2. Defaults' = Defaults \cup {request[r].id}
    BY <1>6, <2>1, DefaultsAfter DEF MakeDefault
  <2> QED
    BY <1>6, <2>1, <2>2, FlagsMade DEF MakeDefault
<1>7. ASSUME NEW r \in Clients, DeleteStatus(r)
      PROVE  Flags'
  <2>1. request[r].id \in Statuses
    BY <1>7 DEF DeleteStatus, LiveStatuses
  <2>2. Defaults' = Defaults \ {request[r].id}
    BY <1>7, <2>1, DefaultsAfter DEF DeleteStatus
  <2>3. \A t \in Defaults' : madeDefaultBy'[t] = madeDefaultBy[t]
    BY <1>7, <2>1, <2>2 DEF DeleteStatus, TypeOK, Defaults, LiveStatuses
  <2>4. \A q \in Clients : request'[q] = request[q] \/ request'[q].at = "idle"
    BY <1>7 DEF DeleteStatus, Done, Idle, TypeOK
  <2> QED
    BY <2>2, <2>3, <2>4, FlagsShrink
\* The steps that leave the statuses alone.
<1>8. ASSUME UNCHANGED <<status, madeDefaultBy>>,
             \A q \in Clients : request'[q] = request[q] \/ request'[q].at \notin {"creating", "updating"}
      PROVE  Flags'
  <2>1. Defaults' = Defaults
    BY <1>8 DEF Defaults, LiveStatuses
  <2> QED
    BY <1>8, <2>1, FlagsShrink
<1>9. ASSUME NEW r \in Clients,
             \/ \E s \in Statuses : FindDefault(r, s)
             \/ CountAppointments(r) \/ MoveAppointments(r) \/ QueryRejected(r)
      PROVE  Flags'
  <2>1. Done(r) \/ \E at \in {"moving", "deleting"} : \E id, found : GoTo(r, at, id, found)
    BY <1>9 DEF FindDefault, CountAppointments, MoveAppointments, QueryRejected
  <2>2. \A q \in Clients : request'[q] = request[q] \/ request'[q].at \notin {"creating", "updating"}
    BY <2>1 DEF Done, GoTo, Idle, TypeOK
  <2> QED
    BY <1>8, <1>9, <2>2 DEF FindDefault, CountAppointments, MoveAppointments, QueryRejected
<1>10. ASSUME NEW a \in Appointments, AppointmentRequest(a)
       PROVE  Flags'
  BY <1>8, <1>10 DEF AppointmentRequest, CreateAppointment, UpdateAppointment, DeleteAppointment
<1>11. ASSUME NEW l \in Leads, DeleteLead(l) \/ (\E S \in SUBSET Services : CreateLead(l, S))
       PROVE  Flags'
  BY <1>8, <1>11 DEF DeleteLead, CreateLead
<1>12. ASSUME NEW m \in Members, CreateMember(m) \/ RemoveMember(m)
       PROVE  Flags'
  BY <1>8, <1>12 DEF CreateMember, RemoveMember
<1>13. ASSUME NEW v \in Services, CreateService(v) \/ RemoveService(v)
       PROVE  Flags'
  BY <1>8, <1>13 DEF CreateService, RemoveService
<1>14. CASE UNCHANGED vars
  BY <1>8, <1>14 DEF vars
<1> QED
  BY <1>1, <1>2, <1>3, <1>4, <1>5, <1>6, <1>7, <1>9, <1>10, <1>11, <1>12, <1>13, <1>14
     DEF Next, MemberRequest, StatusRequest

DefaultInv ==
  TypeOK /\ NoOrphan /\ Flags /\ FoundWasDefault /\ ChosenOrDefault

LEMMA FoundInductive ==
  TypeOK /\ Flags /\ FoundWasDefault /\ [Next]_vars => FoundWasDefault'
<1> SUFFICES ASSUME TypeOK, Flags, FoundWasDefault, [Next]_vars,
                    NEW r \in Clients, request'[r].at = "moving", request'[r].found # None
             PROVE  LET f == request'[r].found
                    IN  status'[f].row = "deleted" \/ madeDefaultBy'[f] # None
  BY DEF FoundWasDefault
<1> DEFINE Was(f) == status[f].row = "deleted" \/ madeDefaultBy[f] # None
\* What has been a default stays so, or is deleted.
<1>1. ASSUME NEW f \in Statuses, Was(f)
      PROVE  Was(f)'
  <2>1. ASSUME NEW q \in Clients, NEW s \in Statuses, CreateStatus(q, s) \/ CreateDefault(q, s)
        PROVE  Was(f)'
    BY <1>1, <2>1, NoneAssumption DEF CreateStatus, CreateDefault, TypeOK
  <2>2. ASSUME NEW q \in Clients, NEW s \in Statuses,
               ClearToCreate(q) \/ UpdateStatus(q, s) \/ ClearToUpdate(q, s)
        PROVE  Was(f)'
    <3>1. status'[f].row = status[f].row
      BY <2>2 DEF ClearToCreate, UpdateStatus, ClearToUpdate, Cleared, TypeOK, StatusRow
    <3> QED
      BY <1>1, <2>2, <3>1 DEF ClearToCreate, UpdateStatus, ClearToUpdate
  <2>3. ASSUME NEW q \in Clients, MakeDefault(q)
        PROVE  Was(f)'
    BY <1>1, <2>3, NoneAssumption DEF MakeDefault, LiveStatuses, TypeOK, StatusRow
  <2>4. ASSUME NEW q \in Clients, DeleteStatus(q)
        PROVE  Was(f)'
    BY <1>1, <2>4 DEF DeleteStatus, DeletedStatus, LiveStatuses, TypeOK
  <2>5. CASE UNCHANGED <<status, madeDefaultBy>>
    BY <1>1, <2>5
  <2> QED
    BY <2>1, <2>2, <2>3, <2>4, <2>5
       DEF Next, MemberRequest, StatusRequest, AppointmentRequest, FindDefault, CountAppointments, MoveAppointments,
           QueryRejected, CreateAppointment, UpdateAppointment, DeleteAppointment, CreateLead,
           DeleteLead, CreateMember, RemoveMember, CreateService, RemoveService, vars
<1>2. CASE request'[r] = request[r]
  <2>1. request[r].found \in Statuses
    BY <1>2 DEF TypeOK, Request
  <2> QED
    BY <1>1, <1>2, <2>1 DEF FoundWasDefault
<1>3. ASSUME NEW s \in Statuses, FindDefault(r, s)
      PROVE  madeDefaultBy'[request'[r].found] # None
  <2>1. PICK d \in TakesOver(s) : GoTo(r, "moving", s, d)
    BY <1>3 DEF FindDefault, GoTo, TypeOK
  <2>2. request'[r].found = d /\ d \in Defaults
    BY <2>1 DEF GoTo, TypeOK, TakesOver
  <2> QED
    BY <1>3, <2>2 DEF FindDefault, Flags, DefaultsAreMade
<1>4. request'[r] = request[r] \/ \E s \in Statuses : FindDefault(r, s)
  <2>1. \A q \in Clients : \A at, id, found : GoTo(q, at, id, found) =>
           request'[r] = request[r] \/ (q = r /\ request'[r].at = at)
    BY DEF GoTo, TypeOK
  <2>2. \A q \in Clients : Done(q) => request'[r] = request[r]
    BY DEF Done, Idle, TypeOK
  <2>3. ASSUME NEW q \in Clients, StatusRequest(q)
        PROVE  request'[r] = request[r] \/ \E s \in Statuses : FindDefault(r, s)
    <3>1. CASE \E s \in Statuses : FindDefault(q, s)
      BY <2>1, <3>1 DEF FindDefault
    <3>2. CASE ~\E s \in Statuses : FindDefault(q, s)
      <4>1. \/ UNCHANGED request \/ Done(q)
            \/ \E at \in {"creating", "updating", "deleting"} : \E id, found : GoTo(q, at, id, found)
        BY <2>3, <3>2
           DEF StatusRequest, CreateStatus, CreateDefault, UpdateStatus, ClearToUpdate, ClearToCreate,
               MakeDefault, CountAppointments, MoveAppointments, DeleteStatus, QueryRejected
      <4> QED
        BY <2>1, <2>2, <4>1
    <3> QED
      BY <3>1, <3>2
  <2> QED
    BY <2>3
       DEF Next, MemberRequest, AppointmentRequest, CreateAppointment, UpdateAppointment, DeleteAppointment,
           CreateLead, DeleteLead, CreateMember, RemoveMember, CreateService, RemoveService, vars
<1> QED
  BY <1>2, <1>3, <1>4

LEMMA ChosenInductive ==
  TypeOK /\ NoOrphan /\ FoundWasDefault /\ ChosenOrDefault /\ [Next]_vars => ChosenOrDefault'
<1> SUFFICES ASSUME TypeOK, NoOrphan, FoundWasDefault, ChosenOrDefault, [Next]_vars,
                    NEW a \in Appointments, appointment'[a].row = "live"
             PROVE  \/ appointment'[a].status = chosen'[a]
                    \/ madeDefaultBy'[appointment'[a].status] # None
  BY DEF ChosenOrDefault
\* The appointment is not touched, and no default is forgotten that it names.
<1>1. ASSUME appointment'[a].row = appointment[a].row,
             appointment'[a].status = appointment[a].status,
             chosen'[a] = chosen[a],
             \A s \in LiveStatuses : madeDefaultBy[s] # None /\ madeDefaultBy'[s] = None =>
                appointment[a].status # s
      PROVE  \/ appointment'[a].status = chosen'[a]
             \/ madeDefaultBy'[appointment'[a].status] # None
  BY <1>1 DEF NoOrphan, ChosenOrDefault
<1>2. ASSUME NEW r \in Clients, (\E s \in Statuses : CreateDefault(r, s)) \/ MakeDefault(r)
      PROVE  \/ appointment'[a].status = chosen'[a]
             \/ madeDefaultBy'[appointment'[a].status] # None
  <2>1. \A t \in Statuses : madeDefaultBy'[t] \in {madeDefaultBy[t], r}
    BY <1>2 DEF CreateDefault, MakeDefault, LiveStatuses, TypeOK
  <2> QED
    BY <1>1, <1>2, <2>1, NoneAssumption DEF CreateDefault, MakeDefault, LiveStatuses
<1>3. ASSUME NEW r \in Clients, DeleteStatus(r)
      PROVE  \/ appointment'[a].status = chosen'[a]
             \/ madeDefaultBy'[appointment'[a].status] # None
  <2>1. appointment[a].status # request[r].id
    BY <1>3 DEF DeleteStatus, Having
  <2>2. \A t \in Statuses : t # request[r].id => madeDefaultBy'[t] = madeDefaultBy[t]
    BY <1>3 DEF DeleteStatus, TypeOK
  <2> QED
    BY <1>1, <1>3, <2>1, <2>2 DEF DeleteStatus, LiveStatuses
<1>4. ASSUME NEW r \in Clients, MoveAppointments(r)
      PROVE  \/ appointment'[a].status = chosen'[a]
             \/ madeDefaultBy'[appointment'[a].status] # None
  <2>1. CASE a \in Having(request[r].id)
    <3>1. request[r].found \in LiveStatuses /\ madeDefaultBy[request[r].found] # None
      BY <1>4, <2>1 DEF MoveAppointments, FoundWasDefault, LiveStatuses
    <3>2. appointment'[a].status = request[r].found
      BY <1>4, <2>1 DEF MoveAppointments, TypeOK, AppointmentRow
    <3> QED
      BY <1>4, <3>1, <3>2 DEF MoveAppointments
  <2>2. CASE a \notin Having(request[r].id)
    <3>1. appointment'[a] = appointment[a]
      BY <1>4, <2>2 DEF MoveAppointments
    <3> QED
      BY <1>1, <1>4, <3>1 DEF MoveAppointments
  <2> QED
    BY <2>1, <2>2
<1>5. ASSUME NEW b \in Appointments, AppointmentRequest(b)
      PROVE  \/ appointment'[a].status = chosen'[a]
             \/ madeDefaultBy'[appointment'[a].status] # None
  <2>1. CASE a # b
    <3>1. appointment'[a] = appointment[a] /\ chosen'[a] = chosen[a] /\ UNCHANGED madeDefaultBy
      BY <1>5, <2>1
         DEF AppointmentRequest, CreateAppointment, UpdateAppointment, DeleteAppointment, TypeOK
    <3> QED
      BY <1>1, <3>1
  <2>2. ASSUME a = b, NEW s \in Statuses, NEW m \in Members, NEW l \in Leads \cup {None},
               CreateAppointment(b, s, m, l)
        PROVE  appointment'[a].status = chosen'[a]
    BY <2>2 DEF CreateAppointment, TypeOK
  <2>3. ASSUME a = b, NEW l \in Leads \cup {None}, UpdateAppointment(b, l)
        PROVE  \/ appointment'[a].status = chosen'[a]
               \/ madeDefaultBy'[appointment'[a].status] # None
    <3>1. CASE appointment' = [appointment EXCEPT ![b].lead = l] /\ UNCHANGED chosen
      <4>1. /\ appointment'[a].row = appointment[a].row
            /\ appointment'[a].status = appointment[a].status
        BY <2>3, <3>1 DEF TypeOK, AppointmentRow
      <4> QED
        BY <1>1, <2>3, <3>1, <4>1 DEF UpdateAppointment
    <3>2. ASSUME NEW s \in Statuses,
                 appointment' = [appointment EXCEPT ![b].lead = l, ![b].status = s],
                 chosen' = [chosen EXCEPT ![b] = s]
          PROVE  appointment'[a].status = chosen'[a]
      BY <2>3, <3>2 DEF TypeOK, AppointmentRow
    <3> QED
      BY <2>3, <3>1, <3>2 DEF UpdateAppointment, LiveStatuses
  <2>4. a = b => ~DeleteAppointment(b)
    BY DEF DeleteAppointment, DeletedAppointment, TypeOK
  <2> QED
    BY <1>5, <2>1, <2>2, <2>3, <2>4 DEF AppointmentRequest
<1>6. ASSUME NEW l \in Leads, DeleteLead(l)
      PROVE  \/ appointment'[a].status = chosen'[a]
             \/ madeDefaultBy'[appointment'[a].status] # None
  <2>1. appointment'[a].status = appointment[a].status /\ appointment'[a].row = appointment[a].row
    BY <1>6 DEF DeleteLead, TypeOK, AppointmentRow
  <2> QED
    BY <1>1, <1>6, <2>1 DEF DeleteLead
<1>7. CASE UNCHANGED <<appointment, madeDefaultBy, chosen>>
  BY <1>1, <1>7
<1> QED
  BY <1>2, <1>3, <1>4, <1>5, <1>6, <1>7
     DEF Next, MemberRequest, StatusRequest, CreateStatus, UpdateStatus, ClearToUpdate, ClearToCreate, FindDefault,
         CountAppointments, QueryRejected, CreateLead, CreateMember, RemoveMember, CreateService,
         RemoveService, vars

(* The results *)

THEOREM DefaultInvariant == Spec => []DefaultInv
<1>1. Init => DefaultInv
  BY DEF Init, DefaultInv, TypeOK, Idle, Row, StatusRow, AppointmentRow, ServiceRow, Request,
         NoOrphan, Flags, ClearedItsOwn, DefaultsAreMade, OneDefaultPerClient, FoundWasDefault,
         ChosenOrDefault, Defaults, LiveStatuses, LiveServices
<1>2. DefaultInv /\ [Next]_vars => DefaultInv'
  BY TypeInductive, OrphanInductive, FlagsInductive, FoundInductive, ChosenInductive DEF DefaultInv
<1> QED
  BY <1>1, <1>2, PTL DEF Spec

\* A single client never leaves two default statuses.
THEOREM OneDefaultPerClientHolds == Spec => []OneDefaultPerClient
<1>1. DefaultInv => OneDefaultPerClient
  BY DEF DefaultInv, Flags
<1> QED
  BY <1>1, DefaultInvariant, PTL

\* No row of the CRM names a row that has been deleted.
THEOREM NoOrphanHolds == Spec => []NoOrphan
<1>1. DefaultInv => NoOrphan
  BY DEF DefaultInv
<1> QED
  BY <1>1, DefaultInvariant, PTL

\* deleteStatus moves an appointment to nothing but a default.
THEOREM ChosenOrDefaultHolds == Spec => []ChosenOrDefault
<1>1. DefaultInv => ChosenOrDefault
  BY DEF DefaultInv
<1> QED
  BY <1>1, DefaultInvariant, PTL

====
