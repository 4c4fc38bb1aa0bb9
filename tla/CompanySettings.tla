--------------------------- MODULE CompanySettings ---------------------------
(***************************************************************************)
(* What SystemManagerService keeps for the dialer: the settings of each    *)
(* company, SIP endpoints, DID numbers and extensions.                     *)
(*                                                                         *)
(* saveUserSettings looks for a row of the company and then updates it or  *)
(* creates one, as two queries; no index makes the company unique.  The    *)
(* columns of a settings row are not modelled: getUserSettings and the     *)
(* dialer read whichever row findFirst returns.                            *)
(***************************************************************************)
EXTENDS Naturals

CONSTANTS Clients, Companies, Endpoints, DIDs, Extensions, None

VARIABLES
  settings,   \* history: how many rows of each company each client created
  saving,     \* where each client's saveUserSettings is: [company, found]
  endpoint,   \* SIPEndpoints
  did,        \* DIDNumbers: [row, endpoint]
  extension   \* the extensions created

vars == <<settings, saving, endpoint, did, extension>>

Idle == [company |-> None, found |-> FALSE]

Row == {"unused", "live", "deleted"}

TypeOK ==
  /\ settings \in [Companies -> [Clients -> Nat]]
  /\ saving \in [Clients -> [company: Companies \cup {None}, found: BOOLEAN]]
  /\ endpoint \in [Endpoints -> Row]
  /\ did \in [DIDs -> [row: Row, endpoint: Endpoints \cup {None}]]
  /\ extension \subseteq Extensions

Init ==
  /\ settings = [c \in Companies |-> [r \in Clients |-> 0]]
  /\ saving = [r \in Clients |-> Idle]
  /\ endpoint = [e \in Endpoints |-> "unused"]
  /\ did = [d \in DIDs |-> [row |-> "unused", endpoint |-> None]]
  /\ extension = {}

-----------------------------------------------------------------------------
LiveEndpoints == {e \in Endpoints : endpoint[e] = "live"}

LiveDIDs == {d \in DIDs : did[d].row = "live"}

\* What findFirst finds, by the company and not by the id of the row.
BadHasSettings(c) == FALSE

HasSettings(c) == \E r \in Clients : settings[c][r] > 0

(***************************************************************************)
(* saveUserSettings                                                        *)
(***************************************************************************)
FindSettings(r, c) ==
  /\ saving[r] = Idle
  /\ saving' = [saving EXCEPT ![r] = [company |-> c, found |-> HasSettings(c)]]
  /\ UNCHANGED <<settings, endpoint, did, extension>>

\* Settings are never deleted, so the row that was found is there.
UpdateSettings(r) ==
  /\ saving[r].company # None /\ saving[r].found
  /\ saving' = [saving EXCEPT ![r] = Idle]
  /\ UNCHANGED <<settings, endpoint, did, extension>>

CreateSettings(r) ==
  /\ saving[r].company # None /\ ~saving[r].found
  /\ settings' = [settings EXCEPT ![saving[r].company][r] = @ + 1]
  /\ saving' = [saving EXCEPT ![r] = Idle]
  /\ UNCHANGED <<endpoint, did, extension>>

\* A foreign key refuses an endpoint, extension or DID number that is gone.
SaveRejected(r) ==
  /\ saving[r].company # None
  /\ saving' = [saving EXCEPT ![r] = Idle]
  /\ UNCHANGED <<settings, endpoint, did, extension>>

(***************************************************************************)
(* SIP endpoints.  A DID number has one endpoint: connecting it takes it   *)
(* from another, and the list of an update also drops those not in it.     *)
(***************************************************************************)
Connected(e, dids, drop) ==
  [d \in DIDs |-> IF d \in dids THEN [did[d] EXCEPT !.endpoint = e]
                  ELSE IF drop /\ did[d].endpoint = e THEN [did[d] EXCEPT !.endpoint = None]
                  ELSE did[d]]

CreateEndpoint(e, dids) ==
  /\ endpoint[e] = "unused"
  /\ dids \subseteq LiveDIDs
  /\ endpoint' = [endpoint EXCEPT ![e] = "live"]
  /\ did' = Connected(e, dids, FALSE)
  /\ UNCHANGED <<settings, saving, extension>>

UpdateEndpoint(e, dids) ==
  /\ e \in LiveEndpoints
  /\ dids \subseteq LiveDIDs
  /\ did' = Connected(e, dids, TRUE)
  /\ UNCHANGED <<settings, saving, endpoint, extension>>

\* ON DELETE SET NULL.
RemoveEndpoint(e) ==
  /\ e \in LiveEndpoints
  /\ endpoint' = [endpoint EXCEPT ![e] = "deleted"]
  /\ did' = Connected(e, {}, TRUE)
  /\ UNCHANGED <<settings, saving, extension>>

(***************************************************************************)
(* DID numbers and extensions.  updateDIDNumber changes only the digits.   *)
(* updateExtension and removeExtension look for the extension among the    *)
(* endpoints, where it never is: they change nothing.                      *)
(***************************************************************************)
CreateDIDNumber(d) ==
  /\ did[d].row = "unused"
  /\ did' = [did EXCEPT ![d].row = "live"]
  /\ UNCHANGED <<settings, saving, endpoint, extension>>

DeleteDIDNumber(d) ==
  /\ d \in LiveDIDs
  /\ did' = [did EXCEPT ![d] = [row |-> "deleted", endpoint |-> None]]
  /\ UNCHANGED <<settings, saving, endpoint, extension>>

CreateExtension(x) ==
  /\ x \notin extension
  /\ extension' = extension \cup {x}
  /\ UNCHANGED <<settings, saving, endpoint, did>>

\* The process ends.
Restart ==
  /\ saving' = [r \in Clients |-> Idle]
  /\ UNCHANGED <<settings, endpoint, did, extension>>

-----------------------------------------------------------------------------
Request ==
  \/ \E r \in Clients, c \in Companies : FindSettings(r, c)
  \/ \E e \in Endpoints : \/ \E dids \in SUBSET DIDs : CreateEndpoint(e, dids) \/ UpdateEndpoint(e, dids)
                          \/ RemoveEndpoint(e)
  \/ \E d \in DIDs : CreateDIDNumber(d) \/ DeleteDIDNumber(d)
  \/ \E x \in Extensions : CreateExtension(x)

Step == \E r \in Clients : UpdateSettings(r) \/ CreateSettings(r) \/ SaveRejected(r)

Next == Request \/ Step \/ Restart

Spec == Init /\ [][Next]_vars

-----------------------------------------------------------------------------
\* A company gets a second settings row only by two saves that ran side by
\* side: a single client never creates two, so whoever saves after a finished
\* save updates the row there is.  (system-manager.service.ts:689.)
OneRowPerClient == \A c \in Companies, r \in Clients : settings[c][r] <= 1

====
