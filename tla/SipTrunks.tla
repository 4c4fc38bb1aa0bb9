------------------------------ MODULE SipTrunks ------------------------------
(***************************************************************************)
(* SIP providers, the file pjsip-provider.conf, and what refers to them:   *)
(* SipProviderService, SystemCompanyService, RtpAddressService and the     *)
(* script addUser.js.                                                      *)
(*                                                                         *)
(* SipProviderService.create is not an action: what CreateSIPProviderDto   *)
(* requires (IpRange, DIDNumber, CallLimit, EndpointName) are no columns   *)
(* of SIPProvider, and Prisma rejects its first query.  Providers come     *)
(* from the script.                                                        *)
(*                                                                         *)
(* A section of the file is named by its provider; the five of one         *)
(* provider are taken as one.  Tenants are companies no other row refers   *)
(* to: one that has users, agents or leads cannot be removed.              *)
(***************************************************************************)
CONSTANTS Clients, Providers, Tenants, Addresses, None

VARIABLES
  provider,        \* SIPProvider
  providerConfig,  \* the providers with a SIPProviderConfig row
  providerFile,    \* the providers with their sections in pjsip-provider.conf
  updating,        \* where each client's update is
  tenant,          \* the provider of each SystemCompany row, None without a row
  address          \* the provider of each RTPAddress row, None without a row

vars == <<provider, providerConfig, providerFile, updating, tenant, address>>

Idle == [at |-> "idle", provider |-> None]

TypeOK ==
  /\ provider \in [Providers -> {"unused", "live", "deleted"}]
  /\ providerConfig \subseteq Providers
  /\ providerFile \subseteq Providers
  /\ updating \in [Clients -> [at: {"idle", "updated", "configured"},
                               provider: Providers \cup {None}]]
  /\ tenant \in [Tenants -> Providers \cup {None}]
  /\ address \in [Addresses -> Providers \cup {None}]

Init ==
  /\ provider = [p \in Providers |-> "unused"]
  /\ providerConfig = {}
  /\ providerFile = {}
  /\ updating = [r \in Clients |-> Idle]
  /\ tenant = [t \in Tenants |-> None]
  /\ address = [i \in Addresses |-> None]

-----------------------------------------------------------------------------
LiveProviders == {p \in Providers : provider[p] = "live"}

\* The rows whose foreign key refuses to let the row of provider p go.  An
\* operator called Bad... is a plausible mistake and no part of the
\* specification.
BadReferenced(p) == \E t \in Tenants : tenant[t] = p

Referenced(p) ==
  \/ p \in providerConfig
  \/ \E t \in Tenants : tenant[t] = p
  \/ \E i \in Addresses : address[i] = p

(***************************************************************************)
(* Providers.  An update writes the row, then its configuration, then the  *)
(* file, where it replaces the sections of that provider only.             *)
(***************************************************************************)
AddProvider(p) ==
  /\ provider[p] = "unused"
  /\ provider' = [provider EXCEPT ![p] = "live"]
  /\ UNCHANGED <<providerConfig, providerFile, updating, tenant, address>>

UpdateProvider(r, p) ==
  /\ updating[r] = Idle
  /\ p \in LiveProviders
  /\ updating' = [updating EXCEPT ![r] = [at |-> "updated", provider |-> p]]
  /\ UNCHANGED <<provider, providerConfig, providerFile, tenant, address>>

UpsertConfig(r) ==
  /\ updating[r].at = "updated"
  /\ updating[r].provider \in LiveProviders
  /\ providerConfig' = providerConfig \cup {updating[r].provider}
  /\ updating' = [updating EXCEPT ![r].at = "configured"]
  /\ UNCHANGED <<provider, providerFile, tenant, address>>

ReplaceProvider(r) ==
  /\ updating[r].at = "configured"
  /\ providerFile' = providerFile \cup {updating[r].provider}
  /\ updating' = [updating EXCEPT ![r] = Idle]
  /\ UNCHANGED <<provider, providerConfig, tenant, address>>

\* The provider is gone, a section is missing in the body, or the file cannot
\* be read.
UpdateFails(r) ==
  /\ updating[r] # Idle
  /\ updating' = [updating EXCEPT ![r] = Idle]
  /\ UNCHANGED <<provider, providerConfig, providerFile, tenant, address>>

RemoveProvider(p) ==
  /\ p \in LiveProviders
  /\ ~Referenced(p)
  /\ provider' = [provider EXCEPT ![p] = "deleted"]
  /\ UNCHANGED <<providerConfig, providerFile, updating, tenant, address>>

(***************************************************************************)
(* Companies and RTP addresses.  An update of a company cannot name        *)
(* another provider: SIPProviderId is no column.  One of an address can.   *)
(***************************************************************************)
CreateCompany(t, p) ==
  /\ tenant[t] = None
  /\ p \in LiveProviders
  /\ tenant' = [tenant EXCEPT ![t] = p]
  /\ UNCHANGED <<provider, providerConfig, providerFile, updating, address>>

RemoveCompany(t) ==
  /\ tenant[t] # None
  /\ tenant' = [tenant EXCEPT ![t] = None]
  /\ UNCHANGED <<provider, providerConfig, providerFile, updating, address>>

CreateAddress(i, p) ==
  /\ address[i] = None
  /\ p \in LiveProviders
  /\ address' = [address EXCEPT ![i] = p]
  /\ UNCHANGED <<provider, providerConfig, providerFile, updating, tenant>>

UpdateAddress(i, p) ==
  /\ address[i] # None
  /\ p \in LiveProviders
  /\ address' = [address EXCEPT ![i] = p]
  /\ UNCHANGED <<provider, providerConfig, providerFile, updating, tenant>>

RemoveAddress(i) ==
  /\ address[i] # None
  /\ address' = [address EXCEPT ![i] = None]
  /\ UNCHANGED <<provider, providerConfig, providerFile, updating, tenant>>

\* The process ends.
Restart ==
  /\ updating' = [r \in Clients |-> Idle]
  /\ UNCHANGED <<provider, providerConfig, providerFile, tenant, address>>

-----------------------------------------------------------------------------
ProviderRequest ==
  \E p \in Providers : \/ AddProvider(p) \/ RemoveProvider(p)
                       \/ \E r \in Clients : UpdateProvider(r, p)

CompanyRequest ==
  \E t \in Tenants : RemoveCompany(t) \/ \E p \in Providers : CreateCompany(t, p)

AddressRequest ==
  \E i \in Addresses : \/ RemoveAddress(i)
                       \/ \E p \in Providers : CreateAddress(i, p) \/ UpdateAddress(i, p)

Request == ProviderRequest \/ CompanyRequest \/ AddressRequest

Step == \E r \in Clients : UpsertConfig(r) \/ ReplaceProvider(r) \/ UpdateFails(r)

Next == Request \/ Step \/ Restart

Spec == Init /\ [][Next]_vars

-----------------------------------------------------------------------------
\* Asterisk reads trunks from the file, the dialer their rows.  A provider in
\* the file has both rows: he may go only while no configuration refers to him,
\* however a removal falls between the queries of an update; and the provider
\* of a company or an address is there.  (sip-provider.service.ts:65, 111.)
SectionHasProvider ==
  /\ providerFile \subseteq LiveProviders \cap providerConfig
  /\ \A t \in Tenants : tenant[t] # None => tenant[t] \in LiveProviders
  /\ \A i \in Addresses : address[i] # None => address[i] \in LiveProviders

====
