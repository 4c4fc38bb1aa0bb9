----------------------------- MODULE BackOffice -----------------------------
(***************************************************************************)
(* What managers and administrators work with besides calls and the CRM,   *)
(* in one process: accounts, the settings of companies, recordings for the *)
(* IVR, SIP providers and the board of agents online.  The parts share     *)
(* clients, agents and companies but no row; the number of requests bounds *)
(* all of them together, and the process ends for all of them at once.     *)
(***************************************************************************)
EXTENDS AgentAccounts

CONSTANTS
  Endpoints, DIDs, Extensions,
  Uploads, Sounds, OutputOf,
  Providers, Tenants, Addresses,
  CompanyOf, Sockets, Consoles, RoomOf, Statuses, Offline, All,
  MaxRequests  \* bound on the requests, events and timers taken up

ASSUME MaxRequestsAssumption == MaxRequests \in Nat

ASSUME NoneAssumption == None \notin Companies \cup Agents \cup Statuses

ASSUME OutputsAssumption == OutputOf \in [Uploads -> Sounds]

VARIABLES
  settings, saving, endpoint, did, extension,
  upload, raw, sound, ivrFiles, removing, unlinked,
  provider, providerConfig, providerFile, updating, tenant, address,
  agents, socketToAgent, closed, joined, shown, left, dropped,
  requests     \* how many have been taken up

Settings == INSTANCE CompanySettings

Recordings == INSTANCE SoundFiles

Trunks == INSTANCE SipTrunks

Board == INSTANCE PresenceBoard

settingsVars == <<settings, saving, endpoint, did, extension>>

soundVars == <<upload, raw, sound, ivrFiles, removing, unlinked>>

trunkVars == <<provider, providerConfig, providerFile, updating, tenant, address>>

boardVars == <<agents, socketToAgent, closed, joined, shown, left, dropped>>

vars == <<accountVars, settingsVars, soundVars, trunkVars, boardVars, requests>>

TypeOK ==
  /\ AccountsTypeOK
  /\ Settings!TypeOK
  /\ Recordings!TypeOK
  /\ Trunks!TypeOK
  /\ Board!TypeOK
  /\ requests \in 0..MaxRequests

Init ==
  /\ AccountsInit
  /\ Settings!Init
  /\ Recordings!Init
  /\ Trunks!Init
  /\ Board!Init
  /\ requests = 0

Counted ==
  /\ requests < MaxRequests
  /\ requests' = requests + 1

\* What happens to one part only.
AccountsMove ==
  /\ (AccountRequest /\ Counted) \/ (AccountStep /\ UNCHANGED requests)
  /\ UNCHANGED <<settingsVars, soundVars, trunkVars, boardVars>>

SettingsMove ==
  /\ (Settings!Request /\ Counted) \/ (Settings!Step /\ UNCHANGED requests)
  /\ UNCHANGED <<accountVars, soundVars, trunkVars, boardVars>>

RecordingsMove ==
  /\ (Recordings!Request /\ Counted) \/ (Recordings!Step /\ UNCHANGED requests)
  /\ UNCHANGED <<accountVars, settingsVars, trunkVars, boardVars>>

TrunksMove ==
  /\ (Trunks!Request /\ Counted) \/ (Trunks!Step /\ UNCHANGED requests)
  /\ UNCHANGED <<accountVars, settingsVars, soundVars, boardVars>>

BoardMove ==
  /\ (Board!Request /\ Counted) \/ (Board!Tick /\ UNCHANGED requests)
  /\ UNCHANGED <<accountVars, settingsVars, soundVars, trunkVars>>

\* The process ends and is started again.
Restart ==
  /\ AccountRestart /\ Settings!Restart /\ Recordings!Restart
  /\ Trunks!Restart /\ Board!Restart
  /\ UNCHANGED requests

Next == AccountsMove \/ SettingsMove \/ RecordingsMove \/ TrunksMove \/ BoardMove \/ Restart

Spec == Init /\ [][Next]_vars

-----------------------------------------------------------------------------
\* Settings and voicemail rows alike: looked up first, created only if missing.
\* Two rows of one company, or of one file, come from two requests side by side.
NoDuplicateFromOneClient == OneVoicemailPerClient /\ Settings!OneRowPerClient

\* Rows and the files they are about.  An agent whose section is in
\* pjsip-agent.conf has his rows, a provider in pjsip-provider.conf his, and a
\* recording has its sound.
FilesMatchRows == SectionHasRows /\ Trunks!SectionHasProvider /\ Recordings!RowHasSound

\* The board and the consoles.
BoardFollowsSockets == Board!BoardFollowsSockets

ConsoleShowsBoard == Board!ConsoleShowsBoard

====
