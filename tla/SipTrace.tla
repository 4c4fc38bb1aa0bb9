------------------------------ MODULE SipTrace ------------------------------
(* The SIP debugger: one handler per HEP packet                              *)
(* (sip-listener.service.ts), which finds or creates the session of the call *)
(* (sip-session.service.ts), stores the SIP message and alerts the Telegram  *)
(* chats of the company that owns the called number (telegram.service.ts).   *)
(* Handlers of different packets interleave at every await. A packet is lost *)
(* when it never arrives; malformed packets and OPTIONS start no handler.    *)
EXTENDS Naturals

CONSTANTS
    Packets,        \* the packets that may arrive
    CallIds, CallId,        \* the correlation id of each packet
    Method,         \* "INVITE", "BYE" or "OTHER", of each packet
    Companies, None,
    Company,        \* the company of the called DID of each packet, or None
    Chats,
    BotEnabled      \* there is a TELEGRAM_BOT_TOKEN

ASSUME PacketsAssumption ==
    /\ CallId \in [Packets -> CallIds]
    /\ Method \in [Packets -> {"INVITE", "BYE", "OTHER"}]
    /\ Company \in [Packets -> Companies \cup {None}]
    /\ None \notin Companies
    /\ BotEnabled \in BOOLEAN

VARIABLES
    sipSession,     \* id of the SipSession row of each call id, 0 if none
    nextId,         \* the autoincrement sequence of that table
    sipMessage,     \* the SipMessage rows: packet and session
    telegramChat,   \* the company each chat is bound to, or None
    pc,             \* where the handler of each packet is
    session,        \* the session it works with, 0 before
    chats,          \* chats it read and has not tried yet
    alerted,        \* what became of its alert to each chat
    steady          \* history: chats bound to its company ever since it began

dbVars == <<sipSession, nextId, sipMessage>>
alertVars == <<telegramChat, chats, alerted>>
vars == <<dbVars, alertVars, pc, session, steady>>

\* Places at which the handler waits for the database, whose error it catches
\* and logs.
Waiting == {"create", "refind", "message", "did", "chats"}

TypeOK ==
    /\ sipSession \in [CallIds -> Nat]
    /\ nextId \in Nat \ {0}
    /\ sipMessage \subseteq [packet : Packets, session : Nat]
    /\ telegramChat \in [Chats -> Companies \cup {None}]
    /\ pc \in [Packets -> Waiting \cup {"new", "alert", "done", "failed", "rethrown"}]
    /\ session \in [Packets -> Nat]
    /\ chats \in [Packets -> SUBSET Chats]
    /\ alerted \in [Packets -> [Chats -> {"no", "sent", "failed"}]]
    /\ steady \in [Packets -> SUBSET Chats]

Init ==
    /\ sipSession = [c \in CallIds |-> 0]
    /\ nextId = 1
    /\ sipMessage = {}
    /\ telegramChat \in [Chats -> Companies \cup {None}]
    /\ pc = [p \in Packets |-> "new"]
    /\ session = [p \in Packets |-> 0]
    /\ chats = [p \in Packets |-> {}]
    /\ alerted = [p \in Packets |-> [ch \in Chats |-> "no"]]
    /\ steady = [p \in Packets |-> {}]

Goto(p, place) == pc' = [pc EXCEPT ![p] = place]

\* A stored message is the end of the handler, but for an INVITE.
AfterMessage(p) == IF Method[p] = "INVITE" THEN "did" ELSE "done"

BoundTo(company) == {ch \in Chats : company # None /\ telegramChat[ch] = company}
-----------------------------------------------------------------------------
(* findOrCreateSession and saveSipMessage *)

\* The first lookup, for an INVITE or for a message that is merely logged.
FindSession(p) ==
    /\ pc[p] = "new" /\ Method[p] # "BYE"
    /\ IF sipSession[CallId[p]] # 0
       THEN /\ session' = [session EXCEPT ![p] = sipSession[CallId[p]]]
            /\ Goto(p, "message")
       ELSE Goto(p, "create") /\ UNCHANGED session
    /\ steady' = [steady EXCEPT ![p] = BoundTo(Company[p])]
    /\ UNCHANGED <<dbVars, alertVars>>

\* Mutant: callId has no unique index, both handlers insert.
BadCreateSession(p) ==
    /\ pc[p] = "create"
    /\ nextId' = nextId + 1
    /\ sipSession' = [sipSession EXCEPT ![CallId[p]] = nextId]
    /\ session' = [session EXCEPT ![p] = nextId]
    /\ Goto(p, "message")
    /\ UNCHANGED <<sipMessage, alertVars, steady>>

\* Mutant: the caught error gives no session instead of a second lookup.
BadCreateNull(p) ==
    /\ pc[p] = "create"
    /\ nextId' = nextId + 1
    /\ LET free == sipSession[CallId[p]] = 0 IN
          /\ sipSession' = IF free THEN [sipSession EXCEPT ![CallId[p]] = nextId] ELSE sipSession
          /\ session' = [session EXCEPT ![p] = IF free THEN nextId ELSE None]
    /\ Goto(p, "message")
    /\ UNCHANGED <<sipMessage, alertVars, steady>>

\* The insert, which the unique index on callId refuses (P2002) when a handler
\* of another packet was faster. The sequence advances in both cases.
CreateSession(p) ==
    /\ pc[p] = "create"
    /\ nextId' = nextId + 1
    /\ IF sipSession[CallId[p]] = 0
       THEN /\ sipSession' = [sipSession EXCEPT ![CallId[p]] = nextId]
            /\ session' = [session EXCEPT ![p] = nextId]
            /\ Goto(p, "message")
       ELSE Goto(p, "refind") /\ UNCHANGED <<sipSession, session>>
    /\ UNCHANGED <<sipMessage, alertVars, steady>>

\* The second lookup after P2002; an error is thrown again if it finds nothing.
RefindSession(p) ==
    /\ pc[p] = "refind"
    /\ IF sipSession[CallId[p]] # 0
       THEN /\ session' = [session EXCEPT ![p] = sipSession[CallId[p]]]
            /\ Goto(p, "message")
       ELSE Goto(p, "rethrown") /\ UNCHANGED session
    /\ UNCHANGED <<dbVars, alertVars, steady>>

SaveMessage(p) ==
    /\ pc[p] = "message"
    /\ sipMessage' = sipMessage \cup {[packet |-> p, session |-> session[p]]}
    /\ Goto(p, AfterMessage(p))
    /\ UNCHANGED <<sipSession, nextId, alertVars, session, steady>>
-----------------------------------------------------------------------------
(* the alert *)

\* sendCallAlert: the alert goes to the chats of the company whose number was
\* called, if there is a bot. What the message says is left out.
CallAlert(p) == Goto(p, IF Company[p] # None /\ BotEnabled THEN "chats" ELSE "done")

\* Whose number was called. A BYE begins here and is never stored.
FindDid(p) ==
    /\ \/ pc[p] = "did" /\ UNCHANGED steady
       \/ /\ pc[p] = "new" /\ Method[p] = "BYE"
          /\ steady' = [steady EXCEPT ![p] = BoundTo(Company[p])]
    /\ CallAlert(p)
    /\ UNCHANGED <<dbVars, alertVars, session>>

FindChats(p) ==
    /\ pc[p] = "chats"
    /\ chats' = [chats EXCEPT ![p] = BoundTo(Company[p])]
    /\ Goto(p, IF BoundTo(Company[p]) = {} THEN "done" ELSE "alert")
    /\ UNCHANGED <<dbVars, telegramChat, alerted, session, steady>>

\* Mutant: an error of one chat leaves the loop.
BadAlertOne(p, ch) ==
    /\ pc[p] = "alert" /\ ch \in chats[p]
    /\ \E outcome \in {"sent", "failed"} :
          /\ alerted' = [alerted EXCEPT ![p][ch] = outcome]
          /\ chats' = [chats EXCEPT ![p] = IF outcome = "failed" THEN {} ELSE @ \ {ch}]
          /\ Goto(p, IF chats'[p] = {} THEN "done" ELSE "alert")
    /\ UNCHANGED <<dbVars, telegramChat, session, steady>>

\* One turn of sendToCompany's loop: an error is logged, the loop goes on.
AlertOne(p, ch) ==
    /\ pc[p] = "alert" /\ ch \in chats[p]
    /\ \E outcome \in {"sent", "failed"} :
          alerted' = [alerted EXCEPT ![p][ch] = outcome]
    /\ chats' = [chats EXCEPT ![p] = @ \ {ch}]
    /\ Goto(p, IF chats[p] = {ch} THEN "done" ELSE "alert")
    /\ UNCHANGED <<dbVars, telegramChat, session, steady>>

\* A database call fails; the handler's catch logs it and nothing is retried.
DatabaseFails(p) ==
    /\ pc[p] \in Waiting
    /\ Goto(p, "failed")
    /\ UNCHANGED <<dbVars, alertVars, session, steady>>

\* The owner, and he alone, asks for the companies with /bind and binds the chat
\* to one with a button (an upsert: a chat has one company).
Bind(ch, company) ==
    /\ telegramChat' = [telegramChat EXCEPT ![ch] = company]
    /\ steady' = [p \in Packets |->
                    IF Company[p] = company THEN steady[p] ELSE steady[p] \ {ch}]
    /\ UNCHANGED <<dbVars, chats, alerted, pc, session>>

Next ==
    \/ \E p \in Packets :
          \/ FindSession(p) \/ CreateSession(p) \/ RefindSession(p) \/ SaveMessage(p)
          \/ FindDid(p) \/ FindChats(p) \/ DatabaseFails(p)
          \/ \E ch \in Chats : AlertOne(p, ch)
    \/ \E ch \in Chats, company \in Companies : Bind(ch, company)

Spec == Init /\ [][Next]_vars
-----------------------------------------------------------------------------
(* Properties *)

\* All messages of a call are in one session, which is the call's own and no
\* other call's, however the handlers of its packets overlap; and a handler that
\* lost the race for the insert finds the winner's row, "This should not be null
\* if P2002 was thrown" (sip-session.service.ts:59).
OneSessionPerCall ==
    /\ \A m, n \in sipMessage :
         (m.session = n.session) <=> (CallId[m.packet] = CallId[n.packet])
    /\ \A p \in Packets : pc[p] # "rethrown"

\* An alert that is over was tried at every chat that was bound to the company
\* all the time, whatever happened at the other chats, and an INVITE is alerted
\* only once it is stored.
EveryChatIsTried ==
    \A p \in Packets :
        /\ pc[p] = "done" /\ Method[p] # "OTHER" /\ Company[p] # None /\ BotEnabled
              => \A ch \in steady[p] : alerted[p][ch] # "no"
        /\ Method[p] = "INVITE" /\ (\E ch \in Chats : alerted[p][ch] # "no")
              => \E m \in sipMessage : m.packet = p

\* The three queries implement one atomic find-or-create.
Atomic == INSTANCE FindOrCreate WITH
    Keys <- CallIds, Requests <- Packets, KeyOf <- CallId,
    row <- sipSession, got <- session
SessionsAreAtomic == Atomic!Spec
=============================================================================
