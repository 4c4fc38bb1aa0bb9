-------------------------- MODULE SipTrace_proofs --------------------------
(* Proofs about SipTrace, for every number of packets, calls and chats.      *)
EXTENDS SipTrace, TLAPS

(* Type correctness *)

LEMMA BoundToChats == \A company : BoundTo(company) \in SUBSET Chats
BY DEF BoundTo

LEMMA TypeInductive == TypeOK /\ [Next]_vars => TypeOK'
<1> SUFFICES ASSUME TypeOK, [Next]_vars PROVE TypeOK'
  OBVIOUS
<1> USE PacketsAssumption, BoundToChats DEF TypeOK, Waiting, Goto, AfterMessage, dbVars, alertVars
<1>1. ASSUME NEW p \in Packets, FindSession(p) PROVE TypeOK'
  <2>1. CallId[p] \in CallIds /\ sipSession[CallId[p]] \in Nat
    OBVIOUS
  <2>2. session' \in [Packets -> Nat]
    <3>1. session' = session \/ session' = [session EXCEPT ![p] = sipSession[CallId[p]]]
      BY <1>1 DEF FindSession
    <3> QED
      BY <2>1, <3>1
  <2>3. pc' \in [Packets -> Waiting \cup {"new", "alert", "done", "failed", "rethrown"}]
    <3>1. \E place \in {"message", "create"} : pc' = [pc EXCEPT ![p] = place]
      BY <1>1 DEF FindSession
    <3> QED
      BY <3>1
  <2> QED
    BY <1>1, <2>2, <2>3 DEF FindSession
<1>2. ASSUME NEW p \in Packets, CreateSession(p) PROVE TypeOK'
  <2>1. CallId[p] \in CallIds /\ nextId \in Nat /\ nextId' \in Nat \ {0}
    BY <1>2 DEF CreateSession
  <2>2. sipSession' \in [CallIds -> Nat] /\ session' \in [Packets -> Nat]
    <3>1. /\ sipSession' = sipSession \/ sipSession' = [sipSession EXCEPT ![CallId[p]] = nextId]
          /\ session' = session \/ session' = [session EXCEPT ![p] = nextId]
      BY <1>2 DEF CreateSession
    <3>2. sipSession' \in [CallIds -> Nat]
      BY <2>1, <3>1
    <3>3. session' \in [Packets -> Nat]
      BY <2>1, <3>1
    <3> QED
      BY <3>2, <3>3
  <2>3. pc' \in [Packets -> Waiting \cup {"new", "alert", "done", "failed", "rethrown"}]
    <3>1. pc' = [pc EXCEPT ![p] = "message"] \/ pc' = [pc EXCEPT ![p] = "refind"]
      BY <1>2 DEF CreateSession
    <3> QED
      BY <3>1
  <2> QED
    BY <1>2, <2>1, <2>2, <2>3 DEF CreateSession
<1>3. ASSUME NEW p \in Packets, RefindSession(p) PROVE TypeOK'
  <2>1. CallId[p] \in CallIds /\ sipSession[CallId[p]] \in Nat
    OBVIOUS
  <2>2. session' \in [Packets -> Nat]
    BY <1>3, <2>1 DEF RefindSession
  <2>3. pc' \in [Packets -> Waiting \cup {"new", "alert", "done", "failed", "rethrown"}]
    BY <1>3 DEF RefindSession
  <2> QED
    BY <1>3, <2>2, <2>3 DEF RefindSession
<1>4. ASSUME NEW p \in Packets, SaveMessage(p) PROVE TypeOK'
  BY <1>4 DEF SaveMessage
<1>5. ASSUME NEW p \in Packets, FindDid(p) PROVE TypeOK'
  <2>1. steady' \in [Packets -> SUBSET Chats]
    BY <1>5 DEF FindDid, CallAlert
  <2>2. pc' \in [Packets -> Waiting \cup {"new", "alert", "done", "failed", "rethrown"}]
    BY <1>5 DEF FindDid, CallAlert
  <2> QED
    BY <1>5, <2>1, <2>2 DEF FindDid, CallAlert
<1>6. ASSUME NEW p \in Packets, FindChats(p) PROVE TypeOK'
  BY <1>6 DEF FindChats
<1>7. ASSUME NEW p \in Packets, DatabaseFails(p) PROVE TypeOK'
  BY <1>7 DEF DatabaseFails
<1>8. ASSUME NEW p \in Packets, NEW ch \in Chats, AlertOne(p, ch) PROVE TypeOK'
  BY <1>8 DEF AlertOne
<1>9. ASSUME NEW ch \in Chats, NEW company \in Companies, Bind(ch, company) PROVE TypeOK'
  BY <1>9 DEF Bind
<1>10. CASE UNCHANGED vars
  BY <1>10 DEF vars, dbVars, alertVars
<1> QED
  BY <1>1, <1>2, <1>3, <1>4, <1>5, <1>6, <1>7, <1>8, <1>9, <1>10 DEF Next

\* Every variable keeps its type.
THEOREM TypeCorrect == Spec => []TypeOK
<1>1. Init => TypeOK
  BY DEF Init, TypeOK, Waiting
<1> QED
  BY <1>1, TypeInductive, PTL DEF Spec

(* Sessions *)

\* Ids in use are below the sequence and belong to one call.
IdsAreDistinct ==
  /\ \A c \in CallIds : sipSession[c] < nextId
  /\ \A c, d \in CallIds : sipSession[c] # 0 /\ sipSession[c] = sipSession[d] => c = d

\* What a handler knows of its session, by its place.
HandlerKnows ==
  \A p \in Packets :
    /\ session[p] # 0 => session[p] = sipSession[CallId[p]]
    /\ pc[p] \in {"new", "create", "refind"} => session[p] = 0
    /\ pc[p] = "message" => session[p] # 0
    /\ pc[p] = "refind" => sipSession[CallId[p]] # 0

\* A stored message is in the session of its call.
StoredInSession ==
  \A m \in sipMessage :
    m.session = sipSession[CallId[m.packet]] /\ m.session # 0

\* A handler whose insert is refused finds the row that refused it.
LoserFindsSession == \A p \in Packets : pc[p] # "rethrown"

SessionInv ==
  IdsAreDistinct /\ HandlerKnows /\ StoredInSession /\ LoserFindsSession

LEMMA SessionInductive == TypeOK /\ SessionInv /\ [Next]_vars => SessionInv'
<1> SUFFICES ASSUME TypeOK, SessionInv, [Next]_vars PROVE SessionInv'
  OBVIOUS
<1> USE PacketsAssumption DEF TypeOK, SessionInv, IdsAreDistinct, HandlerKnows, StoredInSession,
        LoserFindsSession, Waiting, Goto, AfterMessage, dbVars, alertVars
<1>1. ASSUME NEW p \in Packets, FindSession(p) PROVE SessionInv'
  <2>1. CASE sipSession[CallId[p]] # 0
    BY <1>1, <2>1 DEF FindSession
  <2>2. CASE ~ (sipSession[CallId[p]] # 0)
    BY <1>1, <2>2 DEF FindSession
  <2> QED
    BY <2>1, <2>2
<1>2. ASSUME NEW p \in Packets, CreateSession(p) PROVE SessionInv'
  <2>1. CASE sipSession[CallId[p]] = 0
    <3>1. CallId[p] \in CallIds /\ nextId \in Nat \ {0}
      OBVIOUS
    <3>2. /\ sipSession' = [sipSession EXCEPT ![CallId[p]] = nextId]
          /\ session' = [session EXCEPT ![p] = nextId] /\ pc' = [pc EXCEPT ![p] = "message"]
          /\ nextId' = nextId + 1 /\ sipMessage' = sipMessage
      BY <1>2, <2>1 DEF CreateSession
    <3>3. IdsAreDistinct'
      BY <3>1, <3>2
    <3>4. HandlerKnows' /\ LoserFindsSession'
      BY <2>1, <3>1, <3>2
    <3>5. StoredInSession'
      BY <2>1, <3>1, <3>2
    <3> QED
      BY <3>3, <3>4, <3>5
  <2>2. CASE ~ (sipSession[CallId[p]] = 0)
    BY <1>2, <2>2 DEF CreateSession
  <2> QED
    BY <2>1, <2>2
<1>3. ASSUME NEW p \in Packets, RefindSession(p) PROVE SessionInv'
  BY <1>3 DEF RefindSession
<1>4. ASSUME NEW p \in Packets, SaveMessage(p) PROVE SessionInv'
  BY <1>4 DEF SaveMessage
<1>5. ASSUME NEW p \in Packets, FindDid(p) PROVE SessionInv'
  BY <1>5 DEF FindDid, CallAlert
<1>6. ASSUME NEW p \in Packets, FindChats(p) PROVE SessionInv'
  BY <1>6 DEF FindChats
<1>7. ASSUME NEW p \in Packets, DatabaseFails(p) PROVE SessionInv'
  BY <1>7 DEF DatabaseFails
<1>8. ASSUME NEW p \in Packets, NEW ch \in Chats, AlertOne(p, ch) PROVE SessionInv'
  BY <1>8 DEF AlertOne
<1>9. ASSUME NEW ch \in Chats, NEW company \in Companies, Bind(ch, company) PROVE SessionInv'
  BY <1>9 DEF Bind
<1>10. CASE UNCHANGED vars
  BY <1>10 DEF vars, dbVars, alertVars
<1> QED
  BY <1>1, <1>2, <1>3, <1>4, <1>5, <1>6, <1>7, <1>8, <1>9, <1>10 DEF Next

LEMMA SessionInvariant == Spec => [](TypeOK /\ SessionInv)
<1>1. Init => TypeOK /\ SessionInv
  BY DEF Init, TypeOK, Waiting, SessionInv, IdsAreDistinct, HandlerKnows, StoredInSession,
         LoserFindsSession
<1> QED
  BY <1>1, TypeInductive, SessionInductive, PTL DEF Spec

\* Messages are in one session exactly when they are of one call, and the lookup
\* after a refused insert always finds the row.
THEOREM CallsHaveOneSession == Spec => []OneSessionPerCall
<1>1. TypeOK /\ SessionInv => OneSessionPerCall
  BY PacketsAssumption DEF TypeOK, SessionInv, IdsAreDistinct, StoredInSession, LoserFindsSession,
                           OneSessionPerCall
<1> QED
  BY <1>1, SessionInvariant, PTL

\* Every step is a step of the atomic find-or-create, or none.
LEMMA AtomicStep ==
  TypeOK /\ SessionInv /\ [Next]_vars => [Atomic!Next]_<<sipSession, session>>
<1> SUFFICES ASSUME TypeOK, SessionInv, [Next]_vars
             PROVE  Atomic!Next \/ UNCHANGED <<sipSession, session>>
  OBVIOUS
<1> USE PacketsAssumption DEF TypeOK, SessionInv, IdsAreDistinct, HandlerKnows, dbVars, alertVars
<1>1. ASSUME NEW p \in Packets, FindSession(p) \/ RefindSession(p)
      PROVE  Atomic!Find(p) \/ UNCHANGED <<sipSession, session>>
  BY <1>1 DEF FindSession, RefindSession, Atomic!Find
<1>2. ASSUME NEW p \in Packets, CreateSession(p)
      PROVE  Atomic!Create(p) \/ UNCHANGED <<sipSession, session>>
  BY <1>2 DEF CreateSession, Atomic!Create
<1>3. ASSUME NEW p \in Packets, SaveMessage(p) \/ FindDid(p) \/ FindChats(p) \/ DatabaseFails(p)
      PROVE  UNCHANGED <<sipSession, session>>
  BY <1>3 DEF SaveMessage, FindDid, CallAlert, FindChats, DatabaseFails
<1>4. ASSUME NEW p \in Packets, NEW ch \in Chats, AlertOne(p, ch)
      PROVE  UNCHANGED <<sipSession, session>>
  BY <1>4 DEF AlertOne
<1>5. ASSUME NEW ch \in Chats, NEW company \in Companies, Bind(ch, company)
      PROVE  UNCHANGED <<sipSession, session>>
  BY <1>5 DEF Bind
<1>6. CASE UNCHANGED vars
  BY <1>6 DEF vars
<1> QED
  BY <1>1, <1>2, <1>3, <1>4, <1>5, <1>6 DEF Next, Atomic!Next

\* findOrCreateSession's three queries behave as one atomic step.
THEOREM FindOrCreateIsAtomic == Spec => SessionsAreAtomic
<1>1. Init => Atomic!Init
  BY DEF Init, Atomic!Init
<1> QED
  BY <1>1, AtomicStep, SessionInvariant, PTL DEF Spec, SessionsAreAtomic, Atomic!Spec

(* Alerts *)

\* A BYE has nothing to do with sessions.
ByesAreNotStored ==
  \A p \in Packets : Method[p] = "BYE" => pc[p] \notin {"create", "refind", "message"}

\* A chat that has been bound all the time is bound now, so FindChats sees it;
\* until it is tried it is still to be tried.
SteadyIsBound == \A p \in Packets : steady[p] \subseteq BoundTo(Company[p])

SteadyIsPending ==
  \A p \in Packets : pc[p] = "alert" =>
    \A ch \in steady[p] : alerted[p][ch] # "no" \/ ch \in chats[p]

\* Only a handler that has come so far has alerted anybody or needs the message.
AlertPlaces ==
  \A p \in Packets :
    /\ (\E ch \in Chats : alerted[p][ch] # "no") => pc[p] \in {"alert", "done"}
    /\ Method[p] = "INVITE" /\ pc[p] \in {"did", "chats", "alert", "done"}
         => \E m \in sipMessage : m.packet = p

AlertInv ==
  ByesAreNotStored /\ SteadyIsBound /\ SteadyIsPending /\ AlertPlaces /\ EveryChatIsTried

LEMMA AlertInductive == TypeOK /\ AlertInv /\ [Next]_vars => AlertInv'
<1> SUFFICES ASSUME TypeOK, AlertInv, [Next]_vars PROVE AlertInv'
  OBVIOUS
<1> USE PacketsAssumption DEF TypeOK, AlertInv, ByesAreNotStored, SteadyIsBound, SteadyIsPending,
        AlertPlaces, EveryChatIsTried, Waiting, Goto, AfterMessage, BoundTo, dbVars, alertVars
<1>1. ASSUME NEW p \in Packets, FindSession(p) PROVE AlertInv'
  <2>1. /\ pc[p] = "new" /\ Method[p] # "BYE"
        /\ \E place \in {"message", "create"} : pc' = [pc EXCEPT ![p] = place]
        /\ steady' = [steady EXCEPT ![p] = BoundTo(Company[p])]
        /\ UNCHANGED <<sipMessage, alertVars>>
    BY <1>1 DEF FindSession
  <2>2. ByesAreNotStored' /\ SteadyIsBound' /\ SteadyIsPending'
    BY <2>1
  <2>3. AlertPlaces'
    BY <2>1
  <2>4. EveryChatIsTried'
    BY <2>1
  <2> QED
    BY <2>2, <2>3, <2>4
<1>2. ASSUME NEW p \in Packets, CreateSession(p) PROVE AlertInv'
  <2>1. /\ pc[p] = "create" /\ Method[p] # "BYE"
        /\ \E place \in {"message", "refind"} : pc' = [pc EXCEPT ![p] = place]
        /\ UNCHANGED steady
        /\ UNCHANGED <<sipMessage, alertVars>>
    BY <1>2 DEF CreateSession
  <2>2. ByesAreNotStored' /\ SteadyIsBound' /\ SteadyIsPending'
    BY <2>1
  <2>3. AlertPlaces'
    BY <2>1
  <2>4. EveryChatIsTried'
    BY <2>1
  <2> QED
    BY <2>2, <2>3, <2>4
<1>3. ASSUME NEW p \in Packets, RefindSession(p) PROVE AlertInv'
  <2>1. /\ pc[p] = "refind" /\ Method[p] # "BYE"
        /\ \E place \in {"message", "rethrown"} : pc' = [pc EXCEPT ![p] = place]
        /\ UNCHANGED steady
        /\ UNCHANGED <<sipMessage, alertVars>>
    BY <1>3 DEF RefindSession
  <2>2. ByesAreNotStored' /\ SteadyIsBound' /\ SteadyIsPending'
    BY <2>1
  <2>3. AlertPlaces'
    BY <2>1
  <2>4. EveryChatIsTried'
    BY <2>1
  <2> QED
    BY <2>2, <2>3, <2>4
<1>4. ASSUME NEW p \in Packets, SaveMessage(p) PROVE AlertInv'
  <2>1. ByesAreNotStored'
    BY <1>4 DEF SaveMessage
  <2>2. SteadyIsBound' /\ SteadyIsPending'
    BY <1>4 DEF SaveMessage
  <2>3. AlertPlaces'
    <3>1. /\ pc[p] = "message" /\ pc' = [pc EXCEPT ![p] = AfterMessage(p)]
          /\ [packet |-> p, session |-> session[p]] \in sipMessage'
          /\ sipMessage \subseteq sipMessage' /\ UNCHANGED alerted
      BY <1>4 DEF SaveMessage
    <3> QED
      BY <3>1
  <2>4. EveryChatIsTried'
    BY <1>4 DEF SaveMessage
  <2> QED
    BY <2>1, <2>2, <2>3, <2>4
<1>5. ASSUME NEW p \in Packets, FindDid(p) PROVE AlertInv'
  <2>1. ByesAreNotStored'
    BY <1>5 DEF FindDid, CallAlert
  <2>2. SteadyIsBound' /\ SteadyIsPending'
    <3>1. /\ steady' = steady \/ steady' = [steady EXCEPT ![p] = BoundTo(Company[p])]
          /\ UNCHANGED alertVars
          /\ \E place \in {"chats", "done"} : pc' = [pc EXCEPT ![p] = place]
          /\ pc[p] \in {"did", "new"}
      BY <1>5 DEF FindDid, CallAlert
    <3>2. SteadyIsBound'
      <4>1. \A company : BoundTo(company)' = BoundTo(company)
        BY <3>1
      <4>2. \A q \in Packets : steady'[q] = steady[q] \/ steady'[q] = BoundTo(Company[q])
        BY <3>1
      <4>3. \A q \in Packets : steady[q] \subseteq BoundTo(Company[q])
        OBVIOUS
      <4> HIDE DEF TypeOK, AlertInv, ByesAreNotStored, SteadyIsPending, AlertPlaces, EveryChatIsTried, BoundTo
      <4> QED
        BY <4>1, <4>2, <4>3
    <3>3. pc'[p] # "alert" /\ \A q \in Packets \ {p} : pc'[q] = pc[q] /\ steady'[q] = steady[q]
      BY <3>1
    <3>4. SteadyIsPending'
      BY <3>1, <3>3
    <3> QED
      BY <3>2, <3>4
  <2>3. AlertPlaces'
    BY <1>5 DEF FindDid, CallAlert
  <2>4. EveryChatIsTried'
    BY <1>5 DEF FindDid, CallAlert
  <2> QED
    BY <2>1, <2>2, <2>3, <2>4
<1>6. ASSUME NEW p \in Packets, FindChats(p) PROVE AlertInv'
  <2>1. ByesAreNotStored'
    BY <1>6 DEF FindChats
  <2>2. SteadyIsBound' /\ SteadyIsPending'
    BY <1>6 DEF FindChats
  <2>3. AlertPlaces'
    BY <1>6 DEF FindChats
  <2>4. EveryChatIsTried'
    BY <1>6 DEF FindChats
  <2> QED
    BY <2>1, <2>2, <2>3, <2>4
<1>7. ASSUME NEW p \in Packets, DatabaseFails(p) PROVE AlertInv'
  BY <1>7 DEF DatabaseFails
<1>8. ASSUME NEW p \in Packets, NEW ch \in Chats, AlertOne(p, ch) PROVE AlertInv'
  BY <1>8 DEF AlertOne
<1>9. ASSUME NEW ch \in Chats, NEW company \in Companies, Bind(ch, company) PROVE AlertInv'
  BY <1>9 DEF Bind
<1>10. CASE UNCHANGED vars
  BY <1>10 DEF vars, dbVars, alertVars
<1> QED
  BY <1>1, <1>2, <1>3, <1>4, <1>5, <1>6, <1>7, <1>8, <1>9, <1>10 DEF Next

\* A finished alert was tried at every chat of the company, and an INVITE is
\* alerted only once it is stored.
THEOREM AlertsReachEveryChat == Spec => []EveryChatIsTried
<1>1. Init => TypeOK /\ AlertInv
  BY DEF Init, TypeOK, Waiting, AlertInv, ByesAreNotStored, SteadyIsBound, SteadyIsPending,
         AlertPlaces, EveryChatIsTried
<1>2. AlertInv => EveryChatIsTried
  BY DEF AlertInv
<1> QED
  BY <1>1, <1>2, TypeInductive, AlertInductive, PTL DEF Spec
=============================================================================
