------------------------ MODULE BlindTransfer_proofs ------------------------
(***************************************************************************)
(* Proofs about BlindTransfer, for every number of calls, agents, leads    *)
(* and keys: transfers implement the life of a call, so that everything    *)
(* proved of CallLifecycle holds of them, and leave nothing behind.        *)
(***************************************************************************)
EXTENDS BlindTransfer, CallLifecycle_proofs, FiniteSetTheorems

allVars == <<vars, transferVars>>

\* The variables of CallLifecycle change in a CallStep and in HangUpAgent only.
LEMMA StepCases ==
  ASSUME [TransferNext]_allVars
  PROVE  \/ CallStep
         \/ \E x \in Legs : StartTransfer(x)
         \/ \E x \in Legs : FinishTransfer(x)
         \/ \E x \in Legs, k \in Keys : PressRepeated(x, k)
         \/ \E x \in Legs, k \in Keys : KeyDigit(x, k)
         \/ \E x \in Legs, k \in Keys : KeyIgnored(x, k)
         \/ \E c \in Calls, i \in Presses : Send(c, i)
         \/ \E c \in Calls, i \in Presses : SendFailed(c, i)
         \/ \E c \in Calls, i \in Presses : HangUpAgent(c, i)
         \/ \E c \in Calls, i \in Presses : DeleteTransfer(c, i)
         \/ UNCHANGED allVars
BY DEF TransferNext, Press, Finish

\* The hangup of a transfer is the end of a channel, as Asterisk may end it.
LEMMA HangUpIsEnd ==
  ASSUME TypeOK, NEW c \in Calls, NEW i \in Presses, HangUpAgent(c, i)
  PROVE  [Next]_vars
<1>1. CASE chan[AgentLeg(c)] \in {"dialing", "up"}
  <2>1. End(AgentLeg(c))
    BY <1>1 DEF HangUpAgent, Transferor, MetaAfterHangup, End, memory
  <2> QED
    BY <2>1 DEF Next, Environment
<1>2. CASE chan[AgentLeg(c)] \notin {"dialing", "up"}
  <2>1. chan' = chan
    BY <1>2, LegFacts DEF HangUpAgent, Transferor, HungUp, Ended, TypeOK
  <2> QED
    BY <2>1 DEF HangUpAgent, MetaAfterHangup, vars, memory, asterisk
<1> QED
  BY <1>1, <1>2

LEMMA StepRefines ==
  ASSUME TypeOK, [TransferNext]_allVars
  PROVE  [Next]_vars
<1>1. CASE CallStep
  BY <1>1 DEF CallStep
<1>2. ASSUME NEW x \in Legs,
             StartTransfer(x) \/ FinishTransfer(x)
               \/ \E k \in Keys : PressRepeated(x, k) \/ KeyDigit(x, k) \/ KeyIgnored(x, k)
      PROVE  [Next]_vars
  BY <1>2 DEF StartTransfer, FinishTransfer, PressRepeated, KeyDigit, KeyIgnored
<1>3. ASSUME NEW c \in Calls, NEW i \in Presses,
             Send(c, i) \/ SendFailed(c, i) \/ DeleteTransfer(c, i)
      PROVE  [Next]_vars
  BY <1>3 DEF Send, SendFailed, DeleteTransfer
<1>4. CASE UNCHANGED allVars
  BY <1>4 DEF allVars
<1> QED
  BY StepCases, HangUpIsEnd, <1>1, <1>2, <1>3, <1>4

\* The steps of TransferSpec keep the invariants of CallLifecycle.
LEMMA LifecycleInv == TransferSpec => []IInv
<1>1. TransferInit => IInv
  BY InitIInv DEF TransferInit
<1>2. IInv /\ [TransferNext]_<<vars, transferVars>> => IInv'
  <2> SUFFICES ASSUME IInv, [TransferNext]_<<vars, transferVars>> PROVE IInv'
    OBVIOUS
  <2>1. [Next]_vars
    BY StepRefines DEF IInv, allVars
  <2> QED
    BY <2>1, StepKeepsIInv
<1> QED
  BY <1>1, <1>2, PTL DEF TransferSpec

\* The handlers of DTMF implement CallLifecycle: a transfer never does anything
\* to a call that Asterisk or the parties could not do anyway, so every theorem
\* about Spec holds of TransferSpec as well.
THEOREM TransferIsLifecycle == TransferSpec => Spec /\ Lifecycle
<1>1. IInv /\ [TransferNext]_<<vars, transferVars>> => [Next]_vars
  BY StepRefines DEF IInv, allVars
<1>2. TransferInit => Init
  BY DEF TransferInit
<1> QED
  BY <1>1, <1>2, LifecycleInv, PTL DEF TransferSpec, Spec, Lifecycle

\* So calls stay safe, whatever is keyed and transferred: statuses are true to
\* what happened, records keep their agent, leads close with their call, legs are
\* known, nobody is left alone, whoever waits is timed, and the CRM's ledger is kept.
COROLLARY TransfersKeepCallsSafe ==
  TransferSpec => /\ [](/\ NoFalseAnswer /\ AttributedToLinkedAgent /\ ClosedAfterEnd
                        /\ KnownUntilForgotten /\ NobodyLeftAlone /\ WaitingIsTimed)
                  /\ LedgerKept
BY TransferIsLifecycle, OnlyConversationsAreAnswered, LinkedAgentKeepsTheCall,
   LeadsCloseAfterTheirCall, LegsAreKnown, PartnersAreReleased, WaitingCustomersAreTimed, LedgerIsKept, PTL

-----------------------------------------------------------------------------
(***************************************************************************)
(* Types.                                                                  *)
(***************************************************************************)
KeyHandler == [at: {"idle", "sending", "hanging", "deleting"}, ext: Seq(Digits)]

LEMMA KeyTyped ==
  ASSUME TransferTypeOK, NEW x \in Legs, NEW k \in Keys, Taken(x, k)
  PROVE  /\ lastDtmf' \in [Legs -> Keys \cup {None}]
         /\ keyed' \in [Calls -> Seq(Legs \X Keys)]
<1>1. keyed[x[1]] \in Seq(Legs \X Keys)
  BY LegFacts DEF TransferTypeOK
<1>2. Append(keyed[x[1]], <<x, k>>) \in Seq(Legs \X Keys)
  BY <1>1
<1> QED
  BY <1>2, LegFacts DEF Taken, TransferTypeOK

LEMMA NewHandler ==
  ASSUME TransferTypeOK, NEW x \in Legs, MayPress(x)
  PROVE  Len(keyed[x[1]]) + 1 \in Presses
<1>1. Len(keyed[x[1]]) \in Nat
  BY LegFacts DEF TransferTypeOK
<1> QED
  BY <1>1, MaxKeysAssumption DEF MayPress, Presses

THEOREM TransferTypeCorrect == TransferSpec => []TransferTypeOK
<1>1. TransferInit => TransferTypeOK
  BY DEF TransferInit, TransferTypeOK
<1>2. TransferTypeOK /\ [TransferNext]_<<vars, transferVars>> => TransferTypeOK'
  <2> SUFFICES ASSUME TransferTypeOK, [TransferNext]_<<vars, transferVars>>
               PROVE  TransferTypeOK'
    OBVIOUS
  <2>1. CASE CallStep
    BY <2>1 DEF CallStep, TransferTypeOK
  <2>2. ASSUME NEW x \in Legs, StartTransfer(x) PROVE TransferTypeOK'
    <3>1. Hash \in Keys
      BY DEF Keys
    <3>2. <<>> \in Seq(Digits)
      OBVIOUS
    <3>3. pendingTransfers' \in [Calls -> Seq(Digits) \cup {None}]
      BY <2>2, <3>2 DEF StartTransfer, TransferTypeOK
    <3> QED
      BY <2>2, <3>1, <3>3, KeyTyped DEF StartTransfer, TransferTypeOK
  <2>3. ASSUME NEW x \in Legs, FinishTransfer(x) PROVE TransferTypeOK'
    <3>1. Hash \in Keys
      BY DEF Keys
    <3>2. pendingTransfers[x[1]] \in Seq(Digits)
      BY <2>3, LegFacts DEF FinishTransfer, InTransfer, TransferTypeOK
    <3>3. <<x[1], Len(keyed[x[1]]) + 1>> \in Calls \X Presses
      BY <2>3, NewHandler, LegFacts DEF FinishTransfer, Taken
    <3>4. finishing' \in [Calls \X Presses -> KeyHandler]
      BY <2>3, <3>2, <3>3 DEF FinishTransfer, TransferTypeOK, KeyHandler
    <3> QED
      BY <2>3, <3>1, <3>4, KeyTyped DEF FinishTransfer, TransferTypeOK, KeyHandler
  <2>4. ASSUME NEW x \in Legs, NEW k \in Keys, PressRepeated(x, k) PROVE TransferTypeOK'
    <3>1. keyed[x[1]] \in Seq(Legs \X Keys)
      BY LegFacts DEF TransferTypeOK
    <3>2. Append(keyed[x[1]], <<x, k>>) \in Seq(Legs \X Keys)
      BY <3>1
    <3> QED
      BY <2>4, <3>2, LegFacts DEF PressRepeated, Forgotten, TransferTypeOK
  <2>5. ASSUME NEW x \in Legs, NEW k \in Keys, KeyDigit(x, k) PROVE TransferTypeOK'
    <3>1. k \in Digits /\ pendingTransfers[x[1]] \in Seq(Digits)
      BY <2>5, LegFacts DEF KeyDigit, IsDigit, InTransfer, Keys, TransferTypeOK
    <3>2. Append(pendingTransfers[x[1]], k) \in Seq(Digits)
      BY <3>1
    <3>3. pendingTransfers' \in [Calls -> Seq(Digits) \cup {None}]
      BY <2>5, <3>2 DEF KeyDigit, TransferTypeOK
    <3> QED
      BY <2>5, <3>3, KeyTyped DEF KeyDigit, TransferTypeOK
  <2>6. ASSUME NEW x \in Legs, NEW k \in Keys, KeyIgnored(x, k) PROVE TransferTypeOK'
    BY <2>6, KeyTyped DEF KeyIgnored, TransferTypeOK
  <2>7. ASSUME NEW c \in Calls, NEW i \in Presses, Send(c, i) PROVE TransferTypeOK'
    <3>1. Extension(finishing[<<c, i>>].ext) \in Seq(Digits) \cup {DefaultExt}
      BY DEF TransferTypeOK, Extension
    <3>2. finishing' \in [Calls \X Presses -> KeyHandler]
      BY <2>7 DEF Send, Goto, TransferTypeOK, KeyHandler
    <3> QED
      BY <2>7, <3>1, <3>2 DEF Send, TransferTypeOK, KeyHandler
  <2>8. ASSUME NEW c \in Calls, NEW i \in Presses, SendFailed(c, i) \/ HangUpAgent(c, i)
        PROVE  TransferTypeOK'
    <3>1. PICK at \in {"hanging", "deleting"} : Goto(c, i, at)
      BY <2>8 DEF SendFailed, HangUpAgent
    <3>2. finishing' \in [Calls \X Presses -> KeyHandler]
      BY <3>1 DEF Goto, TransferTypeOK, KeyHandler
    <3> QED
      BY <2>8, <3>2 DEF SendFailed, HangUpAgent, TransferTypeOK, KeyHandler
  <2>9. ASSUME NEW c \in Calls, NEW i \in Presses, DeleteTransfer(c, i) PROVE TransferTypeOK'
    <3>1. finishing' \in [Calls \X Presses -> KeyHandler]
      BY <2>9 DEF DeleteTransfer, TransferTypeOK, KeyHandler
    <3> QED
      BY <2>9, <3>1 DEF DeleteTransfer, TransferTypeOK, KeyHandler
  <2>10. CASE UNCHANGED <<vars, transferVars>>
    BY <2>10 DEF transferVars, TransferTypeOK
  <2> QED
    BY StepCases, <2>1, <2>2, <2>3, <2>4, <2>5, <2>6, <2>7, <2>8, <2>9, <2>10 DEF allVars
<1> QED
  BY <1>1, <1>2, PTL DEF TransferSpec

-----------------------------------------------------------------------------
(***************************************************************************)
(* A transfer needs both legs, and the agent's leg is originated once.     *)
(***************************************************************************)

\* What belongs to a transfer of call c.
Transferring(c) ==
  \/ pendingTransfers[c] # None \/ sentTo[c] # None
  \/ \E i \in Presses : finishing[<<c, i>>].at # "idle"

\* A leg with a meta has been originated.
MetaOriginated == \A c \in Calls : channelToMeta[AgentLeg(c)] # None => chan[AgentLeg(c)] # "none"

AgentOriginated == \A c \in Calls : Transferring(c) => chan[AgentLeg(c)] # "none"

LEMMA MetaOriginatedInductive ==
  ASSUME TypeOK, Order, MetaOriginated, [Next]_vars
  PROVE  MetaOriginated'
<1> SUFFICES ASSUME NEW d \in Calls, channelToMeta'[AgentLeg(d)] # None
             PROVE  chan'[AgentLeg(d)] # "none"
  BY DEF MetaOriginated
<1>1. channelToMeta[AgentLeg(d)] # None \/ \E c \in Calls : CallAgent(c) /\ c = d
  BY MetaWriters, LegFacts
  DEF Originate, LinkAgent, MetaLinked, CallAgent, Forget, MetaForgotten, TypeOK
<1>2. CASE channelToMeta[AgentLeg(d)] # None
  BY <1>2, AnsweredForever, LegFacts DEF MetaOriginated, Order
<1>3. CASE CallAgent(d)
  BY <1>3, LegFacts DEF CallAgent, TypeOK
<1> QED
  BY <1>1, <1>2, <1>3

\* Outside the keys that begin a transfer, no call begins to have one.
LEMMA TransferringBefore ==
  ASSUME TransferTypeOK, MetaOriginated, [TransferNext]_allVars, NEW c \in Calls, Transferring(c)'
  PROVE  Transferring(c) \/ channelToMeta[AgentLeg(c)] # None
<1>1. ASSUME CallStep PROVE Transferring(c)
  BY <1>1 DEF CallStep, Transferring
<1>2. ASSUME NEW x \in Legs, StartTransfer(x)
      PROVE  Transferring(c) \/ channelToMeta[AgentLeg(c)] # None
  BY <1>2, LegFacts DEF StartTransfer, BothKnown, Transferring, TransferTypeOK
<1>3. ASSUME NEW x \in Legs, FinishTransfer(x) PROVE Transferring(c)
  <2>1. CASE c = x[1]
    BY <1>3, <2>1 DEF FinishTransfer, InTransfer, Transferring
  <2>2. CASE c # x[1]
    <3>1. \A i \in Presses : finishing'[<<c, i>>] = finishing[<<c, i>>]
      BY <1>3, <2>2 DEF FinishTransfer, TransferTypeOK
    <3> QED
      BY <1>3, <3>1 DEF FinishTransfer, Transferring
  <2> QED
    BY <2>1, <2>2
<1>4. ASSUME NEW x \in Legs, NEW k \in Keys, PressRepeated(x, k) \/ KeyIgnored(x, k)
      PROVE  Transferring(c)
  BY <1>4 DEF PressRepeated, KeyIgnored, Transferring
<1>5. ASSUME NEW x \in Legs, NEW k \in Keys, KeyDigit(x, k) PROVE Transferring(c)
  BY <1>5, LegFacts DEF KeyDigit, InTransfer, Transferring, TransferTypeOK
<1>6. ASSUME NEW d \in Calls, NEW i \in Presses, Send(d, i) \/ SendFailed(d, i) \/ HangUpAgent(d, i)
      PROVE  Transferring(c)
  <2>1. CASE c = d
    BY <1>6, <2>1 DEF Send, SendFailed, HangUpAgent, Transferring
  <2>2. CASE c # d
    <3>1. \A j \in Presses : finishing'[<<c, j>>] = finishing[<<c, j>>]
      BY <1>6, <2>2 DEF Send, SendFailed, HangUpAgent, Goto, TransferTypeOK
    <3>2. sentTo'[c] = sentTo[c]
      BY <1>6, <2>2 DEF Send, SendFailed, HangUpAgent, TransferTypeOK
    <3>3. pendingTransfers' = pendingTransfers
      BY <1>6 DEF Send, SendFailed, HangUpAgent
    <3> QED
      BY <3>1, <3>2, <3>3 DEF Transferring
  <2> QED
    BY <2>1, <2>2
<1>7. ASSUME NEW d \in Calls, NEW i \in Presses, DeleteTransfer(d, i) PROVE Transferring(c)
  <2>1. CASE c = d
    BY <1>7, <2>1 DEF DeleteTransfer, Transferring
  <2>2. CASE c # d
    <3>1. \A j \in Presses : finishing'[<<c, j>>] = finishing[<<c, j>>]
      BY <1>7, <2>2 DEF DeleteTransfer, TransferTypeOK
    <3>2. sentTo' = sentTo /\ pendingTransfers'[c] = pendingTransfers[c]
      BY <1>7, <2>2 DEF DeleteTransfer, TransferTypeOK
    <3> QED
      BY <3>1, <3>2 DEF Transferring
  <2> QED
    BY <2>1, <2>2
<1>8. CASE UNCHANGED allVars
  BY <1>8 DEF allVars, transferVars, Transferring
<1> QED
  BY StepCases, <1>1, <1>2, <1>3, <1>4, <1>5, <1>6, <1>7, <1>8

LEMMA AgentOriginatedInductive ==
  ASSUME TypeOK, Order, TransferTypeOK, MetaOriginated, AgentOriginated, [TransferNext]_allVars
  PROVE  AgentOriginated'
<1> SUFFICES ASSUME NEW c \in Calls, Transferring(c)' PROVE chan'[AgentLeg(c)] # "none"
  BY DEF AgentOriginated
<1>1. chan[AgentLeg(c)] # "none"
  BY TransferringBefore DEF AgentOriginated, MetaOriginated
<1> QED
  BY <1>1, StepRefines, AnsweredForever, LegFacts DEF Order

\* A handler belongs to a key that has been pressed.
HandlersKeyed ==
  \A c \in Calls, i \in Presses : finishing[<<c, i>>].at # "idle" => i <= Len(keyed[c])

LEMMA HandlersKeyedInductive ==
  ASSUME TransferTypeOK, HandlersKeyed, [TransferNext]_allVars
  PROVE  HandlersKeyed'
<1> SUFFICES ASSUME NEW c \in Calls, NEW i \in Presses, finishing'[<<c, i>>].at # "idle"
             PROVE  i <= Len(keyed'[c])
  BY DEF HandlersKeyed
<1>1. keyed[c] \in Seq(Legs \X Keys) /\ Len(keyed[c]) \in Nat /\ i \in Nat
  BY MaxKeysAssumption DEF TransferTypeOK, Presses
<1>2. ASSUME NEW x \in Legs, NEW k \in Keys, keyed' = [keyed EXCEPT ![x[1]] = Append(@, <<x, k>>)]
      PROVE  /\ Len(keyed'[c]) >= Len(keyed[c])
             /\ c = x[1] => Len(keyed'[c]) = Len(keyed[c]) + 1
  <2>1. CASE c = x[1]
    <3>1. keyed'[c] = Append(keyed[c], <<x, k>>)
      BY <1>2, <2>1 DEF TransferTypeOK
    <3>2. <<x, k>> \in Legs \X Keys
      OBVIOUS
    <3>3. Len(keyed'[c]) = Len(keyed[c]) + 1
      BY <1>1, <3>1, <3>2
    <3> QED
      BY <1>1, <3>3
  <2>2. CASE c # x[1]
    BY <1>1, <1>2, <2>2 DEF TransferTypeOK
  <2> QED
    BY <2>1, <2>2
<1>3. ASSUME NEW x \in Legs, FinishTransfer(x) PROVE i <= Len(keyed'[c])
  <2>1. Hash \in Keys /\ keyed' = [keyed EXCEPT ![x[1]] = Append(@, <<x, Hash>>)]
    BY <1>3 DEF FinishTransfer, Taken, Keys
  <2>2. CASE <<c, i>> = <<x[1], Len(keyed[x[1]]) + 1>>
    <3>1. c = x[1] /\ i = Len(keyed[c]) + 1
      BY <2>2
    <3>2. Len(keyed'[c]) = Len(keyed[c]) + 1
      BY <1>2, <2>1, <3>1
    <3> QED
      BY <1>1, <3>1, <3>2
  <2>3. CASE <<c, i>> # <<x[1], Len(keyed[x[1]]) + 1>>
    <3>1. finishing'[<<c, i>>] = finishing[<<c, i>>]
      BY <1>3, <2>3 DEF FinishTransfer, TransferTypeOK
    <3>2. i <= Len(keyed[c])
      BY <3>1 DEF HandlersKeyed
    <3> QED
      BY <1>1, <1>2, <2>1, <3>2
  <2> QED
    BY <2>2, <2>3
<1>4. ASSUME NEW x \in Legs, NEW k \in Keys,
             (StartTransfer(x) /\ k = Hash) \/ PressRepeated(x, k) \/ KeyDigit(x, k) \/ KeyIgnored(x, k)
      PROVE  i <= Len(keyed'[c])
  <2>1. keyed' = [keyed EXCEPT ![x[1]] = Append(@, <<x, k>>)] /\ finishing' = finishing
    BY <1>4 DEF StartTransfer, PressRepeated, KeyDigit, KeyIgnored, Taken
  <2>2. i <= Len(keyed[c])
    BY <2>1 DEF HandlersKeyed
  <2> QED
    BY <1>1, <1>2, <2>1, <2>2
<1>5. ASSUME NEW d \in Calls, NEW j \in Presses,
             Send(d, j) \/ SendFailed(d, j) \/ HangUpAgent(d, j) \/ DeleteTransfer(d, j)
      PROVE  i <= Len(keyed'[c])
  <2>1. keyed' = keyed
    BY <1>5 DEF Send, SendFailed, HangUpAgent, DeleteTransfer
  <2>2. finishing[<<c, i>>].at # "idle"
    <3>1. CASE <<c, i>> = <<d, j>>
      BY <1>5, <3>1 DEF Send, SendFailed, HangUpAgent, DeleteTransfer, TransferTypeOK
    <3>2. CASE <<c, i>> # <<d, j>>
      BY <1>5, <3>2 DEF Send, SendFailed, HangUpAgent, DeleteTransfer, Goto, TransferTypeOK
    <3> QED
      BY <3>1, <3>2
  <2> QED
    BY <2>1, <2>2 DEF HandlersKeyed
<1>6. CASE keyed' = keyed /\ finishing' = finishing
  BY <1>6 DEF HandlersKeyed
<1>7. Hash \in Keys
  BY DEF Keys
<1>8. (CallStep \/ UNCHANGED allVars) => keyed' = keyed /\ finishing' = finishing
  BY DEF CallStep, allVars, transferVars
<1> QED
  BY StepCases, <1>3, <1>4, <1>5, <1>6, <1>7, <1>8

(***************************************************************************)
(* No entry of pendingTransfers is left over.                              *)
(***************************************************************************)
LEMMA PendingInductive ==
  ASSUME TypeOK, Order, TransferTypeOK, PendingHasLiveLeg, [TransferNext]_allVars
  PROVE  PendingHasLiveLeg'
<1> SUFFICES ASSUME NEW c \in Calls, pendingTransfers'[c] # None
             PROVE  \E x \in {Customer(c), AgentLeg(c)} : Answered(x)' /\ endPc'[x] = "idle"
  BY DEF PendingHasLiveLeg
<1> DEFINE Live(x) == Answered(x) /\ endPc[x] = "idle"
<1>1. ASSUME CallStep
      PROVE  \E x \in {Customer(c), AgentLeg(c)} : Answered(x)' /\ endPc'[x] = "idle"
  <2>1. pendingTransfers[c] # None /\ ~Ends(c)
    BY <1>1 DEF CallStep
  <2>2. PICK x \in {Customer(c), AgentLeg(c)} : Live(x)
    BY <2>1 DEF PendingHasLiveLeg
  <2>3. endPc'[x] = "idle"
    BY <2>1, <2>2 DEF Ends
  <2>4. Answered(x)'
    BY <1>1, <2>2, AnsweredForever, LegFacts DEF CallStep, Order
  <2> QED
    BY <2>3, <2>4
<1>2. ASSUME NEW x \in Legs, StartTransfer(x)
      PROVE  \E y \in {Customer(c), AgentLeg(c)} : Answered(y)' /\ endPc'[y] = "idle"
  <2>1. Live(x) /\ Answered(x)' /\ endPc'[x] = "idle"
    BY <1>2 DEF StartTransfer, Taken, MayPress, Answered, vars, asterisk, endVars
  <2>2. CASE c = x[1]
    BY <2>1, <2>2, LegFacts
  <2>3. CASE c # x[1]
    <3>1. pendingTransfers[c] # None
      BY <1>2, <2>3 DEF StartTransfer, TransferTypeOK
    <3> QED
      BY <1>2, <3>1 DEF StartTransfer, PendingHasLiveLeg, Answered, vars, asterisk, endVars
  <2> QED
    BY <2>2, <2>3
<1>3. ASSUME pendingTransfers[c] # None, UNCHANGED endPc,
             \A x \in Legs : Answered(x) => Answered(x)'
      PROVE  \E x \in {Customer(c), AgentLeg(c)} : Answered(x)' /\ endPc'[x] = "idle"
  BY <1>3, LegFacts DEF PendingHasLiveLeg
<1>4. \A x \in Legs : Answered(x) => Answered(x)'
  BY StepRefines, AnsweredForever DEF Order
<1>5. ASSUME ~CallStep, ~\E x \in Legs : StartTransfer(x)
      PROVE  pendingTransfers[c] # None /\ UNCHANGED endPc
  <2>1. ASSUME NEW x \in Legs, FinishTransfer(x)
        PROVE  pendingTransfers[c] # None /\ UNCHANGED endPc
    BY <2>1 DEF FinishTransfer, vars, endVars
  <2>2. ASSUME NEW x \in Legs, NEW k \in Keys, PressRepeated(x, k) \/ KeyIgnored(x, k)
        PROVE  pendingTransfers[c] # None /\ UNCHANGED endPc
    BY <2>2 DEF PressRepeated, KeyIgnored, vars, endVars
  <2>3. ASSUME NEW x \in Legs, NEW k \in Keys, KeyDigit(x, k)
        PROVE  pendingTransfers[c] # None /\ UNCHANGED endPc
    BY <2>3, LegFacts DEF KeyDigit, InTransfer, TransferTypeOK, vars, endVars
  <2>4. ASSUME NEW d \in Calls, NEW i \in Presses, Send(d, i) \/ SendFailed(d, i)
        PROVE  pendingTransfers[c] # None /\ UNCHANGED endPc
    BY <2>4 DEF Send, SendFailed, vars, endVars
  <2>5. ASSUME NEW d \in Calls, NEW i \in Presses, HangUpAgent(d, i)
        PROVE  pendingTransfers[c] # None /\ UNCHANGED endPc
    BY <2>5 DEF HangUpAgent, endVars
  <2>6. ASSUME NEW d \in Calls, NEW i \in Presses, DeleteTransfer(d, i)
        PROVE  pendingTransfers[c] # None /\ UNCHANGED endPc
    BY <2>6 DEF DeleteTransfer, TransferTypeOK, vars, endVars
  <2>7. CASE UNCHANGED allVars
    BY <2>7 DEF allVars, transferVars, vars, endVars
  <2> QED
    BY StepCases, <1>5, <2>1, <2>2, <2>3, <2>4, <2>5, <2>6, <2>7
<1> QED
  BY <1>1, <1>2, <1>3, <1>4, <1>5

(***************************************************************************)
(* A transferred customer has left his agent.                              *)
(***************************************************************************)
LEMMA SentInductive ==
  ASSUME TypeOK, Order, TransferTypeOK, HandlersKeyed, AgentOriginated, SentFreesAgent, [TransferNext]_allVars
  PROVE  SentFreesAgent'
<1> SUFFICES ASSUME NEW c \in Calls, sentTo'[c] # None
             PROVE  \/ chan'[AgentLeg(c)] \notin {"dialing", "up"}
                    \/ \E i \in Presses : finishing'[<<c, i>>].at = "hanging"
  BY DEF SentFreesAgent
<1> DEFINE Hanging == \E i \in Presses : finishing[<<c, i>>].at = "hanging"
           OverOrHanging == chan'[AgentLeg(c)] \notin {"dialing", "up"}
                              \/ \E i \in Presses : finishing'[<<c, i>>].at = "hanging"
<1>1. ASSUME sentTo[c] # None, chan[AgentLeg(c)] \notin {"dialing", "up"}
      PROVE  chan'[AgentLeg(c)] \notin {"dialing", "up"}
  <2>1. chan[AgentLeg(c)] # "none"
    BY <1>1 DEF AgentOriginated, Transferring
  <2>2. chan'[AgentLeg(c)] \in ChanAfter(chan[AgentLeg(c)])
    BY StepRefines, ChanForward, LegFacts DEF Order
  <2> QED
    BY <1>1, <2>1, <2>2, LegFacts DEF ChanAfter, TypeOK, ChanState
<1>2. ASSUME NEW i \in Presses, Send(c, i) PROVE OverOrHanging
  BY <1>2 DEF Send, Goto, TransferTypeOK
<1>3. ASSUME NEW i \in Presses, HangUpAgent(c, i) PROVE OverOrHanging
  <2>1. chan'[AgentLeg(c)] = Ended(chan[AgentLeg(c)])
    BY <1>3, LegFacts DEF HangUpAgent, Transferor, HungUp, TypeOK
  <2> QED
    BY <2>1 DEF Ended
<1>4. sentTo[c] # None \/ \E i \in Presses : Send(c, i)
  <2>1. ASSUME NEW d \in Calls, NEW i \in Presses, Send(d, i)
        PROVE  sentTo[c] # None \/ d = c
    BY <2>1 DEF Send, TransferTypeOK
  <2>2. sentTo' = sentTo \/ \E d \in Calls, i \in Presses : Send(d, i)
    BY StepCases
    DEF CallStep, StartTransfer, FinishTransfer, PressRepeated, KeyDigit, KeyIgnored, SendFailed,
        HangUpAgent, DeleteTransfer, allVars, transferVars
  <2> QED
    BY <2>1, <2>2
<1>5. ASSUME NEW i \in Presses, finishing[<<c, i>>].at = "hanging", ~HangUpAgent(c, i)
      PROVE  finishing'[<<c, i>>].at = "hanging"
  <2>1. ASSUME NEW x \in Legs, FinishTransfer(x) PROVE finishing'[<<c, i>>].at = "hanging"
    <3>1. c # x[1] \/ i # Len(keyed[x[1]]) + 1
      <4>1. keyed[c] \in Seq(Legs \X Keys) /\ i \in Nat
        BY MaxKeysAssumption DEF TransferTypeOK, Presses
      <4>2. i <= Len(keyed[c]) /\ Len(keyed[c]) \in Nat
        BY <1>5, <4>1 DEF HandlersKeyed
      <4> QED
        BY <4>1, <4>2
    <3>2. <<x[1], Len(keyed[x[1]]) + 1>> # <<c, i>>
      BY <3>1
    <3>3. finishing'[<<c, i>>] = finishing[<<c, i>>]
      BY <2>1, <3>2 DEF FinishTransfer, TransferTypeOK
    <3> QED
      BY <1>5, <3>3
  <2>2. ASSUME NEW d \in Calls, NEW j \in Presses,
               Send(d, j) \/ SendFailed(d, j) \/ DeleteTransfer(d, j) \/ HangUpAgent(d, j)
        PROVE  finishing'[<<c, i>>].at = "hanging"
    <3>1. <<d, j>> # <<c, i>>
      BY <1>5, <2>2 DEF Send, SendFailed, DeleteTransfer
    <3>2. finishing'[<<c, i>>] = finishing[<<c, i>>]
      BY <2>2, <3>1 DEF Send, SendFailed, DeleteTransfer, HangUpAgent, Goto, TransferTypeOK
    <3> QED
      BY <1>5, <3>2
  <2>3. \/ finishing' = finishing
        \/ \E x \in Legs : FinishTransfer(x)
        \/ \E d \in Calls, j \in Presses :
             Send(d, j) \/ SendFailed(d, j) \/ DeleteTransfer(d, j) \/ HangUpAgent(d, j)
    BY StepCases
    DEF CallStep, StartTransfer, PressRepeated, KeyDigit, KeyIgnored, allVars, transferVars
  <2> QED
    BY <1>5, <2>1, <2>2, <2>3
<1> QED
  BY <1>1, <1>2, <1>3, <1>4, <1>5 DEF SentFreesAgent

-----------------------------------------------------------------------------
(***************************************************************************)
(* What the history of keys says.  First, facts about any sequence of      *)
(* keys, and the same with one key more.                                   *)
(***************************************************************************)
Key == Legs \X Keys

\* The last key of leg x is the n-th.
LastOf(keys, x, n) ==
  n \in DOMAIN keys /\ keys[n][1] = x /\ \A m \in DOMAIN keys : m > n => keys[m][1] # x

LEMMA AppendFacts ==
  ASSUME NEW keys \in Seq(Key), NEW e \in Key
  PROVE  LET more == Append(keys, e) IN
         /\ Len(keys) \in Nat /\ DOMAIN keys = 1..Len(keys)
         /\ more \in Seq(Key) /\ Len(more) = Len(keys) + 1
         /\ DOMAIN more = 1..(Len(keys) + 1)
         /\ \A n \in 1..Len(keys) : more[n] = keys[n] /\ keys[n] \in Key
         /\ more[Len(keys) + 1] = e
OBVIOUS

\* A run of keys is finite, and its keys are of one leg.
LEMMA RunFinite ==
  ASSUME NEW keys, NEW n \in Nat
  PROVE  IsFiniteSet(Run(keys, n)) /\ Cardinality(Run(keys, n)) \in Nat
<1>1. IsFiniteSet(1..n)
  BY FS_Interval
<1>2. Run(keys, n) \in SUBSET (1..n)
  BY DEF Run
<1> QED
  BY <1>1, <1>2, FS_Subset, FS_CardinalityType

\* A later key changes nothing about earlier ones.
LEMMA CountsBefore ==
  ASSUME NEW keys \in Seq(Key), NEW e \in Key, NEW n \in 1..Len(keys)
  PROVE  Counts(Append(keys, e), n) <=> Counts(keys, n)
<1> DEFINE more == Append(keys, e)
<1>1. \A m \in 1..n : more[m] = keys[m]
  BY AppendFacts
<1>2. Run(more, n) = Run(keys, n)
  <2> SUFFICES ASSUME NEW m \in 1..n
               PROVE  m \in Run(more, n) <=> m \in Run(keys, n)
    BY DEF Run
  <2>1. \A j \in m..n : more[j] = keys[j]
    BY <1>1
  <2>2. more[n] = keys[n] /\ more[m] = keys[m]
    BY <1>1
  <2> QED
    BY <2>1, <2>2 DEF Run
<1> QED
  BY <1>2 DEF Counts

\* The first key of a leg counts, and so does one that differs from the leg's
\* last key; one that equals it counts if the last one does not.
LEMMA FirstCounts ==
  ASSUME NEW keys \in Seq(Key), NEW x \in Legs, NEW k \in Keys,
         \A m \in DOMAIN keys : keys[m][1] # x
  PROVE  Counts(Append(keys, <<x, k>>), Len(keys) + 1)
<1> DEFINE more == Append(keys, <<x, k>>)
           N == Len(keys) + 1
<1>1. <<x, k>> \in Key
  BY DEF Key
<1>2. /\ Len(keys) \in Nat /\ DOMAIN keys = 1..Len(keys) /\ more[N] = <<x, k>>
      /\ \A n \in 1..Len(keys) : more[n] = keys[n]
  BY <1>1, AppendFacts
<1>3. \A m \in 1..Len(keys) : more[m] # more[N]
  BY <1>2
<1>4. Run(more, N) = {N}
  BY <1>2, <1>3 DEF Run
<1>5. Cardinality(Run(more, N)) = 1
  BY <1>4, FS_Singleton
<1>6. 1 % 2 = 1
  OBVIOUS
<1> QED
  BY <1>5, <1>6 DEF Counts

LEMMA NextCounts ==
  ASSUME NEW keys \in Seq(Key), NEW x \in Legs, NEW k \in Keys, NEW n, LastOf(keys, x, n)
  PROVE  Counts(Append(keys, <<x, k>>), Len(keys) + 1) <=> ~(Counts(keys, n) /\ keys[n][2] = k)
<1> DEFINE more == Append(keys, <<x, k>>)
           N == Len(keys) + 1
<1>1. <<x, k>> \in Key
  BY DEF Key
<1>2. /\ Len(keys) \in Nat /\ DOMAIN keys = 1..Len(keys) /\ more[N] = <<x, k>>
      /\ \A m \in 1..Len(keys) : more[m] = keys[m] /\ keys[m] \in Key
  BY <1>1, AppendFacts
<1>3. n \in 1..Len(keys) /\ keys[n][1] = x /\ keys[n] = <<x, keys[n][2]>>
  BY <1>2 DEF LastOf, Key
<1>4. \A m \in 1..Len(keys) : m > n => keys[m][1] # x
  BY <1>2 DEF LastOf
<1>5. CASE keys[n][2] # k
  <2>1. \A m \in 1..Len(keys) : m \notin Run(more, N)
    <3> SUFFICES ASSUME NEW m \in 1..Len(keys), m \in Run(more, N) PROVE FALSE
      OBVIOUS
    <3>1. more[m] = <<x, k>> /\ \A j \in m..N : more[j][1] = x => more[j] = <<x, k>>
      BY <1>2 DEF Run
    <3>2. m <= n
      BY <1>2, <1>3, <1>4, <3>1
    <3>3. n \in m..N /\ more[n] = keys[n]
      BY <1>2, <1>3, <3>2
    <3> QED
      BY <1>3, <1>5, <3>1, <3>3
  <2>2. Run(more, N) = {N}
    BY <1>2, <2>1 DEF Run
  <2>3. Cardinality(Run(more, N)) = 1
    BY <2>2, FS_Singleton
  <2>4. 1 % 2 = 1
    OBVIOUS
  <2> QED
    BY <1>5, <2>3, <2>4 DEF Counts
<1>6. CASE keys[n][2] = k
  <2>1. Run(more, N) = Run(keys, n) \cup {N}
    <3>1. N \in Run(more, N)
      BY <1>2 DEF Run
    <3>2. ASSUME NEW m \in 1..Len(keys), m \in Run(more, N) PROVE m \in Run(keys, n)
      <4>1. more[m] = <<x, k>> /\ \A j \in m..N : more[j][1] = x => more[j] = <<x, k>>
        BY <1>2, <3>2 DEF Run
      <4>2. m <= n /\ keys[m] = keys[n]
        BY <1>2, <1>3, <1>4, <1>6, <4>1
      <4>3. ASSUME NEW j \in m..n, keys[j][1] = x PROVE keys[j] = keys[n]
        <5>1. j \in m..N /\ j \in 1..Len(keys)
          BY <1>2, <1>3
        <5>2. more[j] = keys[j]
          BY <1>2, <5>1
        <5> QED
          BY <1>3, <1>6, <4>1, <4>3, <5>1, <5>2
      <4> QED
        BY <1>3, <4>2, <4>3 DEF Run
    <3>3. ASSUME NEW m \in Run(keys, n) PROVE m \in Run(more, N)
      <4>1. /\ m \in 1..n /\ keys[m] = <<x, k>>
            /\ \A j \in m..n : keys[j][1] = x => keys[j] = <<x, k>>
        BY <1>3, <1>6, <3>3 DEF Run
      <4>2. m \in 1..N /\ more[m] = <<x, k>>
        BY <1>2, <1>3, <4>1
      <4>3. ASSUME NEW j \in m..N, more[j][1] = x PROVE more[j] = <<x, k>>
        <5>1. CASE j = N
          BY <1>2, <5>1
        <5>2. CASE j \in m..n
          BY <1>2, <1>3, <4>1, <4>3, <5>2
        <5>3. CASE j \in 1..Len(keys) /\ j > n
          BY <1>2, <1>4, <4>3, <5>3
        <5> QED
          BY <1>2, <1>3, <4>1, <5>1, <5>2, <5>3
      <4> QED
        BY <1>2, <4>2, <4>3 DEF Run
    <3>4. \A m \in Run(more, N) : m \in 1..N
      BY DEF Run
    <3> QED
      BY <1>2, <3>1, <3>2, <3>3, <3>4
  <2>2. N \notin Run(keys, n)
    BY <1>2, <1>3 DEF Run
  <2>3. IsFiniteSet(Run(keys, n)) /\ Cardinality(Run(keys, n)) \in Nat
    BY <1>2, <1>3, RunFinite
  <2>4. Cardinality(Run(more, N)) = Cardinality(Run(keys, n)) + 1
    BY <2>1, <2>2, <2>3, FS_AddElement
  <2>5. \A a \in Nat : (a + 1) % 2 = 1 <=> a % 2 # 1
    OBVIOUS
  <2> QED
    BY <1>6, <2>3, <2>4, <2>5 DEF Counts
<1> QED
  BY <1>5, <1>6

\* What is known of earlier keys stays so.
LEMMA HashBefore ==
  ASSUME NEW keys \in Seq(Key), NEW e \in Key, NEW n, IsHash(keys, n)
  PROVE  IsHash(Append(keys, e), n)
<1>1. n \in 1..Len(keys)
  BY AppendFacts DEF IsHash
<1> QED
  BY <1>1, AppendFacts, CountsBefore DEF IsHash

LEMMA DigitsFinite ==
  ASSUME NEW keys, NEW i \in Nat, NEW j \in Nat
  PROVE  /\ IsFiniteSet(DigitsBetween(keys, i, j))
         /\ Cardinality(DigitsBetween(keys, i, j)) \in Nat
<1>1. IsFiniteSet((i + 1)..(j - 1))
  BY FS_Interval
<1>2. DigitsBetween(keys, i, j) \in SUBSET ((i + 1)..(j - 1))
  BY DEF DigitsBetween
<1> QED
  BY <1>1, <1>2, FS_Subset, FS_CardinalityType

LEMMA SpellsBefore ==
  ASSUME NEW keys \in Seq(Key), NEW e \in Key, NEW i \in Nat, NEW j \in 1..(Len(keys) + 1), NEW ext
  PROVE  /\ DigitsBetween(Append(keys, e), i, j) = DigitsBetween(keys, i, j)
         /\ Spells(ext, Append(keys, e), i, j) <=> Spells(ext, keys, i, j)
<1> DEFINE more == Append(keys, e)
<1>1. \A n \in (i + 1)..(j - 1) : n \in 1..Len(keys)
  BY AppendFacts
<1>2. \A n \in (i + 1)..(j - 1) : more[n] = keys[n] /\ (Counts(more, n) <=> Counts(keys, n))
  BY <1>1, AppendFacts, CountsBefore
<1>3. DigitsBetween(more, i, j) = DigitsBetween(keys, i, j)
  BY <1>2 DEF DigitsBetween
<1>4. \A n \in DigitsBetween(keys, i, j) : more[n] = keys[n]
  BY <1>2 DEF DigitsBetween
<1> QED
  BY <1>3, <1>4 DEF Spells

\* A '#' or a repetition adds no digit.
LEMMA SpellsNoDigit ==
  ASSUME NEW keys \in Seq(Key), NEW e \in Key, NEW i \in 1..Len(keys), NEW ext,
         e[2] = Hash \/ ~Counts(Append(keys, e), Len(keys) + 1),
         Spells(ext, keys, i, Len(keys) + 1)
  PROVE  Spells(ext, Append(keys, e), i, Len(keys) + 2)
<1> DEFINE more == Append(keys, e)
           N == Len(keys) + 1
<1>1. N \in Nat /\ i \in Nat /\ more[N] = e /\ N \in 1..(Len(keys) + 1)
  BY AppendFacts
<1>2. Spells(ext, more, i, N)
  BY <1>1, SpellsBefore
<1>3. N \notin DigitsBetween(more, i, N + 1)
  BY <1>1 DEF DigitsBetween
<1>4. DigitsBetween(more, i, N + 1) = DigitsBetween(more, i, N)
  BY <1>1, <1>3 DEF DigitsBetween
<1>5. N + 1 = Len(keys) + 2
  BY <1>1
<1> QED
  BY <1>2, <1>4, <1>5 DEF Spells

\* A digit that counts is the next one of the extension.
LEMMA SpellsDigit ==
  ASSUME NEW keys \in Seq(Key), NEW e \in Key, NEW i \in 1..Len(keys), NEW ext \in Seq(Digits),
         e[2] \in Digits, Counts(Append(keys, e), Len(keys) + 1),
         Spells(ext, keys, i, Len(keys) + 1)
  PROVE  Spells(Append(ext, e[2]), Append(keys, e), i, Len(keys) + 2)
<1> DEFINE more == Append(keys, e)
           N == Len(keys) + 1
           old == DigitsBetween(more, i, N)
           new == DigitsBetween(more, i, N + 1)
           longer == Append(ext, e[2])
<1>1. N \in Nat /\ i \in Nat /\ more[N] = e /\ N \in 1..(Len(keys) + 1) /\ i < N
  BY AppendFacts
<1>2. Spells(ext, more, i, N)
  BY <1>1, SpellsBefore
<1>3. new = old \cup {N} /\ \A n \in old : n \in Nat /\ n < N
  BY <1>1, KeyAssumption DEF DigitsBetween
<1>4. IsFiniteSet(old) /\ Cardinality(old) \in Nat
  BY <1>1, DigitsFinite
<1>5. Cardinality(new) = Cardinality(old) + 1
  <2>1. N \notin old
    BY <1>1, <1>3
  <2>2. Cardinality(old \cup {N}) = Cardinality(old) + 1
    BY <1>4, <2>1, FS_AddElement
  <2> QED
    BY <1>3, <2>2
<1>6. Len(ext) = Cardinality(old)
  BY <1>2 DEF Spells
<1>7. /\ Len(longer) = Cardinality(old) + 1
      /\ longer[Cardinality(old) + 1] = e[2]
      /\ \A p \in 1..Cardinality(old) : longer[p] = ext[p]
  BY <1>6
<1>8. ASSUME NEW n \in old PROVE longer[Cardinality({m \in new : m <= n})] = more[n][2]
  <2>1. {m \in new : m <= n} = {m \in old : m <= n}
    BY <1>1, <1>3
  <2>2. {m \in old : m <= n} \in SUBSET old /\ n \in {m \in old : m <= n}
    BY <1>3
  <2>3. /\ IsFiniteSet({m \in old : m <= n})
        /\ Cardinality({m \in old : m <= n}) <= Cardinality(old)
    BY <1>4, <2>2, FS_Subset
  <2>4. Cardinality({m \in old : m <= n}) \in Nat /\ Cardinality({m \in old : m <= n}) # 0
    BY <2>2, <2>3, FS_EmptySet, FS_CardinalityType
  <2>5. Cardinality({m \in old : m <= n}) \in 1..Cardinality(old)
    BY <1>4, <2>3, <2>4
  <2>6. ext[Cardinality({m \in old : m <= n})] = more[n][2]
    BY <1>2 DEF Spells
  <2> QED
    BY <1>7, <2>1, <2>5, <2>6
<1>9. longer[Cardinality({m \in new : m <= N})] = more[N][2]
  <2>1. {m \in new : m <= N} = new
    BY <1>1, <1>3
  <2> QED
    BY <1>1, <1>5, <1>7, <2>1
<1>10. N + 1 = Len(keys) + 2
  BY <1>1
<1>11. \A n \in new : n \in old \/ n = N
  BY <1>3
<1> QED
  BY <1>5, <1>7, <1>8, <1>9, <1>10, <1>11 DEF Spells

LEMMA SpellsNothing ==
  ASSUME NEW keys, NEW i \in Nat
  PROVE  Spells(<<>>, keys, i, i + 1)
<1>1. DigitsBetween(keys, i, i + 1) = {}
  BY DEF DigitsBetween
<1> QED
  BY <1>1, FS_EmptySet DEF Spells

-----------------------------------------------------------------------------
(***************************************************************************)
(* De-duplication: lastDtmf is the leg's last key if that one counts.      *)
(***************************************************************************)
Dedup(x, keys) ==
  \/ (\A m \in DOMAIN keys : keys[m][1] # x) /\ lastDtmf[x] = None
  \/ \E n \in DOMAIN keys :
       LastOf(keys, x, n) /\ lastDtmf[x] = IF Counts(keys, n) THEN keys[n][2] ELSE None

DedupOK == \A x \in Legs : Dedup(x, keyed[x[1]])

\* What a key of leg x does to the history and to lastDtmf.
Pressed(x, k) ==
  /\ keyed' = [keyed EXCEPT ![x[1]] = Append(@, <<x, k>>)]
  /\ lastDtmf' = [lastDtmf EXCEPT ![x] = IF Repeated(x, k) THEN None ELSE k]

LEMMA KeyCases ==
  ASSUME [TransferNext]_allVars
  PROVE  UNCHANGED <<keyed, lastDtmf>> \/ \E x \in Legs, k \in Keys : Pressed(x, k)
<1>1. ASSUME NEW x \in Legs, NEW k \in Keys, Taken(x, k) PROVE Pressed(x, k)
  BY <1>1 DEF Taken, Pressed
<1>2. ASSUME NEW x \in Legs, NEW k \in Keys, PressRepeated(x, k) PROVE Pressed(x, k)
  BY <1>2 DEF PressRepeated, Forgotten, Pressed
<1>3. Hash \in Keys
  BY DEF Keys
<1>4. ASSUME NEW x \in Legs, StartTransfer(x) \/ FinishTransfer(x) PROVE Pressed(x, Hash)
  BY <1>1, <1>3, <1>4 DEF StartTransfer, FinishTransfer
<1>5. ASSUME NEW x \in Legs, NEW k \in Keys, KeyDigit(x, k) \/ KeyIgnored(x, k)
      PROVE  Pressed(x, k)
  BY <1>1, <1>5 DEF KeyDigit, KeyIgnored
<1>6. ASSUME NEW c \in Calls, NEW i \in Presses,
             Send(c, i) \/ SendFailed(c, i) \/ HangUpAgent(c, i) \/ DeleteTransfer(c, i)
      PROVE  UNCHANGED <<keyed, lastDtmf>>
  BY <1>6 DEF Send, SendFailed, HangUpAgent, DeleteTransfer
<1>7. CallStep \/ UNCHANGED allVars => UNCHANGED <<keyed, lastDtmf>>
  BY DEF CallStep, allVars, transferVars
<1> QED
  BY StepCases, <1>2, <1>3, <1>4, <1>5, <1>6, <1>7

\* The code's de-duplication and the property's agree about the next key.
LEMMA KeyCounts ==
  ASSUME TransferTypeOK, DedupOK, NEW x \in Legs, NEW k \in Keys
  PROVE  Counts(Append(keyed[x[1]], <<x, k>>), Len(keyed[x[1]]) + 1) <=> ~Repeated(x, k)
<1> DEFINE keys == keyed[x[1]]
<1>1. keys \in Seq(Key) /\ k # None
  BY LegFacts, KeyAssumption DEF TransferTypeOK, Key, Keys
<1>2. CASE (\A m \in DOMAIN keys : keys[m][1] # x) /\ lastDtmf[x] = None
  BY <1>1, <1>2, FirstCounts DEF Repeated
<1>3. CASE \E n \in DOMAIN keys :
             LastOf(keys, x, n) /\ lastDtmf[x] = IF Counts(keys, n) THEN keys[n][2] ELSE None
  <2>1. PICK n \in DOMAIN keys :
          LastOf(keys, x, n) /\ lastDtmf[x] = IF Counts(keys, n) THEN keys[n][2] ELSE None
    BY <1>3
  <2>2. Counts(Append(keys, <<x, k>>), Len(keys) + 1) <=> ~(Counts(keys, n) /\ keys[n][2] = k)
    BY <1>1, <2>1, NextCounts
  <2>3. Repeated(x, k) <=> Counts(keys, n) /\ keys[n][2] = k
    BY <1>1, <2>1 DEF Repeated
  <2> QED
    BY <2>2, <2>3
<1> QED
  BY <1>2, <1>3 DEF DedupOK, Dedup

LEMMA DedupInductive ==
  ASSUME TransferTypeOK, DedupOK, [TransferNext]_allVars
  PROVE  DedupOK'
<1>1. CASE UNCHANGED <<keyed, lastDtmf>>
  BY <1>1 DEF DedupOK, Dedup
<1>2. ASSUME NEW x \in Legs, NEW k \in Keys, Pressed(x, k), NEW y \in Legs
      PROVE  Dedup(y, keyed[y[1]])'
  <2> DEFINE keys == keyed[x[1]]
             more == Append(keys, <<x, k>>)
             N == Len(keys) + 1
  <2>1. x[1] \in Calls /\ y[1] \in Calls /\ keys \in Seq(Key) /\ <<x, k>> \in Key
    BY LegFacts DEF TransferTypeOK, Key
  <2>2. /\ Len(keys) \in Nat /\ DOMAIN keys = 1..Len(keys) /\ DOMAIN more = 1..N
        /\ more[N] = <<x, k>> /\ \A m \in 1..Len(keys) : more[m] = keys[m]
    BY <2>1, AppendFacts
  <2>3. keyed'[x[1]] = more
    BY <1>2, <2>1 DEF Pressed, TransferTypeOK
  <2>4. CASE y = x
    <3>1. lastDtmf'[x] = IF Repeated(x, k) THEN None ELSE k
      BY <1>2 DEF Pressed, TransferTypeOK
    <3>2. LastOf(more, x, N)
      BY <2>2 DEF LastOf
    <3>3. Counts(more, N) <=> ~Repeated(x, k)
      BY KeyCounts
    <3>4. N \in DOMAIN more /\ more[N][2] = k
      BY <2>2
    <3> QED
      BY <2>3, <2>4, <3>1, <3>2, <3>3, <3>4 DEF Dedup
  <2>5. CASE y # x /\ y[1] = x[1]
    <3>1. lastDtmf'[y] = lastDtmf[y]
      BY <1>2, <2>5 DEF Pressed, TransferTypeOK
    <3>2. CASE (\A m \in DOMAIN keys : keys[m][1] # y) /\ lastDtmf[y] = None
      <4>1. \A m \in DOMAIN more : more[m][1] # y
        BY <2>2, <2>5, <3>2
      <4> QED
        BY <2>3, <2>5, <3>1, <3>2, <4>1 DEF Dedup
    <3>3. ASSUME NEW n \in DOMAIN keys, LastOf(keys, y, n),
                 lastDtmf[y] = IF Counts(keys, n) THEN keys[n][2] ELSE None
          PROVE  Dedup(y, keyed[y[1]])'
      <4>1. n \in DOMAIN more /\ more[n] = keys[n] /\ (Counts(more, n) <=> Counts(keys, n))
        BY <2>1, <2>2, CountsBefore
      <4>2. LastOf(more, y, n)
        BY <2>2, <2>5, <3>3, <4>1 DEF LastOf
      <4> QED
        BY <2>3, <2>5, <3>1, <3>3, <4>1, <4>2 DEF Dedup
    <3> QED
      BY <2>5, <3>2, <3>3 DEF DedupOK, Dedup
  <2>6. CASE y[1] # x[1]
    <3>1. keyed'[y[1]] = keyed[y[1]] /\ lastDtmf'[y] = lastDtmf[y]
      BY <1>2, <2>1, <2>6 DEF Pressed, TransferTypeOK
    <3> QED
      BY <3>1 DEF DedupOK, Dedup
  <2> QED
    BY <2>4, <2>5, <2>6
<1> QED
  BY KeyCases, <1>1, <1>2 DEF DedupOK

-----------------------------------------------------------------------------
(***************************************************************************)
(* Where customers are sent.                                               *)
(***************************************************************************)

\* ext is what is keyed between two '#' of keys.
Between(ext, keys) ==
  \E i, j \in DOMAIN keys : i < j /\ IsHash(keys, i) /\ IsHash(keys, j) /\ Spells(ext, keys, i, j)

\* ext is what has been keyed since a '#'.
Since(ext, keys) == \E i \in DOMAIN keys : IsHash(keys, i) /\ Spells(ext, keys, i, Len(keys) + 1)

\* What ExtensionAsKeyed says of one call.
Asked(dest, keys) ==
  \E i, j \in DOMAIN keys :
    /\ i < j
    /\ IsHash(keys, i) /\ IsHash(keys, j)
    /\ \/ DigitsBetween(keys, i, j) = {} /\ dest = DefaultExt
       \/ DigitsBetween(keys, i, j) # {} /\ dest \in Seq(Digits) /\ Spells(dest, keys, i, j)

\* The digits collected so far, and those a handler is about to send.
PendingSpelled ==
  \A c \in Calls : pendingTransfers[c] # None => Since(pendingTransfers[c], keyed[c])

FinishSpelled ==
  \A c \in Calls, h \in Presses :
    finishing[<<c, h>>].at = "sending" => Between(finishing[<<c, h>>].ext, keyed[c])

LEMMA BetweenBefore ==
  ASSUME NEW keys \in Seq(Key), NEW e \in Key, NEW ext, Between(ext, keys)
  PROVE  Between(ext, Append(keys, e))
<1>1. PICK i \in DOMAIN keys, j \in DOMAIN keys :
        i < j /\ IsHash(keys, i) /\ IsHash(keys, j) /\ Spells(ext, keys, i, j)
  BY DEF Between
<1>2. i \in Nat /\ j \in 1..(Len(keys) + 1) /\ {i, j} \subseteq DOMAIN Append(keys, e)
  BY AppendFacts
<1>3. IsHash(Append(keys, e), i) /\ IsHash(Append(keys, e), j)
  BY <1>1, HashBefore
<1>4. Spells(ext, Append(keys, e), i, j)
  BY <1>1, <1>2, SpellsBefore
<1> QED
  BY <1>1, <1>2, <1>3, <1>4 DEF Between

LEMMA AskedBefore ==
  ASSUME NEW keys \in Seq(Key), NEW e \in Key, NEW dest, Asked(dest, keys)
  PROVE  Asked(dest, Append(keys, e))
<1>1. PICK i \in DOMAIN keys, j \in DOMAIN keys :
        /\ i < j /\ IsHash(keys, i) /\ IsHash(keys, j)
        /\ \/ DigitsBetween(keys, i, j) = {} /\ dest = DefaultExt
           \/ DigitsBetween(keys, i, j) # {} /\ dest \in Seq(Digits) /\ Spells(dest, keys, i, j)
  BY DEF Asked
<1>2. i \in Nat /\ j \in 1..(Len(keys) + 1) /\ {i, j} \subseteq DOMAIN Append(keys, e)
  BY AppendFacts
<1>3. IsHash(Append(keys, e), i) /\ IsHash(Append(keys, e), j)
  BY <1>1, HashBefore
<1>4. /\ DigitsBetween(Append(keys, e), i, j) = DigitsBetween(keys, i, j)
      /\ Spells(dest, Append(keys, e), i, j) <=> Spells(dest, keys, i, j)
  BY <1>2, SpellsBefore
<1> QED
  BY <1>1, <1>2, <1>3, <1>4 DEF Asked

\* The extension of a transfer is what was asked for.
LEMMA AskedFor ==
  ASSUME NEW keys \in Seq(Key), NEW ext \in Seq(Digits), Between(ext, keys)
  PROVE  Asked(Extension(ext), keys)
<1>1. PICK i \in DOMAIN keys, j \in DOMAIN keys :
        i < j /\ IsHash(keys, i) /\ IsHash(keys, j) /\ Spells(ext, keys, i, j)
  BY DEF Between
<1> DEFINE digits == DigitsBetween(keys, i, j)
<1>2. i \in Nat /\ j \in Nat
  OBVIOUS
<1>3. IsFiniteSet(digits) /\ Len(ext) = Cardinality(digits)
  BY <1>1, <1>2, DigitsFinite DEF Spells
<1>4. digits = {} <=> ext = <<>>
  BY <1>3, FS_EmptySet
<1> QED
  BY <1>1, <1>4 DEF Asked, Extension

\* A key of a leg belongs to the leg's call.
LEMMA AfterKey ==
  ASSUME TransferTypeOK, NEW x \in Legs, NEW k \in Keys, Pressed(x, k)
  PROVE  /\ x[1] \in Calls /\ <<x, k>> \in Key
         /\ \A c \in Calls : keyed[c] \in Seq(Key)
         /\ keyed'[x[1]] = Append(keyed[x[1]], <<x, k>>)
         /\ \A c \in Calls : c # x[1] => keyed'[c] = keyed[c]
<1>1. x[1] \in Calls
  BY LegFacts
<1> QED
  BY <1>1 DEF Pressed, TransferTypeOK, Key

LEMMA TakenPressed ==
  ASSUME NEW x \in Legs, NEW k \in Keys, Taken(x, k) \/ PressRepeated(x, k)
  PROVE  Pressed(x, k)
BY DEF Taken, PressRepeated, Forgotten, Pressed

\* A '#' that is no repetition is one of ExtensionAsKeyed's.
LEMMA HashTaken ==
  ASSUME TransferTypeOK, DedupOK, NEW x \in Legs, Taken(x, Hash)
  PROVE  IsHash(Append(keyed[x[1]], <<x, Hash>>), Len(keyed[x[1]]) + 1)
<1>1. Hash \in Keys
  BY DEF Keys
<1>2. keyed[x[1]] \in Seq(Key) /\ <<x, Hash>> \in Key
  BY <1>1, LegFacts DEF TransferTypeOK, Key
<1>3. Counts(Append(keyed[x[1]], <<x, Hash>>), Len(keyed[x[1]]) + 1)
  BY <1>1, KeyCounts DEF Taken
<1> QED
  BY <1>2, <1>3, AppendFacts DEF IsHash

LEMMA PendingSpelledInductive ==
  ASSUME TransferTypeOK, DedupOK, PendingSpelled, [TransferNext]_allVars
  PROVE  PendingSpelled'
<1> SUFFICES ASSUME NEW c \in Calls, pendingTransfers'[c] # None
             PROVE  Since(pendingTransfers'[c], keyed'[c])
  BY DEF PendingSpelled
<1> DEFINE keys == keyed[c]
           N == Len(keys) + 1
<1>1. CASE pendingTransfers'[c] = pendingTransfers[c] /\ keyed'[c] = keyed[c]
  BY <1>1 DEF PendingSpelled
\* A key of this call, with the digits collected before it.
<1>2. ASSUME NEW x \in Legs, NEW k \in Keys, x[1] = c, Pressed(x, k), pendingTransfers[c] # None,
             k = Hash \/ Repeated(x, k), pendingTransfers'[c] = pendingTransfers[c]
      PROVE  Since(pendingTransfers'[c], keyed'[c])
  <2> DEFINE more == Append(keys, <<x, k>>)
  <2>1. keys \in Seq(Key) /\ <<x, k>> \in Key /\ keyed'[c] = more
    BY <1>2, AfterKey
  <2>2. PICK i \in DOMAIN keys : IsHash(keys, i) /\ Spells(pendingTransfers[c], keys, i, N)
    BY <1>2 DEF PendingSpelled, Since
  <2>3. i \in 1..Len(keys) /\ i \in DOMAIN more /\ Len(more) = Len(keys) + 1 /\ Len(keys) \in Nat
    BY <2>1, AppendFacts
  <2>4. <<x, k>>[2] = Hash \/ ~Counts(more, N)
    BY <1>2, KeyCounts
  <2>5. Spells(pendingTransfers[c], more, i, Len(keys) + 2)
    BY <2>1, <2>2, <2>3, <2>4, SpellsNoDigit
  <2>6. IsHash(more, i) /\ Len(more) + 1 = Len(keys) + 2
    BY <2>1, <2>2, <2>3, HashBefore
  <2> QED
    BY <1>2, <2>1, <2>3, <2>5, <2>6 DEF Since
<1>3. ASSUME NEW x \in Legs, x[1] = c, StartTransfer(x)
      PROVE  Since(pendingTransfers'[c], keyed'[c])
  <2> DEFINE more == Append(keys, <<x, Hash>>)
  <2>1. Hash \in Keys /\ Taken(x, Hash) /\ Pressed(x, Hash)
    BY <1>3, TakenPressed DEF StartTransfer, Keys
  <2>2. keys \in Seq(Key) /\ <<x, Hash>> \in Key /\ keyed'[c] = more
    BY <1>3, <2>1, AfterKey
  <2>3. IsHash(more, N)
    BY <1>3, <2>1, HashTaken
  <2>4. N \in Nat /\ Len(more) = N /\ N \in DOMAIN more
    BY <2>2, AppendFacts
  <2>5. pendingTransfers'[c] = <<>>
    BY <1>3 DEF StartTransfer, TransferTypeOK
  <2>6. Spells(<<>>, more, N, N + 1)
    BY <2>4, SpellsNothing
  <2> QED
    BY <2>2, <2>3, <2>4, <2>5, <2>6 DEF Since
<1>4. ASSUME NEW x \in Legs, NEW k \in Keys, x[1] = c, KeyDigit(x, k)
      PROVE  Since(pendingTransfers'[c], keyed'[c])
  <2> DEFINE more == Append(keys, <<x, k>>)
             ext == pendingTransfers[c]
  <2>1. Taken(x, k) /\ Pressed(x, k) /\ k \in Digits /\ ext # None
    BY <1>4, TakenPressed DEF KeyDigit, InTransfer, IsDigit, Keys
  <2>2. keys \in Seq(Key) /\ <<x, k>> \in Key /\ keyed'[c] = more
    BY <1>4, <2>1, AfterKey
  <2>3. ext \in Seq(Digits)
    BY <2>1 DEF TransferTypeOK
  <2>4. pendingTransfers'[c] = Append(ext, k)
    BY <1>4 DEF KeyDigit, TransferTypeOK
  <2>5. PICK i \in DOMAIN keys : IsHash(keys, i) /\ Spells(ext, keys, i, N)
    BY <2>1 DEF PendingSpelled, Since
  <2>6. i \in 1..Len(keys) /\ i \in DOMAIN more /\ Len(more) = Len(keys) + 1 /\ Len(keys) \in Nat
    BY <2>2, AppendFacts
  <2>7. Counts(more, N)
    BY <1>4, <2>1, KeyCounts DEF Taken
  <2>8. <<x, k>>[2] = k
    OBVIOUS
  <2>9. Spells(Append(ext, k), more, i, Len(keys) + 2)
    BY <2>1, <2>2, <2>3, <2>5, <2>6, <2>7, <2>8, SpellsDigit
  <2>10. IsHash(more, i) /\ Len(more) + 1 = Len(keys) + 2
    BY <2>2, <2>5, <2>6, HashBefore
  <2> QED
    BY <2>2, <2>4, <2>6, <2>9, <2>10 DEF Since
<1>5. ASSUME CallStep PROVE pendingTransfers'[c] = pendingTransfers[c] /\ keyed'[c] = keyed[c]
  BY <1>5 DEF CallStep
<1>6. ASSUME NEW x \in Legs, StartTransfer(x) PROVE Since(pendingTransfers'[c], keyed'[c])
  <2>1. ASSUME x[1] # c PROVE pendingTransfers'[c] = pendingTransfers[c] /\ keyed'[c] = keyed[c]
    BY <1>6, <2>1 DEF StartTransfer, Taken, TransferTypeOK
  <2> QED
    BY <1>1, <1>3, <1>6, <2>1
<1>7. ASSUME NEW x \in Legs, FinishTransfer(x) PROVE Since(pendingTransfers'[c], keyed'[c])
  <2>1. Hash \in Keys /\ Taken(x, Hash) /\ Pressed(x, Hash) /\ pendingTransfers' = pendingTransfers
    BY <1>7, TakenPressed DEF FinishTransfer, Keys
  <2>2. ASSUME x[1] # c PROVE keyed'[c] = keyed[c]
    BY <2>1, <2>2, AfterKey
  <2> QED
    BY <1>1, <1>2, <2>1, <2>2
<1>8. ASSUME NEW x \in Legs, NEW k \in Keys, PressRepeated(x, k)
      PROVE  Since(pendingTransfers'[c], keyed'[c])
  <2>1. Repeated(x, k) /\ Pressed(x, k) /\ pendingTransfers' = pendingTransfers
    BY <1>8, TakenPressed DEF PressRepeated
  <2>2. ASSUME x[1] # c PROVE keyed'[c] = keyed[c]
    BY <2>1, <2>2, AfterKey
  <2> QED
    BY <1>1, <1>2, <2>1, <2>2
<1>9. ASSUME NEW x \in Legs, NEW k \in Keys, KeyDigit(x, k)
      PROVE  Since(pendingTransfers'[c], keyed'[c])
  <2>1. ASSUME x[1] # c PROVE pendingTransfers'[c] = pendingTransfers[c] /\ keyed'[c] = keyed[c]
    BY <1>9, <2>1 DEF KeyDigit, Taken, TransferTypeOK
  <2> QED
    BY <1>1, <1>4, <1>9, <2>1
<1>10. ASSUME NEW x \in Legs, NEW k \in Keys, KeyIgnored(x, k)
       PROVE  pendingTransfers'[c] = pendingTransfers[c] /\ keyed'[c] = keyed[c]
  <2>1. pendingTransfers' = pendingTransfers /\ x[1] # c
    BY <1>10 DEF KeyIgnored, InTransfer
  <2> QED
    BY <1>10, <2>1, TakenPressed, AfterKey DEF KeyIgnored
<1>11. ASSUME NEW d \in Calls, NEW i \in Presses,
              Send(d, i) \/ SendFailed(d, i) \/ HangUpAgent(d, i) \/ DeleteTransfer(d, i)
       PROVE  pendingTransfers'[c] = pendingTransfers[c] /\ keyed'[c] = keyed[c]
  BY <1>11 DEF Send, SendFailed, HangUpAgent, DeleteTransfer, TransferTypeOK
<1>12. ASSUME UNCHANGED allVars PROVE pendingTransfers'[c] = pendingTransfers[c] /\ keyed'[c] = keyed[c]
  BY <1>12 DEF allVars, transferVars
<1> QED
  BY StepCases, <1>1, <1>5, <1>6, <1>7, <1>8, <1>9, <1>10, <1>11, <1>12

\* The history of a call only grows.
LEMMA HistoryGrows ==
  ASSUME TransferTypeOK, [TransferNext]_allVars, NEW c \in Calls
  PROVE  /\ keyed[c] \in Seq(Key)
         /\ keyed'[c] = keyed[c] \/ \E e \in Key : keyed'[c] = Append(keyed[c], e)
<1>1. CASE UNCHANGED <<keyed, lastDtmf>>
  BY <1>1 DEF TransferTypeOK, Key
<1>2. ASSUME NEW x \in Legs, NEW k \in Keys, Pressed(x, k)
      PROVE  keyed'[c] = keyed[c] \/ \E e \in Key : keyed'[c] = Append(keyed[c], e)
  BY <1>2, AfterKey
<1> QED
  BY KeyCases, <1>1, <1>2 DEF TransferTypeOK, Key

LEMMA FinishSpelledInductive ==
  ASSUME TransferTypeOK, DedupOK, PendingSpelled, FinishSpelled, [TransferNext]_allVars
  PROVE  FinishSpelled'
<1> SUFFICES ASSUME NEW c \in Calls, NEW h \in Presses, finishing'[<<c, h>>].at = "sending"
             PROVE  Between(finishing'[<<c, h>>].ext, keyed'[c])
  BY DEF FinishSpelled
<1>1. CASE finishing'[<<c, h>>] = finishing[<<c, h>>]
  BY <1>1, HistoryGrows, BetweenBefore DEF FinishSpelled
<1>2. ASSUME NEW x \in Legs, x[1] = c, FinishTransfer(x), h = Len(keyed[c]) + 1
      PROVE  Between(finishing'[<<c, h>>].ext, keyed'[c])
  <2> DEFINE keys == keyed[c]
             more == Append(keys, <<x, Hash>>)
             ext == pendingTransfers[c]
  <2>1. Hash \in Keys /\ Taken(x, Hash) /\ Pressed(x, Hash) /\ ext # None
    BY <1>2, TakenPressed DEF FinishTransfer, InTransfer, Keys
  <2>2. keys \in Seq(Key) /\ <<x, Hash>> \in Key /\ keyed'[c] = more
    BY <1>2, <2>1, AfterKey
  <2>3. PICK i \in DOMAIN keys : IsHash(keys, i) /\ Spells(ext, keys, i, h)
    BY <1>2, <2>1 DEF PendingSpelled, Since
  <2>4. /\ i \in 1..Len(keys) /\ Len(keys) \in Nat
        /\ i \in DOMAIN more /\ h \in DOMAIN more /\ i < h /\ h \in 1..(Len(keys) + 1)
    BY <1>2, <2>2, AppendFacts
  <2>5. IsHash(more, i) /\ IsHash(more, h)
    BY <1>2, <2>1, <2>2, <2>3, HashBefore, HashTaken
  <2>6. Spells(ext, more, i, h)
    BY <2>2, <2>3, <2>4, SpellsBefore
  <2>7. finishing'[<<c, h>>].ext = ext
    BY <1>2 DEF FinishTransfer, TransferTypeOK
  <2> QED
    BY <2>2, <2>4, <2>5, <2>6, <2>7 DEF Between
<1>3. ASSUME NEW x \in Legs, FinishTransfer(x)
      PROVE  finishing'[<<c, h>>] = finishing[<<c, h>>] \/ (x[1] = c /\ h = Len(keyed[c]) + 1)
  BY <1>3 DEF FinishTransfer, TransferTypeOK
<1>4. ASSUME NEW d \in Calls, NEW i \in Presses,
             Send(d, i) \/ SendFailed(d, i) \/ HangUpAgent(d, i) \/ DeleteTransfer(d, i)
      PROVE  finishing'[<<c, h>>] = finishing[<<c, h>>]
  <2>1. CASE <<d, i>> = <<c, h>>
    BY <1>4, <2>1 DEF Send, SendFailed, HangUpAgent, DeleteTransfer, Goto, TransferTypeOK
  <2>2. CASE <<d, i>> # <<c, h>>
    BY <1>4, <2>2 DEF Send, SendFailed, HangUpAgent, DeleteTransfer, Goto, TransferTypeOK
  <2> QED
    BY <2>1, <2>2
<1>5. ASSUME NEW x \in Legs, NEW k \in Keys,
             PressRepeated(x, k) \/ KeyDigit(x, k) \/ KeyIgnored(x, k) \/ StartTransfer(x)
      PROVE  finishing' = finishing
  BY <1>5 DEF PressRepeated, KeyDigit, KeyIgnored, StartTransfer
<1>6. Hash \in Keys
  BY DEF Keys
<1>7. CallStep \/ UNCHANGED allVars => finishing' = finishing
  BY DEF CallStep, allVars, transferVars
<1> QED
  BY StepCases, <1>1, <1>2, <1>3, <1>4, <1>5, <1>6, <1>7

LEMMA AsAskedInductive ==
  ASSUME TransferTypeOK, FinishSpelled, ExtensionAsKeyed, [TransferNext]_allVars
  PROVE  ExtensionAsKeyed'
<1>1. ExtensionAsKeyed <=> \A c \in Calls : sentTo[c] # None => Asked(sentTo[c], keyed[c])
  BY DEF ExtensionAsKeyed, Asked
<1>2. ExtensionAsKeyed' <=> \A c \in Calls : sentTo'[c] # None => Asked(sentTo'[c], keyed'[c])
  BY DEF ExtensionAsKeyed, Asked
<1> SUFFICES ASSUME NEW c \in Calls, sentTo'[c] # None
             PROVE  Asked(sentTo'[c], keyed'[c])
  BY <1>2
<1>3. CASE sentTo'[c] = sentTo[c]
  BY <1>1, <1>3, HistoryGrows, AskedBefore
<1>4. ASSUME NEW i \in Presses, Send(c, i) PROVE Asked(sentTo'[c], keyed'[c])
  <2>1. keyed'[c] = keyed[c] /\ keyed[c] \in Seq(Key)
    BY <1>4, HistoryGrows DEF Send
  <2>2. sentTo'[c] = Extension(finishing[<<c, i>>].ext) /\ finishing[<<c, i>>].ext \in Seq(Digits)
    BY <1>4 DEF Send, TransferTypeOK
  <2>3. Between(finishing[<<c, i>>].ext, keyed[c])
    BY <1>4 DEF Send, FinishSpelled
  <2> QED
    BY <2>1, <2>2, <2>3, AskedFor
<1>5. ASSUME NEW d \in Calls, NEW i \in Presses, Send(d, i), d # c PROVE sentTo'[c] = sentTo[c]
  BY <1>5 DEF Send, TransferTypeOK
<1>6. ASSUME NEW d \in Calls, NEW i \in Presses,
             SendFailed(d, i) \/ HangUpAgent(d, i) \/ DeleteTransfer(d, i)
      PROVE  sentTo' = sentTo
  BY <1>6 DEF SendFailed, HangUpAgent, DeleteTransfer
<1>7. ASSUME NEW x \in Legs, StartTransfer(x) \/ FinishTransfer(x) PROVE sentTo' = sentTo
  BY <1>7 DEF StartTransfer, FinishTransfer
<1>8. ASSUME NEW x \in Legs, NEW k \in Keys, PressRepeated(x, k) \/ KeyDigit(x, k) \/ KeyIgnored(x, k)
      PROVE  sentTo' = sentTo
  BY <1>8 DEF PressRepeated, KeyDigit, KeyIgnored
<1>9. CallStep \/ UNCHANGED allVars => sentTo' = sentTo
  BY DEF CallStep, allVars, transferVars
<1> QED
  BY StepCases, <1>3, <1>4, <1>5, <1>6, <1>7, <1>8, <1>9

SpellingInv == DedupOK /\ PendingSpelled /\ FinishSpelled /\ ExtensionAsKeyed

\* A customer is sent to the digits the parties keyed between two '#', or to the
\* default extension, however keys, repetitions and unfinished handlers mix.
THEOREM ExtensionAsKeyedHolds == TransferSpec => []ExtensionAsKeyed
<1>1. TransferInit => SpellingInv
  <2> SUFFICES ASSUME TransferInit PROVE SpellingInv
    OBVIOUS
  <2>1. \A c \in Calls : pendingTransfers[c] = None /\ sentTo[c] = None /\ keyed[c] = <<>>
    BY DEF TransferInit
  <2>2. \A c \in Calls, i \in Presses : finishing[<<c, i>>].at = "idle"
    BY DEF TransferInit
  <2>3. \A x \in Legs : keyed[x[1]] = <<>> /\ lastDtmf[x] = None
    BY <2>1, LegFacts DEF TransferInit
  <2>4. DedupOK
    BY <2>3 DEF DedupOK, Dedup
  <2> QED
    BY <2>1, <2>2, <2>4 DEF SpellingInv, PendingSpelled, FinishSpelled, ExtensionAsKeyed
<1>2. TransferTypeOK /\ SpellingInv /\ [TransferNext]_<<vars, transferVars>> => SpellingInv'
  BY DedupInductive, PendingSpelledInductive, FinishSpelledInductive, AsAskedInductive
  DEF SpellingInv, allVars
<1>3. SpellingInv => ExtensionAsKeyed
  BY DEF SpellingInv
<1> QED
  BY <1>1, <1>2, <1>3, TransferTypeCorrect, PTL DEF TransferSpec

-----------------------------------------------------------------------------
(***************************************************************************)
(* The invariants of TransferSpec.                                         *)
(***************************************************************************)
TransferInv ==
  MetaOriginated /\ HandlersKeyed /\ AgentOriginated /\ PendingHasLiveLeg /\ SentFreesAgent

THEOREM TransferInvariance == TransferSpec => []TransferInv
<1>1. TransferInit => TransferInv
  <2> SUFFICES ASSUME TransferInit PROVE TransferInv
    OBVIOUS
  <2>1. MetaOriginated
    BY LegFacts DEF TransferInit, Init, MetaOriginated
  <2>2. \A c \in Calls, i \in Presses : finishing[<<c, i>>].at = "idle"
    BY DEF TransferInit
  <2>3. \A c \in Calls : pendingTransfers[c] = None /\ sentTo[c] = None
    BY DEF TransferInit
  <2> QED
    BY <2>1, <2>2, <2>3
    DEF TransferInv, HandlersKeyed, AgentOriginated, Transferring, PendingHasLiveLeg, SentFreesAgent
<1>2. IInv /\ TransferTypeOK /\ TransferInv /\ [TransferNext]_<<vars, transferVars>> => TransferInv'
  <2> SUFFICES ASSUME IInv, TransferTypeOK, TransferInv, [TransferNext]_<<vars, transferVars>>
               PROVE  TransferInv'
    OBVIOUS
  <2>1. TypeOK /\ Order /\ [TransferNext]_allVars
    BY DEF IInv, allVars
  <2>2. [Next]_vars
    BY <2>1, StepRefines
  <2> QED
    BY <2>1, <2>2, MetaOriginatedInductive, HandlersKeyedInductive, AgentOriginatedInductive,
       PendingInductive, SentInductive
    DEF TransferInv
<1> QED
  BY <1>1, <1>2, LifecycleInv, TransferTypeCorrect, PTL DEF TransferSpec

\* pendingTransfers keeps an entry only as long as a leg of its call is still to
\* come to onChannelDestroyed.
THEOREM PendingHasLiveLegHolds == TransferSpec => []PendingHasLiveLeg
<1>1. TransferInv => PendingHasLiveLeg
  BY DEF TransferInv
<1> QED
  BY <1>1, TransferInvariance, PTL

\* Once the customer has been sent into the dialplan, the agent's leg is over or
\* a handler is about to hang it up, however many '#' are handled at a time.
THEOREM SentFreesAgentHolds == TransferSpec => []SentFreesAgent
<1>1. TransferInv => SentFreesAgent
  BY DEF TransferInv
<1> QED
  BY <1>1, TransferInvariance, PTL

====
