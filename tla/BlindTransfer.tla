---------------------------- MODULE BlindTransfer ----------------------------
(***************************************************************************)
(* Blind transfer by DTMF, on top of the life of a call (CallLifecycle):   *)
(* either party presses '#', keys an extension and presses '#' again; the  *)
(* customer is sent to that extension in the dialplan, which takes it out  *)
(* of the Stasis application, and the agent's leg is hung up.              *)
(*                                                                         *)
(* A key is handled in one step, but for the second '#', whose handler     *)
(* awaits continueInDialplan and the hangup before it deletes the pending  *)
(* transfer: further keys, the hold timer and the end of either leg come   *)
(* in between, and so may another '#'.                                     *)
(***************************************************************************)
EXTENDS CallLifecycle, Sequences, FiniteSets

CONSTANTS
  Digits,      \* the keys other than '#'
  Hash,        \* '#'
  DefaultExt,  \* '200', where a transfer without digits goes
  MaxKeys      \* bound: keys pressed in a call

ASSUME KeyAssumption ==
  /\ Hash \notin Digits
  /\ None \notin Seq(Digits) /\ None \notin Digits \cup {Hash}

ASSUME MaxKeysAssumption == MaxKeys \in Nat

Keys == Digits \cup {Hash}

Presses == 1..MaxKeys

VARIABLES
  pendingTransfers, \* memory: the digits of each call's transfer, None if none
  lastDtmf,         \* memory: the key each leg pressed last
  finishing,        \* the handler of each key: [at, ext]
  sentTo,           \* Asterisk: where the customer was sent, None if he was not
  keyed             \* history: the keys pressed in a call, and on which leg

transferVars == <<pendingTransfers, lastDtmf, finishing, sentTo, keyed>>

TransferTypeOK ==
  /\ pendingTransfers \in [Calls -> Seq(Digits) \cup {None}]
  /\ lastDtmf \in [Legs -> Keys \cup {None}]
  /\ finishing \in [Calls \X Presses ->
                      [at: {"idle", "sending", "hanging", "deleting"}, ext: Seq(Digits)]]
  /\ sentTo \in [Calls -> Seq(Digits) \cup {DefaultExt, None}]
  /\ keyed \in [Calls -> Seq(Legs \X Keys)]

TransferInit ==
  /\ Init
  /\ pendingTransfers = [c \in Calls |-> None]
  /\ lastDtmf = [x \in Legs |-> None]
  /\ finishing = [h \in Calls \X Presses |-> [at |-> "idle", ext |-> <<>>]]
  /\ sentTo = [c \in Calls |-> None]
  /\ keyed = [c \in Calls |-> <<>>]

-----------------------------------------------------------------------------
(***************************************************************************)
(* A step of the call.                                                     *)
(***************************************************************************)

\* onChannelDestroyed of a leg of c begins in this step.
BadEnds(c) == endPc[Customer(c)] = "idle" /\ endPc'[Customer(c)] # "idle"

Ends(c) == \E x \in {Customer(c), AgentLeg(c)} : endPc[x] = "idle" /\ endPc'[x] # "idle"

\* Any step of CallLifecycle; the first thing onChannelDestroyed does is to
\* delete the call's pending transfer.  A customer who has left the application
\* cannot be put in a bridge.
CallStep ==
  /\ Next
  /\ \A c \in Calls : sentTo[c] # None => bridged'[c] = bridged[c]
  /\ pendingTransfers' = [c \in Calls |-> IF Ends(c) THEN None ELSE pendingTransfers[c]]
  /\ UNCHANGED <<lastDtmf, finishing, sentTo, keyed>>

-----------------------------------------------------------------------------
(***************************************************************************)
(* onDtmfReceived                                                          *)
(***************************************************************************)

\* Asterisk reports the keys of an answered leg that is in the application.
MayPress(x) ==
  /\ Answered(x) /\ endPc[x] = "idle"
  /\ x[2] = "customer" => sentTo[x[1]] = None
  /\ Len(keyed[x[1]]) < MaxKeys

\* de-dup very chatty DTMF events
BadRepeated(x, k) == FALSE

Repeated(x, k) == lastDtmf[x] = k

\* lastDtmf after a key of leg x that is taken for a repetition.
Forgotten(x) == [lastDtmf EXCEPT ![x] = None]

\* The keys that are added to a transfer's digits.
BadIsDigit(k) == TRUE

IsDigit(k) == k # Hash

\* The extension of a transfer.
Extension(digits) == IF digits = <<>> THEN DefaultExt ELSE digits

\* The transfer the handler of a key finds, and both its channels.
InTransfer(c) == pendingTransfers[c] # None

BothKnown(c) == \A x \in {Customer(c), AgentLeg(c)} : channelToMeta[x] # None

PressRepeated(x, k) ==
  /\ MayPress(x)
  /\ Repeated(x, k)
  /\ lastDtmf' = Forgotten(x)
  /\ keyed' = [keyed EXCEPT ![x[1]] = Append(@, <<x, k>>)]
  /\ UNCHANGED <<vars, pendingTransfers, finishing, sentTo>>

\* What every key does that is not taken for a repetition.
Taken(x, k) ==
  /\ MayPress(x)
  /\ ~Repeated(x, k)
  /\ lastDtmf' = [lastDtmf EXCEPT ![x] = k]
  /\ keyed' = [keyed EXCEPT ![x[1]] = Append(@, <<x, k>>)]

\* handleBlindTransfer
StartTransfer(x) ==
  LET c == x[1] IN
  /\ Taken(x, Hash)
  /\ ~InTransfer(c) /\ BothKnown(c)
  /\ pendingTransfers' = [pendingTransfers EXCEPT ![c] = <<>>]
  /\ UNCHANGED <<vars, finishing, sentTo>>

\* A digit of the extension.
KeyDigit(x, k) ==
  LET c == x[1] IN
  /\ Taken(x, k) /\ IsDigit(k)
  /\ InTransfer(c)
  /\ pendingTransfers' = [pendingTransfers EXCEPT ![c] = Append(@, k)]
  /\ UNCHANGED <<vars, finishing, sentTo>>

\* A '#' with a leg that is not known, or a digit outside a transfer: *, 1 and
\* 0 have stubs, which do nothing.
KeyIgnored(x, k) ==
  /\ Taken(x, k)
  /\ ~InTransfer(x[1]) /\ (k = Hash => ~BothKnown(x[1]))
  /\ UNCHANGED <<vars, pendingTransfers, finishing, sentTo>>

\* The '#' after the digits, up to continueInDialplan.
FinishTransfer(x) ==
  LET c == x[1] IN
  /\ Taken(x, Hash)
  /\ InTransfer(c)
  /\ finishing' = [finishing EXCEPT ![<<c, Len(keyed[c]) + 1>>] =
                     [at |-> "sending", ext |-> pendingTransfers[c]]]
  /\ UNCHANGED <<vars, pendingTransfers, sentTo>>

Goto(c, i, at) == finishing' = [finishing EXCEPT ![<<c, i>>].at = at]

\* continueInDialplan works once: the customer then leaves the application.
Send(c, i) ==
  /\ finishing[<<c, i>>].at = "sending"
  /\ chan[Customer(c)] = "up" /\ sentTo[c] = None
  /\ sentTo' = [sentTo EXCEPT ![c] = Extension(finishing[<<c, i>>].ext)]
  /\ Goto(c, i, "hanging")
  /\ UNCHANGED <<vars, pendingTransfers, lastDtmf, keyed>>

\* "Blind transfer failed": the handler goes on all the same.
SendFailed(c, i) ==
  /\ finishing[<<c, i>>].at = "sending"
  /\ Goto(c, i, "hanging")
  /\ UNCHANGED <<vars, pendingTransfers, lastDtmf, sentTo, keyed>>

\* safeHangup(transfer.agentChannelId)
BadTransferor(c) == Customer(c)

Transferor(c) == AgentLeg(c)

\* What the hangup does to the metas: nothing, onChannelDestroyed deletes them.
BadMetaAfterHangup(c) == [channelToMeta EXCEPT ![AgentLeg(c)] = None]

MetaAfterHangup(c) == channelToMeta

HangUpAgent(c, i) ==
  /\ finishing[<<c, i>>].at = "hanging"
  /\ chan' = HungUp(Transferor(c))
  /\ channelToMeta' = MetaAfterHangup(c)
  /\ Goto(c, i, "deleting")
  /\ UNCHANGED <<db, holdQueue, holdTimer, bridged, startVars, upVars, endVars,
                 pendingTransfers, lastDtmf, sentTo, keyed>>

\* pendingTransfers.delete, whichever transfer of the call is there by now.
DeleteTransfer(c, i) ==
  /\ finishing[<<c, i>>].at = "deleting"
  /\ pendingTransfers' = [pendingTransfers EXCEPT ![c] = None]
  /\ finishing' = [finishing EXCEPT ![<<c, i>>] = [at |-> "idle", ext |-> <<>>]]
  /\ UNCHANGED <<vars, lastDtmf, sentTo, keyed>>

Press(x) ==
  \/ StartTransfer(x) \/ FinishTransfer(x)
  \/ \E k \in Keys : PressRepeated(x, k) \/ KeyDigit(x, k) \/ KeyIgnored(x, k)

Finish(c, i) == Send(c, i) \/ SendFailed(c, i) \/ HangUpAgent(c, i) \/ DeleteTransfer(c, i)

TransferNext ==
  \/ CallStep
  \/ \E x \in Legs : Press(x)
  \/ \E c \in Calls, i \in Presses : Finish(c, i)

TransferSpec == TransferInit /\ [][TransferNext]_<<vars, transferVars>>

-----------------------------------------------------------------------------
(***************************************************************************)
(* Properties.                                                             *)
(***************************************************************************)

\* Transfers change nothing about the life of a call: whatever the parties key,
\* every step is one of CallLifecycle's, or none.
Lifecycle == [][Next]_vars

\* pendingTransfers does not leak: as long as it has an entry for a call, a leg
\* of that call is still to come to onChannelDestroyed, which will delete it,
\* although a key of one leg may bring the entry back after the other has ended.
PendingHasLiveLeg ==
  \A c \in Calls : pendingTransfers[c] # None =>
    \E x \in {Customer(c), AgentLeg(c)} : Answered(x) /\ endPc[x] = "idle"

\* Whoever is sent into the dialplan has left his agent: the agent's leg is
\* over, or a handler is about to hang it up.
SentFreesAgent ==
  \A c \in Calls : sentTo[c] # None =>
    \/ chan[AgentLeg(c)] \notin {"dialing", "up"}
    \/ \E i \in Presses : finishing[<<c, i>>].at = "hanging"

\* The keys equal to the n-th of a call's keys, back to another key of its leg.
Run(keys, n) ==
  {m \in 1..n : keys[m] = keys[n] /\ \A j \in m..n : keys[j][1] = keys[n][1] => keys[j] = keys[n]}

\* The n-th key is no repetition.
Counts(keys, n) == Cardinality(Run(keys, n)) % 2 = 1

\* The digits among the keys after the i-th and before the j-th.
DigitsBetween(keys, i, j) == {n \in (i + 1)..(j - 1) : Counts(keys, n) /\ keys[n][2] # Hash}

\* An extension is what these digits spell, each at its place among them.
Spells(ext, keys, i, j) ==
  LET digits == DigitsBetween(keys, i, j) IN
  /\ Len(ext) = Cardinality(digits)
  /\ \A n \in digits : ext[Cardinality({m \in digits : m <= n})] = keys[n][2]

\* The n-th key is a '#' that begins or ends a transfer.
IsHash(keys, n) == n \in DOMAIN keys /\ keys[n][2] = Hash /\ Counts(keys, n)

\* A customer is sent where the parties said: to the digits they keyed, on
\* either leg, between a '#' and a later '#' - or to the default extension if
\* there are none - a repeated key counting at its first, third, ... press.
\* (dialer.service.ts:904-990.)
ExtensionAsKeyed ==
  \A c \in Calls : sentTo[c] # None =>
    \E i, j \in DOMAIN keyed[c] :
      /\ i < j
      /\ IsHash(keyed[c], i) /\ IsHash(keyed[c], j)
      /\ \/ DigitsBetween(keyed[c], i, j) = {} /\ sentTo[c] = DefaultExt
         \/ /\ DigitsBetween(keyed[c], i, j) # {} /\ sentTo[c] \in Seq(Digits)
            /\ Spells(sentTo[c], keyed[c], i, j)

====
