--------------------------- MODULE MCBlindTransfer ---------------------------
(***************************************************************************)
(* A small instance of BlindTransfer for TLC: one call, one agent, from    *)
(* two moments at which both legs are known to the dialer.                 *)
(***************************************************************************)
EXTENDS BlindTransfer, TLC

CONSTANTS a1, c1, l1, d1

MCCompanyOf == a1 :> 1

\* Two reachable states of TransferSpec.  Either the parties talk and all handlers
\* are done; or the customer waits on hold while his agent's leg rings, and has
\* keyed a digit twice, to no effect.
MCInit ==
  \E talking \in BOOLEAN :
    /\ callLog = [k \in Logs |->
         IF k = Dialed(c1)
         THEN [status |-> IF talking THEN "CONNECTED" ELSE "RINGING", agent |-> a1]
         ELSE [status |-> "UNUSED", agent |-> None]]
    /\ crmLead = [l \in Leads |-> [contactStatus |-> "New", isContacted |-> FALSE]]
    /\ agentStatus = [a \in Agents |-> IF talking THEN "BUSY" ELSE "RINGING"]
    /\ leadOf = [c \in Calls |-> l1]
    /\ channelToMeta = [x \in Legs |-> a1]
    /\ holdQueue = [k \in Logs |-> IF k = Dialed(c1) /\ ~talking THEN 1 ELSE None]
    /\ holdTimer = [c \in Calls |-> IF talking THEN "off" ELSE "armed"]
    /\ chan = [x \in Legs |-> IF x[2] = "customer" \/ talking THEN "up" ELSE "dialing"]
    /\ bridged = [c \in Calls |-> talking]
    /\ startPc = [x \in Legs |-> IF x[2] = "customer" \/ talking THEN "done" ELSE "idle"]
    /\ upPc = [x \in Legs |-> IF x[2] = "customer" \/ talking THEN "done" ELSE "idle"]
    /\ endPc = [x \in Legs |-> "idle"]
    /\ company = [c \in Calls |-> 0]
    /\ freeAgents = [c \in Calls |-> {}]
    /\ picked = [c \in Calls |-> a1]
    /\ seen = [x \in Legs |-> "UNUSED"]
    /\ pendingTransfers = [c \in Calls |-> None]
    /\ lastDtmf = [x \in Legs |-> None]
    /\ finishing = [h \in Calls \X Presses |-> [at |-> "idle", ext |-> <<>>]]
    /\ sentTo = [c \in Calls |-> None]
    /\ keyed = [c \in Calls |-> IF talking THEN <<>>
                                ELSE <<<<Customer(c1), d1>>, <<Customer(c1), d1>>>>]

MCSpec == MCInit /\ [][TransferNext]_<<vars, transferVars>>

====
