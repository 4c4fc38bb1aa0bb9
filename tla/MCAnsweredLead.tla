--------------------------- MODULE MCAnsweredLead ---------------------------
(***************************************************************************)
(* An instance of CallLifecycle that remembers which calls have been in    *)
(* conversation: CONNECTED, both legs up, every handler of the start of    *)
(* the call done and no hold timer pending, so that only the ends of the   *)
(* legs can write the log any more.                                        *)
(***************************************************************************)
EXTENDS MCCallLifecycle

VARIABLE talked

MCInit == Init /\ talked = {}

InConversation(c) ==
  /\ callLog[Dialed(c)].status = "CONNECTED"
  /\ holdTimer[c] \in {"off", "spent"}
  /\ \A x \in {Customer(c), AgentLeg(c)} :
       chan[x] = "up" /\ startPc[x] = "done" /\ upPc[x] = "done"

MCNext == Next /\ talked' = talked \cup {c \in Calls : InConversation(c)'}

MCSpec == MCInit /\ [][MCNext]_<<vars, talked>>

\* dialer.service.ts:804, "lead DID answer at some point, then hung up": the
\* lead of such a call is "Answered" once the clean-up of his leg is done.
AnsweredLeadIsAnswered ==
  \A c \in talked :
    endPc[Customer(c)] = "done" => crmLead[leadOf[c]].contactStatus = "Answered"

=============================================================================
