----------------------------- MODULE MCSipTrace -----------------------------
(* An INVITE and another message of one call race for its session; a BYE to  *)
(* the same number and a message of another call overlap with them.          *)
EXTENDS SipTrace, TLC

CONSTANTS invite, ringing, bye, other, call1, call2, co1, co2

MCCallId == (invite :> call1) @@ (ringing :> call1) @@ (bye :> call1) @@ (other :> call2)

MCMethod == (invite :> "INVITE") @@ (ringing :> "OTHER") @@ (bye :> "BYE") @@ (other :> "OTHER")

MCCompany == (invite :> co1) @@ (ringing :> None) @@ (bye :> co1) @@ (other :> None)
=============================================================================
