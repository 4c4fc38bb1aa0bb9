--------------------------- MODULE MCCallLifecycle ---------------------------
(***************************************************************************)
(* A small instance of CallLifecycle for TLC: agents of two companies.     *)
(***************************************************************************)
EXTENDS CallLifecycle, TLC

CONSTANTS a1, a2

MCCompanyOf == (a1 :> 1) @@ (a2 :> 2)

====
