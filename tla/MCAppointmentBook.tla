-------------------------- MODULE MCAppointmentBook --------------------------
(***************************************************************************)
(* A small instance of AppointmentBook for TLC: two users of two           *)
(* companies.                                                              *)
(***************************************************************************)
EXTENDS AppointmentBook, TLC

CONSTANTS r1, r2

MCCompanyOf == (r1 :> 1) @@ (r2 :> 2)

====
