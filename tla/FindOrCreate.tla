---------------------------- MODULE FindOrCreate ----------------------------
(* What a caller of SipSessionService.findOrCreateSession relies on, as one  *)
(* atomic step: whoever asks for a key gets the only row there will ever be  *)
(* of that key, and a row gets an id that no other row has.                  *)
EXTENDS Naturals

CONSTANTS Keys, Requests, KeyOf

VARIABLES
    row,    \* the id of the row of each key, 0 if it has none
    got     \* the id each request was given, 0 before

Init == row = [k \in Keys |-> 0] /\ got = [r \in Requests |-> 0]

Find(r) ==
    /\ got[r] = 0 /\ row[KeyOf[r]] # 0
    /\ got' = [got EXCEPT ![r] = row[KeyOf[r]]]
    /\ UNCHANGED row

Create(r) ==
    LET id == got'[r] IN
    /\ got[r] = 0 /\ row[KeyOf[r]] = 0
    /\ id \in Nat \ {0} /\ \A k \in Keys : row[k] # id
    /\ row' = [row EXCEPT ![KeyOf[r]] = id]
    /\ got' = [got EXCEPT ![r] = id]

Next == \E r \in Requests : Find(r) \/ Create(r)

Spec == Init /\ [][Next]_<<row, got>>
=============================================================================
