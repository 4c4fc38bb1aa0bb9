---------------------------- MODULE MCBackOffice ----------------------------
(***************************************************************************)
(* A small instance of BackOffice for TLC.                                 *)
(***************************************************************************)
EXTENDS BackOffice, TLC

CONSTANTS a1, a2, a3, c1, c2, u1, k1, k2

MCMailboxOf == [m \in Mails |-> a2]

MCOutputOf == [f \in Uploads |-> CHOOSE w \in Sounds : TRUE]

MCCompanyOf == (a1 :> c1) @@ (a2 :> c2) @@ (a3 :> c1)

MCRoomOf == (k1 :> c1) @@ (k2 :> All)

\* A user of c1 has registered, his section is in the file, and he has been
\* given a subscription: three steps of BackOffice from its Init.
MCAccountsInit ==
  /\ user = [u \in Users |-> IF u = u1 THEN [row |-> "live", company |-> c1]
                             ELSE [row |-> "unused", company |-> None]]
  /\ subscription = [u \in Users |-> IF u = u1 THEN MaxQuota ELSE None]
  /\ agentFile = {u1}
  /\ agent = [a \in Agents |-> [row |-> "unused", company |-> None, password |-> "none"]]
  /\ information = {} /\ config = {} /\ appending = {}
  /\ copies = [m \in Mails |-> [r \in Clients |-> 0]]
  /\ request = [r \in Clients |-> Idle]
  /\ counted = [a \in Agents |-> None]

MCInit ==
  /\ MCAccountsInit
  /\ Settings!Init
  /\ Recordings!Init
  /\ Trunks!Init
  /\ Board!Init
  /\ requests = 0

\* The parts share no row, only the clients and the process that ends: the
\* instance has behaviours of one part with MaxRequests requests, and of any
\* two with one less.
Untouched ==
  {part \in {"accounts", "settings", "recordings", "trunks", "board"} :
     CASE part = "accounts"   -> MCAccountsInit
       [] part = "settings"   -> Settings!Init
       [] part = "recordings" -> Recordings!Init
       [] part = "trunks"     -> Trunks!Init
       [] part = "board"      -> Board!Init}

MCNext ==
  /\ Next
  /\ \/ Cardinality(Untouched') >= 4
     \/ Cardinality(Untouched') = 3 /\ requests' < MaxRequests

MCSpec == MCInit /\ [][MCNext]_vars

\* Two clients are alike, and so are the two agents of c1, and the two uploads.
Symmetry == Permutations(Clients) \cup Permutations({a1, a3}) \cup Permutations(Uploads)

====
