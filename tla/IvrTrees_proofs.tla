-------------------------- MODULE IvrTrees_proofs --------------------------
(* Proofs about IvrTrees, for every set of requests, names and trees.        *)
EXTENDS IvrTrees, TLAPS

(* Type correctness *)

\* A request that is under way works on a row of a name.
JobOK ==
  \A r \in Requests : pc[r] # "idle" =>
    /\ job[r].name \in Names /\ job[r].tree \in Trees
    /\ pc[r] # "insert" => job[r].id \in Ids

LEMMA ExistingRow ==
  ASSUME TypeOK, NEW i \in Ids, Exists(i) PROVE ivrTree[i] \in Row
BY DEF TypeOK, Exists

\* What a step may do to the requests.
ControlOK ==
  /\ pc \in [Requests -> {"idle", "insert", "update", "write", "save", "delete", "erase"}]
  /\ job \in [Requests -> [id : 0..MaxId, name : Names \cup {None}, tree : Trees \cup {None}]]
  /\ disturbed \subseteq Names

LEMMA BeginTypes ==
  ASSUME TypeOK, JobOK, NEW r \in Requests,
         NEW place \in {"insert", "update", "delete"},
         NEW j \in [id : 0..MaxId, name : Names, tree : Trees],
         place # "insert" => j.id \in Ids, Begin(r, place, j)
  PROVE  ControlOK' /\ JobOK'
<1>1. /\ pc' = [pc EXCEPT ![r] = place]
      /\ job' = [job EXCEPT ![r] = j]
      /\ disturbed' \subseteq Names
  BY DEF Begin, TypeOK
<1>2. pc' \in [Requests -> {"idle", "insert", "update", "write", "save", "delete", "erase"}]
  BY <1>1 DEF TypeOK
<1>3. j \in [id : 0..MaxId, name : Names \cup {None}, tree : Trees \cup {None}]
  OBVIOUS
<1>4. job' \in [Requests -> [id : 0..MaxId, name : Names \cup {None}, tree : Trees \cup {None}]]
  BY <1>1, <1>3 DEF TypeOK
<1>5. JobOK'
  <2> SUFFICES ASSUME NEW q \in Requests, pc'[q] # "idle"
               PROVE  /\ job'[q].name \in Names /\ job'[q].tree \in Trees
                      /\ pc'[q] # "insert" => job'[q].id \in Ids
    BY DEF JobOK, Ids
  <2>1. CASE q = r
    BY <1>1, <2>1, TreesAssumption DEF TypeOK, Ids
  <2>2. CASE q # r
    <3>1. pc'[q] = pc[q] /\ job'[q] = job[q]
      BY <1>1, <2>2 DEF TypeOK
    <3> QED BY <3>1, TreesAssumption DEF JobOK, TypeOK, Ids
  <2> QED BY <2>1, <2>2
<1> QED
  BY <1>1, <1>2, <1>4, <1>5 DEF ControlOK

LEMMA GotoTypes ==
  ASSUME TypeOK, JobOK, NEW r \in Requests, pc[r] \notin {"idle", "insert"},
         NEW place \in {"write", "save", "erase"}, pc' = [pc EXCEPT ![r] = place],
         job' = job, disturbed' \subseteq Names
  PROVE  ControlOK' /\ JobOK'
<1>1. JobOK'
  BY DEF JobOK, TypeOK, Ids
<1> QED
  BY <1>1 DEF ControlOK, TypeOK

LEMMA EndTypes ==
  ASSUME TypeOK, JobOK, NEW r \in Requests, End(r)
  PROVE  ControlOK' /\ JobOK'
<1>1. /\ pc' = [pc EXCEPT ![r] = "idle"]
      /\ job' = [job EXCEPT ![r] = NoJob]
      /\ disturbed' = disturbed
  BY DEF End, Goto
<1>2. NoJob \in [id : 0..MaxId, name : Names \cup {None}, tree : Trees \cup {None}]
  BY TreesAssumption DEF NoJob
<1>3. pc' \in [Requests -> {"idle", "insert", "update", "write", "save", "delete", "erase"}]
  BY <1>1 DEF TypeOK
<1>4. job' \in [Requests -> [id : 0..MaxId, name : Names \cup {None}, tree : Trees \cup {None}]]
  BY <1>1, <1>2 DEF TypeOK
<1>5. JobOK'
  BY <1>1 DEF JobOK, TypeOK, Ids
<1> QED
  BY <1>1, <1>3, <1>4, <1>5 DEF ControlOK, TypeOK

LEMMA DieTypes == ASSUME TypeOK, Die PROVE ControlOK' /\ JobOK'
<1>1. NoJob \in [id : 0..MaxId, name : Names \cup {None}, tree : Trees \cup {None}]
  BY TreesAssumption DEF NoJob
<1>2. /\ pc' = [r \in Requests |-> "idle"]
      /\ job' = [r \in Requests |-> NoJob]
      /\ disturbed' \subseteq Names
  BY DEF Die, TypeOK
<1> QED
  BY <1>1, <1>2 DEF ControlOK, JobOK

\* What a step may do to the rows and the files.
DataOK ==
  /\ ivrTree \in [Ids -> Row \cup {None}]
  /\ nextId \in 1..(MaxId + 1)
  /\ customConf \subseteq Row \cup Handwritten /\ twice \subseteq customConf
  /\ customExists \in BOOLEAN
  /\ extensionsConf \in {"absent", "plain", "including"}

LEMMA TypeParts == TypeOK <=> DataOK /\ ControlOK
BY DEF TypeOK, DataOK, ControlOK

LEMMA EraseTypes ==
  ASSUME TypeOK, JobOK, NEW r \in Requests, pc[r] \in {"update", "delete"},
         NEW place \in {"write", "erase"}, Erase(r, place)
  PROVE  DataOK' /\ ControlOK' /\ JobOK'
<1>1. /\ customConf' \subseteq customConf /\ twice' \subseteq customConf'
      /\ pc' = [pc EXCEPT ![r] = place] /\ job' = job
      /\ disturbed' = disturbed \cup Mistaken(job[r].name)
      /\ UNCHANGED <<rows, customExists, extensionsConf>>
  BY DEF Erase, Without
<1>2. Mistaken(job[r].name) \subseteq Names
  BY TreesAssumption DEF Mistaken, TypeOK, Row
<1>3. DataOK'
  BY <1>1, TypeParts DEF DataOK, rows, Ids
<1> QED
  BY <1>1, <1>2, <1>3, GotoTypes DEF TypeOK

LEMMA TypeInductive == TypeOK /\ JobOK /\ [Next]_vars => TypeOK' /\ JobOK'
<1> SUFFICES ASSUME TypeOK, JobOK, [Next]_vars PROVE DataOK' /\ ControlOK' /\ JobOK'
  BY DEF TypeOK, DataOK, ControlOK
<1>0. DataOK
  BY TypeParts
<1>1. ASSUME NEW r \in Requests, NEW n \in Names, NEW t \in Trees, CreateLookup(r, n, t)
      PROVE  DataOK' /\ ControlOK' /\ JobOK'
  <2> DEFINE j == [id |-> 0, name |-> n, tree |-> t]
  <2>1. DataOK'
    BY <1>0, <1>1 DEF CreateLookup, DataOK, rows, files, Ids
  <2>2. j \in [id : 0..MaxId, name : Names, tree : Trees]
    BY TreesAssumption
  <2> QED BY <1>1, <2>1, <2>2, BeginTypes DEF CreateLookup, TypeOK
<1>2. ASSUME NEW r \in Requests, CreateRow(r) PROVE DataOK' /\ ControlOK' /\ JobOK'
  <2> DEFINE w == [name |-> job[r].name, tree |-> job[r].tree]
  <2>1. /\ pc[r] = "insert" /\ nextId <= MaxId
        /\ ivrTree' = [ivrTree EXCEPT ![nextId] = w]
        /\ nextId' = nextId + 1
        /\ job' = [job EXCEPT ![r].id = nextId]
        /\ pc' = [pc EXCEPT ![r] = "save"]
        /\ UNCHANGED files /\ disturbed' = disturbed
    BY <1>2 DEF CreateRow, Goto
  <2>2. nextId \in Ids /\ nextId' \in 1..(MaxId + 1) /\ nextId < nextId'
    BY <2>1, TreesAssumption DEF TypeOK, Ids
  <2>3. w \in Row
    BY <2>1 DEF JobOK, Row
  <2>4. DataOK'
    BY <1>0, <2>1, <2>2, <2>3 DEF DataOK, files, Ids
  <2>5. job[r] \in [id : 0..MaxId, name : Names \cup {None}, tree : Trees \cup {None}]
    BY DEF TypeOK
  <2>6. [job[r] EXCEPT !.id = nextId] \in [id : 0..MaxId, name : Names \cup {None}, tree : Trees \cup {None}]
    BY <2>2, <2>5, TreesAssumption DEF Ids
  <2>7. job' = [job EXCEPT ![r] = [job[r] EXCEPT !.id = nextId]]
    BY <2>1
  <2>8. job' \in [Requests -> [id : 0..MaxId, name : Names \cup {None}, tree : Trees \cup {None}]]
    BY <2>6, <2>7 DEF TypeOK
  <2>9. ControlOK'
    BY <2>1, <2>8 DEF ControlOK, TypeOK
  <2>10. JobOK'
    <3> SUFFICES ASSUME NEW q \in Requests, pc'[q] # "idle"
                 PROVE  /\ job'[q].name \in Names /\ job'[q].tree \in Trees
                        /\ pc'[q] # "insert" => job'[q].id \in Ids
      BY DEF JobOK, Ids
    <3>1. CASE q = r
      <4>1. /\ job'[q].name = job[q].name /\ job'[q].tree = job[q].tree /\ job'[q].id = nextId
        BY <2>5, <2>7, <3>1 DEF TypeOK
      <4> QED BY <2>1, <2>2, <3>1, <4>1 DEF JobOK
    <3>2. CASE q # r
      <4>1. pc'[q] = pc[q] /\ job'[q] = job[q]
        BY <2>1, <2>7, <3>2 DEF TypeOK
      <4> QED BY <2>2, <4>1, TreesAssumption DEF JobOK, TypeOK, Ids
    <3> QED BY <3>1, <3>2
  <2> QED BY <2>4, <2>9, <2>10
<1>3. ASSUME NEW r \in Requests, CreateRefused(r) PROVE DataOK' /\ ControlOK' /\ JobOK'
  BY <1>0, <1>3, DieTypes DEF CreateRefused, DataOK, rows, files, Ids
<1>4. ASSUME NEW r \in Requests, Save(r) PROVE DataOK' /\ ControlOK' /\ JobOK'
  <2>1. pc[r] = "save" /\ UNCHANGED rows
    BY <1>4 DEF Save
  <2>2. CASE SaveDialplan(job[r].name, job[r].tree) /\ End(r)
    <3>1. [name |-> job[r].name, tree |-> job[r].tree] \in Row
      BY <2>1 DEF JobOK, Row
    <3>2. DataOK'
      BY <1>0, <2>1, <2>2, <3>1 DEF SaveDialplan, DataOK, rows, Ids
    <3> QED BY <2>1, <2>2, <3>2, EndTypes DEF rows
  <2>3. CASE SaveThrows(job[r].name, job[r].tree) /\ Die
    <3>1. DataOK'
      BY <1>0, <2>1, <2>3 DEF SaveThrows, DataOK, rows, Ids
    <3> QED BY <2>3, <3>1, DieTypes
  <2> QED BY <1>4, <2>2, <2>3 DEF Save
<1>5. ASSUME NEW r \in Requests, NEW i \in Ids, NEW t \in Trees, UpdateLookup(r, i, t)
      PROVE  DataOK' /\ ControlOK' /\ JobOK'
  <2>1. DataOK'
    BY <1>0, <1>5 DEF UpdateLookup, DataOK, rows, files, Ids
  <2>2. ivrTree[i] \in Row
    BY <1>5, ExistingRow DEF UpdateLookup
  <2>3. [id |-> i, name |-> ivrTree[i].name, tree |-> t] \in [id : 0..MaxId, name : Names, tree : Trees]
    BY <2>2, TreesAssumption DEF Row, Ids
  <2> QED BY <1>5, <2>1, <2>3, BeginTypes DEF UpdateLookup, TypeOK
<1>6. ASSUME NEW r \in Requests, UpdateNotFound(r) PROVE DataOK' /\ ControlOK' /\ JobOK'
  BY <1>0, <1>6, DieTypes DEF UpdateNotFound, DataOK, rows, files, Ids
<1>7. ASSUME NEW r \in Requests, UpdateSections(r) PROVE DataOK' /\ ControlOK' /\ JobOK'
  BY <1>7, EraseTypes DEF UpdateSections
<1>8. ASSUME NEW r \in Requests, UpdateRow(r) PROVE DataOK' /\ ControlOK' /\ JobOK'
  <2> DEFINE i == job[r].id
  <2>1. /\ pc[r] = "write" /\ Exists(i) /\ i \in Ids /\ job[r].tree \in Trees
        /\ ivrTree' = [ivrTree EXCEPT ![i].tree = job[r].tree]
        /\ UNCHANGED <<nextId, files>>
    BY <1>8 DEF UpdateRow, Exists, JobOK
  <2>2. ivrTree[i] \in Row
    BY <2>1, ExistingRow
  <2>3. [ivrTree[i] EXCEPT !.tree = job[r].tree] \in Row
    BY <2>1, <2>2 DEF Row
  <2>4. DataOK'
    BY <1>0, <2>1, <2>3 DEF DataOK, files, Ids
  <2> QED BY <1>8, <2>1, <2>4, GotoTypes DEF UpdateRow, Goto, TypeOK
<1>9. ASSUME NEW r \in Requests, UpdateFails(r) PROVE DataOK' /\ ControlOK' /\ JobOK'
  BY <1>0, <1>9, DieTypes DEF UpdateFails, DataOK, rows, files, Ids
<1>10. ASSUME NEW r \in Requests, NEW i \in Ids, DeleteLookup(r, i) PROVE DataOK' /\ ControlOK' /\ JobOK'
  <2>1. DataOK'
    BY <1>0, <1>10 DEF DeleteLookup, DataOK, rows, files, Ids
  <2>2. ivrTree[i] \in Row
    BY <1>10, ExistingRow DEF DeleteLookup
  <2>3. [id |-> i, name |-> ivrTree[i].name, tree |-> ivrTree[i].tree]
          \in [id : 0..MaxId, name : Names, tree : Trees]
    BY <2>2, TreesAssumption DEF Row, Ids
  <2> QED BY <1>10, <2>1, <2>3, BeginTypes DEF DeleteLookup, TypeOK
<1>11. ASSUME NEW r \in Requests, DeleteSections(r) PROVE DataOK' /\ ControlOK' /\ JobOK'
  BY <1>11, EraseTypes DEF DeleteSections
<1>12. ASSUME NEW r \in Requests, DeleteRow(r) PROVE DataOK' /\ ControlOK' /\ JobOK'
  <2>1. DataOK'
    BY <1>0, <1>12 DEF DeleteRow, DataOK, files, Ids
  <2> QED BY <1>12, <2>1, EndTypes DEF DeleteRow
<1>13. ASSUME NEW r \in Requests, DeleteDies(r) PROVE DataOK' /\ ControlOK' /\ JobOK'
  <2>1. DataOK'
    BY <1>0, <1>13 DEF DeleteDies, DataOK, files, Ids
  <2> QED BY <1>13, <2>1, DieTypes DEF DeleteDies
<1>14. CASE Crash
  BY <1>0, <1>14, DieTypes DEF Crash, DataOK, rows, files, Ids
<1>15. CASE UNCHANGED vars
  BY <1>0, <1>15 DEF vars, rows, files, DataOK, ControlOK, TypeOK, JobOK, Ids
<1> QED
  BY <1>1, <1>2, <1>3, <1>4, <1>5, <1>6, <1>7, <1>8, <1>9, <1>10, <1>11, <1>12, <1>13, <1>14, <1>15 DEF Next

\* Every variable keeps its type.
THEOREM TypeCorrect == Spec => [](TypeOK /\ JobOK)
<1>1. Init => TypeOK /\ JobOK
  BY TreesAssumption DEF Init, TypeOK, JobOK, Ids, NoJob
<1> QED
  BY <1>1, TypeInductive, PTL DEF Spec

(* Keys of the sections of a name *)

LEMMA ServedOnceInductive == TypeOK /\ JobOK /\ SectionsShareNoKey /\ [Next]_vars => SectionsShareNoKey'
<1> SUFFICES ASSUME TypeOK, JobOK, SectionsShareNoKey, [Next]_vars PROVE SectionsShareNoKey'
  OBVIOUS
<1> USE DEF SectionsShareNoKey, rows, files, Without, Conflicts
<1>1. ASSUME NEW r \in Requests, NEW n \in Names, NEW t \in Trees, CreateLookup(r, n, t) PROVE SectionsShareNoKey'
  BY <1>1 DEF CreateLookup, Begin
<1>2. ASSUME NEW r \in Requests, CreateRow(r) PROVE SectionsShareNoKey'
  BY <1>2 DEF CreateRow, Goto
<1>3. ASSUME NEW r \in Requests, CreateRefused(r) PROVE SectionsShareNoKey'
  BY <1>3 DEF CreateRefused, Die
<1>4. ASSUME NEW r \in Requests, Save(r) PROVE SectionsShareNoKey'
  <2>1. CASE SaveDialplan(job[r].name, job[r].tree)
    <3> DEFINE s == [name |-> job[r].name, tree |-> job[r].tree]
    <3>1. /\ customConf' = customConf \cup {s}
          /\ twice' = twice \cup (customConf \cap {s})
          /\ \A u \in customConf : u.name = s.name => Exts[u.tree] \cap Checked[s.tree] = {}
      BY <2>1 DEF SaveDialplan
    <3>2. \A u \in customConf : Checked[u.tree] \subseteq Exts[u.tree]
      BY TreesAssumption DEF TypeOK, Row
    <3>3. \A u \in customConf : u.name = s.name => Checked[u.tree] \cap Checked[s.tree] = {}
      BY <3>1, <3>2
    <3> HIDE DEF s
    <3>4. ASSUME NEW u \in customConf', NEW v \in customConf', u.name = v.name,
                 Checked[u.tree] \cap Checked[v.tree] # {}
          PROVE  u = v /\ u \notin twice'
      <4>1. CASE u \in customConf /\ v \in customConf
        BY <3>1, <3>3, <3>4, <4>1
      <4>2. CASE u = s /\ v = s
        <5>1. s \notin customConf
          BY <3>3, <3>4, <4>2
        <5> QED BY <3>1, <4>2, <5>1 DEF TypeOK
      <4>3. CASE u = s /\ v \in customConf
        BY <3>3, <3>4, <4>3
      <4>4. CASE u \in customConf /\ v = s
        BY <3>3, <3>4, <4>4
      <4> QED BY <3>1, <4>1, <4>2, <4>3, <4>4
    <3> QED BY <3>4
  <2>2. CASE SaveThrows(job[r].name, job[r].tree)
    BY <2>2 DEF SaveThrows
  <2> QED BY <1>4, <2>1, <2>2 DEF Save
<1>5. ASSUME NEW r \in Requests, NEW i \in Ids, NEW t \in Trees, UpdateLookup(r, i, t) PROVE SectionsShareNoKey'
  BY <1>5 DEF UpdateLookup, Begin
<1>6. ASSUME NEW r \in Requests, UpdateNotFound(r) PROVE SectionsShareNoKey'
  BY <1>6 DEF UpdateNotFound, Die
<1>7. ASSUME NEW r \in Requests, UpdateSections(r) PROVE SectionsShareNoKey'
  BY <1>7 DEF UpdateSections, Erase
<1>8. ASSUME NEW r \in Requests, UpdateRow(r) PROVE SectionsShareNoKey'
  BY <1>8 DEF UpdateRow, Goto
<1>9. ASSUME NEW r \in Requests, UpdateFails(r) PROVE SectionsShareNoKey'
  BY <1>9 DEF UpdateFails, Die
<1>10. ASSUME NEW r \in Requests, NEW i \in Ids, DeleteLookup(r, i) PROVE SectionsShareNoKey'
  BY <1>10 DEF DeleteLookup, Begin
<1>11. ASSUME NEW r \in Requests, DeleteSections(r) PROVE SectionsShareNoKey'
  BY <1>11 DEF DeleteSections, Erase
<1>12. ASSUME NEW r \in Requests, DeleteRow(r) PROVE SectionsShareNoKey'
  BY <1>12 DEF DeleteRow, End, Goto
<1>13. ASSUME NEW r \in Requests, DeleteDies(r) PROVE SectionsShareNoKey'
  BY <1>13 DEF DeleteDies, Die
<1>14. CASE Crash
  BY <1>14 DEF Crash, Die
<1>15. CASE UNCHANGED vars
  BY <1>15 DEF vars
<1> QED
  BY <1>1, <1>2, <1>3, <1>4, <1>5, <1>6, <1>7, <1>8, <1>9, <1>10, <1>11, <1>12, <1>13, <1>14, <1>15 DEF Next

\* No key that two trees give as a string is in sections of one name, and none
\* in a section that is in the file twice, whatever requests overlap or die,
\* whatever their erasures miss and whatever administrators have written.
THEOREM NoSharedKeys == Spec => []SectionsShareNoKey
<1>1. Init => SectionsShareNoKey
  BY TreesAssumption DEF Init, SectionsShareNoKey
<1> QED
  BY <1>1, TypeCorrect, ServedOnceInductive, PTL DEF Spec

(* Rows: ids and names are unique, and a request works on a row of its name *)

RowsOK ==
  /\ \A i \in Ids : Exists(i) => i < nextId
  /\ \A i, k \in Ids : Exists(i) /\ Exists(k) /\ ivrTree[i].name = ivrTree[k].name => i = k
  /\ \A r \in Requests : pc[r] \notin {"idle", "insert"} =>
        /\ job[r].id < nextId
        /\ Exists(job[r].id) => ivrTree[job[r].id].name = job[r].name

\* Steps that make no row: rows keep their names, and a request keeps its row
\* or has just found it.
LEMMA NoNewRow ==
  ASSUME TypeOK, JobOK, RowsOK, nextId' = nextId,
         \A i \in Ids : Exists(i)' => Exists(i) /\ ivrTree'[i].name = ivrTree[i].name,
         \A r \in Requests : pc'[r] \notin {"idle", "insert"} =>
            \/ pc[r] \notin {"idle", "insert"} /\ job'[r] = job[r]
            \/ Exists(job'[r].id) /\ ivrTree[job'[r].id].name = job'[r].name
  PROVE  RowsOK'
<1>1. \A i \in Ids : Exists(i)' => i < nextId'
  BY DEF RowsOK
<1>2. \A i, k \in Ids : Exists(i)' /\ Exists(k)' /\ ivrTree'[i].name = ivrTree'[k].name => i = k
  BY DEF RowsOK
<1>3. ASSUME NEW r \in Requests, pc'[r] \notin {"idle", "insert"}
      PROVE  /\ job'[r].id < nextId'
             /\ Exists(job[r].id)' => ivrTree'[job'[r].id].name = job'[r].name
  <2>1. CASE pc[r] \notin {"idle", "insert"} /\ job'[r] = job[r]
    <3>1. job[r].id \in Ids
      BY <2>1 DEF JobOK
    <3> QED BY <2>1, <3>1 DEF RowsOK, Exists
  <2>2. CASE Exists(job'[r].id) /\ ivrTree[job'[r].id].name = job'[r].name
    BY <2>2 DEF RowsOK, Exists
  <2> QED BY <1>3, <2>1, <2>2
<1> QED
  BY <1>1, <1>2, <1>3 DEF RowsOK, Exists

LEMMA RowsInductive == TypeOK /\ JobOK /\ RowsOK /\ [Next]_vars => RowsOK'
<1> SUFFICES ASSUME TypeOK, JobOK, RowsOK, [Next]_vars PROVE RowsOK'
  OBVIOUS
<1> USE DEF rows, Exists
<1>1. ASSUME NEW r \in Requests, NEW n \in Names, NEW t \in Trees, CreateLookup(r, n, t) PROVE RowsOK'
  BY <1>1, NoNewRow DEF CreateLookup, Begin, TypeOK
<1>2. ASSUME NEW r \in Requests, CreateRow(r) PROVE RowsOK'
  <2> DEFINE w == [name |-> job[r].name, tree |-> job[r].tree]
  <2>1. /\ pc[r] = "insert" /\ nextId <= MaxId /\ nextId \in Ids /\ nextId' = nextId + 1
        /\ ivrTree' = [ivrTree EXCEPT ![nextId] = w]
        /\ job' = [job EXCEPT ![r].id = nextId]
        /\ pc' = [pc EXCEPT ![r] = "save"]
        /\ ~NameTaken(job[r].name)
    BY <1>2, TreesAssumption DEF CreateRow, Goto, TypeOK, Ids
  <2>2. ivrTree'[nextId] = w /\ w # None /\ w.name = job[r].name
    BY <2>1, TreesAssumption DEF TypeOK, JobOK
  <2>3. \A i \in Ids : i # nextId => ivrTree'[i] = ivrTree[i]
    BY <2>1 DEF TypeOK
  <2>4. \A i \in Ids : Exists(i)' => i < nextId'
    <3> SUFFICES ASSUME NEW i \in Ids, Exists(i)' PROVE i < nextId + 1
      BY <2>1
    <3>1. CASE i = nextId
      BY <2>1, <3>1 DEF Ids
    <3>2. CASE i # nextId
      <4>1. i < nextId
        BY <2>3, <3>2 DEF RowsOK
      <4> QED BY <4>1, <2>1, TreesAssumption DEF Ids
    <3> QED BY <3>1, <3>2
  <2>5. \A i, k \in Ids : Exists(i)' /\ Exists(k)' /\ ivrTree'[i].name = ivrTree'[k].name => i = k
    <3>1. \A i \in Ids : Exists(i) => ivrTree[i].name # job[r].name
      BY <2>1 DEF NameTaken
    <3> QED BY <2>2, <2>3, <3>1 DEF RowsOK
  <2>6. ASSUME NEW q \in Requests, pc'[q] \notin {"idle", "insert"}
        PROVE  /\ job'[q].id < nextId'
               /\ Exists(job[q].id)' => ivrTree'[job'[q].id].name = job'[q].name
    <3>1. CASE q = r
      <4>1. job'[q].id = nextId /\ job'[q].name = job[r].name
        BY <2>1, <3>1 DEF TypeOK
      <4> QED BY <2>1, <2>2, <4>1, TreesAssumption DEF Ids
    <3>2. CASE q # r
      <4>1. pc'[q] = pc[q] /\ job'[q] = job[q]
        BY <2>1, <3>2 DEF TypeOK
      <4>2. job[q].id \in Ids /\ job[q].id < nextId
        BY <2>6, <4>1 DEF JobOK, RowsOK
      <4>3. job[q].id # nextId /\ job[q].id < nextId + 1
        BY <2>1, <4>2, TreesAssumption DEF Ids
      <4> QED BY <2>1, <2>3, <2>6, <4>1, <4>2, <4>3 DEF RowsOK, Exists
    <3> QED BY <3>1, <3>2
  <2> QED BY <2>4, <2>5, <2>6 DEF RowsOK
<1>3. ASSUME NEW r \in Requests, CreateRefused(r) PROVE RowsOK'
  BY <1>3, NoNewRow DEF CreateRefused, Die
<1>4. ASSUME NEW r \in Requests, Save(r) PROVE RowsOK'
  <2>1. CASE End(r)
    BY <1>4, <2>1, NoNewRow DEF Save, End, Goto, TypeOK
  <2>2. CASE Die
    BY <1>4, <2>2, NoNewRow DEF Save, Die
  <2> QED BY <1>4, <2>1, <2>2 DEF Save
<1>5. ASSUME NEW r \in Requests, NEW i \in Ids, NEW t \in Trees, UpdateLookup(r, i, t) PROVE RowsOK'
  BY <1>5, NoNewRow DEF UpdateLookup, Begin, TypeOK
<1>6. ASSUME NEW r \in Requests, UpdateNotFound(r) PROVE RowsOK'
  BY <1>6, NoNewRow DEF UpdateNotFound, Die
<1>7. ASSUME NEW r \in Requests, UpdateSections(r) PROVE RowsOK'
  BY <1>7, NoNewRow DEF UpdateSections, Erase, TypeOK
<1>8. ASSUME NEW r \in Requests, UpdateRow(r) PROVE RowsOK'
  <2>1. \A i \in Ids : Exists(i)' => Exists(i) /\ ivrTree'[i].name = ivrTree[i].name
    <3>1. ivrTree[job[r].id] \in Row /\ job[r].id \in Ids
      BY <1>8, ExistingRow DEF UpdateRow
    <3> QED BY <1>8, <3>1 DEF UpdateRow, TypeOK, Row
  <2> QED BY <1>8, <2>1, NoNewRow DEF UpdateRow, Goto, TypeOK
<1>9. ASSUME NEW r \in Requests, UpdateFails(r) PROVE RowsOK'
  BY <1>9, NoNewRow DEF UpdateFails, Die
<1>10. ASSUME NEW r \in Requests, NEW i \in Ids, DeleteLookup(r, i) PROVE RowsOK'
  BY <1>10, NoNewRow DEF DeleteLookup, Begin, TypeOK
<1>11. ASSUME NEW r \in Requests, DeleteSections(r) PROVE RowsOK'
  BY <1>11, NoNewRow DEF DeleteSections, Erase, TypeOK
<1>12. ASSUME NEW r \in Requests, DeleteRow(r) PROVE RowsOK'
  BY <1>12, NoNewRow DEF DeleteRow, End, Goto, TypeOK
<1>13. ASSUME NEW r \in Requests, DeleteDies(r) PROVE RowsOK'
  BY <1>13, NoNewRow DEF DeleteDies, Die, TypeOK
<1>14. CASE Crash
  BY <1>14, NoNewRow DEF Crash, Die
<1>15. CASE UNCHANGED vars
  BY <1>15, NoNewRow DEF vars
<1> QED
  BY <1>1, <1>2, <1>3, <1>4, <1>5, <1>6, <1>7, <1>8, <1>9, <1>10, <1>11, <1>12, <1>13, <1>14, <1>15 DEF Next

LEMMA RowsCorrect == Spec => []RowsOK
<1>1. Init => RowsOK
  BY DEF Init, RowsOK, Exists
<1> QED
  BY <1>1, TypeCorrect, RowsInductive, PTL DEF Spec

(* Rows and file: what holds of a name that is not disturbed *)

Resting(n) ==
  Sections(n) = RowsOf(n) /\ (RowsOf(n) # {} => extensionsConf = "including")

\* Its only request, if any, finds the row and the file as it left them.
NameOK(n) ==
  /\ \A r, q \in Requests : WorksOn(r, n) /\ WorksOn(q, n) => r = q
  /\ (\A r \in Requests : ~WorksOn(r, n)) => Resting(n)
  /\ \A r \in Requests : WorksOn(r, n) =>
        /\ pc[r] = "insert" => RowsOf(n) = {} /\ Sections(n) = {}
        /\ pc[r] \in {"update", "delete"} => Resting(n)
        /\ pc[r] \in {"write", "save", "erase"} => Sections(n) = {}
        /\ pc[r] \in {"update", "write", "delete", "erase"} => Exists(job[r].id)
        /\ pc[r] = "save" => RowsOf(n) = {[name |-> n, tree |-> job[r].tree]}

NamesOK == \A n \in Names \ disturbed : NameOK(n)

\* The name n, which has no request of its own in a step, keeps its rows.
LEMMA RowsOfOthers ==
  ASSUME NEW n \in Names,
         \A i \in Ids : \/ ivrTree'[i] = ivrTree[i]
                        \/ /\ ivrTree[i] \in Row => ivrTree[i].name # n
                           /\ ivrTree'[i] \in Row => ivrTree'[i].name # n
  PROVE  RowsOf(n)' = RowsOf(n)
BY DEF RowsOf

\* A step that leaves the name, its sections and its requests alone.
LEMMA Untouched ==
  ASSUME NEW n \in Names, TypeOK, NameOK(n),
         RowsOf(n)' = RowsOf(n), Sections(n)' = Sections(n),
         extensionsConf = "including" => extensionsConf' = "including",
         \A r \in Requests : WorksOn(r, n) =>
            /\ pc'[r] = pc[r] /\ job'[r] = job[r]
            /\ pc[r] # "insert" /\ Exists(job[r].id) => Exists(job[r].id)',
         \A r \in Requests : WorksOn(r, n)' => WorksOn(r, n)
  PROVE  NameOK(n)'
<1>1. Resting(n) => Resting(n)'
  BY DEF Resting
<1>2. \A r \in Requests : WorksOn(r, n) => WorksOn(r, n)'
  BY DEF WorksOn
<1>3. \A r, q \in Requests : WorksOn(r, n)' /\ WorksOn(q, n)' => r = q
  BY DEF NameOK
<1>4. (\A r \in Requests : ~WorksOn(r, n)') => Resting(n)'
  BY <1>1, <1>2 DEF NameOK
<1>5. ASSUME NEW r \in Requests, WorksOn(r, n)'
      PROVE  /\ pc'[r] = "insert" => RowsOf(n)' = {} /\ Sections(n)' = {}
             /\ pc'[r] \in {"update", "delete"} => Resting(n)'
             /\ pc'[r] \in {"write", "save", "erase"} => Sections(n)' = {}
             /\ pc'[r] \in {"update", "write", "delete", "erase"} => Exists(job[r].id)'
             /\ pc'[r] = "save" => RowsOf(n)' = {[name |-> n, tree |-> job'[r].tree]}
  BY <1>1, <1>5 DEF NameOK
<1> QED
  BY <1>3, <1>4, <1>5 DEF NameOK

\* The process ends, and none of the requests it loses was one of the name.
LEMMA NameSurvives ==
  ASSUME NEW n \in Names \ disturbed', NamesOK, Die,
         RowsOf(n)' = RowsOf(n), Sections(n)' = Sections(n),
         extensionsConf = "including" => extensionsConf' = "including"
  PROVE  NameOK(n)'
<1>1. n \notin disturbed /\ \A r \in Requests : ~WorksOn(r, n)
  BY DEF Die
<1>2. Resting(n)'
  BY <1>1 DEF NamesOK, NameOK, Resting
<1>3. \A r \in Requests : ~WorksOn(r, n)'
  BY DEF Die, WorksOn
<1> QED
  BY <1>2, <1>3 DEF NameOK

\* A request begins: it is the only one of its name, or the name is disturbed.
LEMMA NameBegins ==
  ASSUME NEW n \in Names \ disturbed', TypeOK, NamesOK, UNCHANGED <<rows, files>>,
         NEW r \in Requests, pc[r] = "idle", NEW place \in {"insert", "update", "delete"},
         NEW j, Begin(r, place, j),
         place = "insert" => ~NameTaken(j.name),
         place # "insert" => Exists(j.id)
  PROVE  NameOK(n)'
<1>1. /\ n \notin disturbed /\ NameOK(n)
      /\ pc'[r] = place /\ job'[r] = j
      /\ \A q \in Requests \ {r} : pc'[q] = pc[q] /\ job'[q] = job[q]
      /\ ~WorksOn(r, n)
  BY DEF Begin, NamesOK, TypeOK, WorksOn
<1>2. RowsOf(n)' = RowsOf(n) /\ Sections(n)' = Sections(n) /\ Resting(n)' = Resting(n)
  BY DEF rows, files, RowsOf, Sections, Resting
<1>3. CASE j.name = n
  <2>1. \A q \in Requests : ~WorksOn(q, n)
    BY <1>1, <1>3 DEF Begin
  <2>2. Resting(n)
    BY <1>1, <2>1 DEF NameOK
  <2>3. \A q \in Requests : WorksOn(q, n)' => q = r
    BY <1>1, <2>1 DEF WorksOn
  <2>4. place = "insert" => RowsOf(n) = {}
    BY <1>3, TreesAssumption DEF NameTaken, RowsOf, Exists, Row
  <2>5. WorksOn(r, n)'
    BY <1>1, <1>3 DEF WorksOn
  <2>6. place # "insert" => Exists(job[r].id)'
    BY <1>1 DEF Exists, rows
  <2> QED BY <1>1, <1>2, <2>2, <2>3, <2>4, <2>5, <2>6 DEF NameOK, Resting
<1>4. CASE j.name # n
  <2>1. \A q \in Requests : WorksOn(q, n)' <=> WorksOn(q, n)
    BY <1>1, <1>4 DEF WorksOn
  <2>2. \A q \in Requests : WorksOn(q, n) => pc'[q] = pc[q] /\ job'[q] = job[q]
    BY <1>1
  <2>3. \A q \in Requests : WorksOn(q, n) /\ Exists(job[q].id) => Exists(job[q].id)'
    BY <2>2 DEF Exists, rows
  <2> QED BY <1>1, <1>2, <2>1, <2>2, <2>3, Untouched DEF files
<1> QED
  BY <1>3, <1>4

\* The one row of a name.
LEMMA OneRow ==
  ASSUME TypeOK, RowsOK, NEW n \in Names, NEW i \in Ids, Exists(i), ivrTree[i].name = n
  PROVE  RowsOf(n) = {ivrTree[i]}
<1>1. ivrTree[i] \in Row
  BY ExistingRow
<1>2. ASSUME NEW w \in RowsOf(n) PROVE w = ivrTree[i]
  <2>1. PICK k \in Ids : ivrTree[k] = w
    BY DEF RowsOf
  <2>2. Exists(k) /\ ivrTree[k].name = n
    BY <2>1, TreesAssumption DEF RowsOf, Exists, Row
  <2> QED BY <2>1, <2>2 DEF RowsOK
<1> QED
  BY <1>1, <1>2 DEF RowsOf

\* A step of one request that is under way leaves the requests of other names.
LEMMA OthersStay ==
  ASSUME TypeOK, NEW r \in Requests, NEW n \in Names, job[r].name # n,
         \/ \E place : pc' = [pc EXCEPT ![r] = place]
                        /\ (job' = job \/ \E i : job' = [job EXCEPT ![r].id = i])
         \/ End(r)
  PROVE  /\ \A q \in Requests : WorksOn(q, n) => q # r /\ pc'[q] = pc[q] /\ job'[q] = job[q]
         /\ \A q \in Requests : WorksOn(q, n)' => WorksOn(q, n)
<1>1. \A q \in Requests \ {r} : pc'[q] = pc[q] /\ job'[q] = job[q]
  BY DEF TypeOK, End, Goto
<1>2. ~WorksOn(r, n) /\ ~WorksOn(r, n)'
  BY DEF TypeOK, End, Goto, WorksOn, NoJob
<1> QED
  BY <1>1, <1>2 DEF WorksOn

\* A step of the only request of an undisturbed name.
LEMMA OwnStep ==
  ASSUME TypeOK, NEW n \in Names, NameOK(n), NEW r \in Requests, WorksOn(r, n),
         NEW place \in {"write", "save", "erase"}, pc' = [pc EXCEPT ![r] = place],
         \A q \in Requests \ {r} : job'[q] = job[q],
         job'[r].name = n,
         Sections(n)' = {},
         place \in {"write", "erase"} => Exists(job[r].id)',
         place = "save" => RowsOf(n)' = {[name |-> n, tree |-> job'[r].tree]}
  PROVE  NameOK(n)'
<1>1. pc'[r] = place /\ \A q \in Requests \ {r} : pc'[q] = pc[q]
  BY DEF TypeOK
<1>2. \A q \in Requests : WorksOn(q, n)' => q = r
  BY <1>1 DEF WorksOn, NameOK
<1>3. WorksOn(r, n)'
  BY <1>1 DEF WorksOn
<1> QED
  BY <1>1, <1>2, <1>3 DEF NameOK

\* The only request of an undisturbed name is answered.
LEMMA OwnEnd ==
  ASSUME TypeOK, NEW n \in Names, NameOK(n), NEW r \in Requests, WorksOn(r, n), End(r), Resting(n)'
  PROVE  NameOK(n)'
<1>1. pc'[r] = "idle" /\ \A q \in Requests \ {r} : pc'[q] = pc[q] /\ job'[q] = job[q]
  BY DEF TypeOK, End, Goto
<1>2. \A q \in Requests : ~WorksOn(q, n)'
  BY <1>1 DEF WorksOn, NameOK
<1> QED
  BY <1>2 DEF NameOK

LEMMA NamesInductive == TypeOK /\ JobOK /\ RowsOK /\ NamesOK /\ [Next]_vars => NamesOK'
<1> SUFFICES ASSUME TypeOK, JobOK, RowsOK, NamesOK, [Next]_vars, NEW n \in Names, n \notin disturbed'
             PROVE  NameOK(n)'
  BY DEF NamesOK
<1>1. ASSUME NEW r \in Requests, NEW m \in Names, NEW t \in Trees, CreateLookup(r, m, t) PROVE NameOK(n)'
  BY <1>1, NameBegins DEF CreateLookup
<1>2. ASSUME NEW r \in Requests, CreateRow(r) PROVE NameOK(n)'
  <2> DEFINE w == [name |-> job[r].name, tree |-> job[r].tree]
  <2>1. /\ pc[r] = "insert" /\ ~NameTaken(job[r].name)
        /\ ivrTree' = [ivrTree EXCEPT ![nextId] = w]
        /\ job' = [job EXCEPT ![r].id = nextId] /\ pc' = [pc EXCEPT ![r] = "save"]
        /\ UNCHANGED files /\ disturbed' = disturbed
        /\ nextId \in Ids /\ ~Exists(nextId) /\ ivrTree[nextId] = None /\ w \in Row
    BY <1>2, TreesAssumption DEF CreateRow, Goto, TypeOK, Ids, RowsOK, JobOK, Exists, Row
  <2>2. Sections(n)' = Sections(n) /\ NameOK(n)
    BY <2>1 DEF Sections, files, NamesOK
  <2>3. CASE job[r].name = n
    <3>1. WorksOn(r, n) /\ Sections(n) = {} /\ RowsOf(n) = {}
      BY <2>1, <2>2, <2>3 DEF WorksOn, NameOK
    <3>2. RowsOf(n)' = {w}
      BY <2>1, <2>3, <3>1 DEF RowsOf, TypeOK
    <3>3. job'[r].name = n /\ job'[r].tree = job[r].tree /\ \A q \in Requests \ {r} : job'[q] = job[q]
      BY <2>1, <2>3 DEF TypeOK
    <3> QED BY <2>1, <2>2, <2>3, <3>1, <3>2, <3>3, OwnStep
  <2>4. CASE job[r].name # n
    <3>1. RowsOf(n)' = RowsOf(n)
      BY <2>1, <2>4, TreesAssumption, RowsOfOthers DEF TypeOK, Row
    <3>2. \A i \in Ids : Exists(i) => Exists(i)'
      BY <2>1, TreesAssumption DEF Exists, TypeOK, Row
    <3>3. /\ \A q \in Requests : WorksOn(q, n) => q # r /\ pc'[q] = pc[q] /\ job'[q] = job[q]
          /\ \A q \in Requests : WorksOn(q, n)' => WorksOn(q, n)
      BY <2>1, <2>4, OthersStay
    <3>4. \A q \in Requests : WorksOn(q, n) /\ Exists(job[q].id) => Exists(job[q].id)'
      BY <3>2, <3>3 DEF Exists
    <3> QED BY <2>1, <2>2, <3>1, <3>3, <3>4, Untouched DEF files
  <2> QED BY <2>3, <2>4
<1>3. ASSUME NEW r \in Requests, CreateRefused(r) PROVE NameOK(n)'
  BY <1>3, NameSurvives DEF CreateRefused, rows, files, RowsOf, Sections
<1>4. ASSUME NEW r \in Requests, Save(r) PROVE NameOK(n)'
  <2>1. pc[r] = "save" /\ job[r].name \in Names /\ job[r].tree \in Trees /\ UNCHANGED rows
    BY <1>4 DEF Save, JobOK
  <2>2. RowsOf(n)' = RowsOf(n) /\ \A i \in Ids : Exists(i) => Exists(i)'
    BY <2>1 DEF RowsOf, rows, Exists
  <2>3. CASE SaveDialplan(job[r].name, job[r].tree) /\ End(r)
    <3> DEFINE s == [name |-> job[r].name, tree |-> job[r].tree]
    <3>1. /\ customConf' = customConf \cup {s} /\ extensionsConf' = "including"
          /\ s \notin Handwritten /\ NameOK(n)
      BY <2>1, <2>3, TreesAssumption DEF SaveDialplan, NamesOK, End, Goto
    <3>2. CASE job[r].name = n
      <4>1. WorksOn(r, n) /\ Sections(n) = {} /\ RowsOf(n) = {s}
        BY <2>1, <3>1, <3>2 DEF WorksOn, NameOK
      <4>2. Sections(n)' = {s}
        BY <3>1, <3>2, <4>1 DEF Sections
      <4> QED BY <2>2, <2>3, <3>1, <4>1, <4>2, OwnEnd DEF Resting
    <3>3. CASE job[r].name # n
      <4>1. Sections(n)' = Sections(n)
        BY <3>1, <3>3 DEF Sections
      <4>2. /\ \A q \in Requests : WorksOn(q, n) => q # r /\ pc'[q] = pc[q] /\ job'[q] = job[q]
            /\ \A q \in Requests : WorksOn(q, n)' => WorksOn(q, n)
        BY <2>3, <3>3, OthersStay
      <4>3. \A q \in Requests : WorksOn(q, n) /\ Exists(job[q].id) => Exists(job[q].id)'
        BY <2>2, <4>2 DEF Exists
      <4> QED BY <2>2, <3>1, <4>1, <4>2, <4>3, Untouched
    <3> QED BY <3>2, <3>3
  <2>4. CASE SaveThrows(job[r].name, job[r].tree) /\ Die
    BY <2>2, <2>4, NameSurvives DEF SaveThrows, Sections
  <2> QED BY <1>4, <2>3, <2>4 DEF Save
<1>5. ASSUME NEW r \in Requests, NEW i \in Ids, NEW t \in Trees, UpdateLookup(r, i, t) PROVE NameOK(n)'
  BY <1>5, NameBegins DEF UpdateLookup
<1>6. ASSUME NEW r \in Requests, UpdateNotFound(r) PROVE NameOK(n)'
  BY <1>6, NameSurvives DEF UpdateNotFound, rows, files, RowsOf, Sections
<1>7. ASSUME NEW r \in Requests, NEW place \in {"write", "erase"}, pc[r] \in {"update", "delete"},
             Erase(r, place)
      PROVE  NameOK(n)'
  <2>1. RowsOf(n)' = RowsOf(n) /\ \A i : Exists(i) => Exists(i)'
    BY <1>7 DEF Erase, RowsOf, rows, Exists
  <2>2. /\ NameOK(n) /\ pc' = [pc EXCEPT ![r] = place] /\ job' = job
        /\ extensionsConf' = extensionsConf
        /\ \A s \in customConf : s.name = n =>
              (s \in customConf' <=> n \notin Erases[job[r].name])
        /\ customConf' \subseteq customConf
    BY <1>7 DEF Erase, NamesOK, Without
  <2>5. \A s \in customConf : s.name = n => (n = job[r].name <=> n \in Erases[job[r].name])
    BY <1>7 DEF Erase, Mistaken
  <2>3. CASE job[r].name = n
    <3>1. WorksOn(r, n) /\ Exists(job[r].id)
      BY <1>7, <2>2, <2>3 DEF WorksOn, NameOK
    <3>2. Sections(n)' = {}
      BY <2>2, <2>3, <2>5 DEF Sections
    <3>3. Exists(job[r].id)'
      BY <2>1, <2>2, <3>1
    <3> QED BY <2>2, <2>3, <3>1, <3>2, <3>3, OwnStep
  <2>4. CASE job[r].name # n
    <3>1. Sections(n)' = Sections(n)
      BY <2>2, <2>4, <2>5 DEF Sections
    <3>2. /\ \A q \in Requests : WorksOn(q, n) => q # r /\ pc'[q] = pc[q] /\ job'[q] = job[q]
          /\ \A q \in Requests : WorksOn(q, n)' => WorksOn(q, n)
      BY <2>2, <2>4, OthersStay
    <3>3. \A q \in Requests : WorksOn(q, n) /\ Exists(job[q].id) => Exists(job[q].id)'
      BY <2>1, <2>2
    <3> QED BY <1>7, <2>1, <2>2, <3>1, <3>2, <3>3, Untouched
  <2> QED BY <2>3, <2>4
<1>8. ASSUME NEW r \in Requests, UpdateRow(r) PROVE NameOK(n)'
  <2> DEFINE i == job[r].id
             w == [ivrTree[i] EXCEPT !.tree = job[r].tree]
  <2>1. /\ pc[r] = "write" /\ Exists(i) /\ i \in Ids /\ job[r].tree \in Trees
        /\ ivrTree' = [ivrTree EXCEPT ![i] = w]
        /\ pc' = [pc EXCEPT ![r] = "save"] /\ job' = job
        /\ UNCHANGED files /\ disturbed' = disturbed
    BY <1>8 DEF UpdateRow, Goto, JobOK, Exists
  <2>2. ivrTree[i] \in Row /\ ivrTree[i].name = job[r].name
    BY <2>1, ExistingRow DEF RowsOK
  <2>3. w \in Row /\ w = [name |-> job[r].name, tree |-> job[r].tree]
    BY <2>1, <2>2 DEF Row
  <2>4. Sections(n)' = Sections(n) /\ NameOK(n)
    BY <2>1 DEF Sections, files, NamesOK
  <2>5. ivrTree'[i] = w /\ \A k \in Ids : k # i => ivrTree'[k] = ivrTree[k]
    BY <2>1 DEF TypeOK
  <2>6. CASE job[r].name = n
    <3>1. WorksOn(r, n) /\ Sections(n) = {}
      BY <2>1, <2>4, <2>6 DEF WorksOn, NameOK
    <3>2. RowsOf(n)' = {w}
      <4>1. ASSUME NEW k \in Ids, k # i PROVE ~(ivrTree[k] \in Row /\ ivrTree[k].name = n)
        BY <2>1, <2>2, <2>6, <4>1, TreesAssumption DEF RowsOK, Exists, Row
      <4> QED BY <2>1, <2>3, <2>5, <2>6, <4>1 DEF RowsOf
    <3> QED BY <2>1, <2>3, <2>4, <2>6, <3>1, <3>2, OwnStep
  <2>7. CASE job[r].name # n
    <3>1. RowsOf(n)' = RowsOf(n)
      BY <2>2, <2>3, <2>5, <2>7, RowsOfOthers
    <3>2. \A k \in Ids : Exists(k) => Exists(k)'
      BY <2>1, <2>3, <2>5, TreesAssumption DEF Exists, Row
    <3>3. /\ \A q \in Requests : WorksOn(q, n) => q # r /\ pc'[q] = pc[q] /\ job'[q] = job[q]
          /\ \A q \in Requests : WorksOn(q, n)' => WorksOn(q, n)
      BY <2>1, <2>7, OthersStay
    <3>4. \A q \in Requests : WorksOn(q, n) /\ Exists(job[q].id) => Exists(job[q].id)'
      BY <2>1, <3>2 DEF Exists
    <3> QED BY <2>1, <2>4, <3>1, <3>3, <3>4, Untouched DEF files
  <2> QED BY <2>6, <2>7
<1>9. ASSUME NEW r \in Requests, UpdateFails(r) PROVE NameOK(n)'
  BY <1>9, NameSurvives DEF UpdateFails, rows, files, RowsOf, Sections
<1>10. ASSUME NEW r \in Requests, NEW i \in Ids, DeleteLookup(r, i) PROVE NameOK(n)'
  BY <1>10, NameBegins DEF DeleteLookup
<1>12. ASSUME NEW r \in Requests, DeleteRow(r) PROVE NameOK(n)'
  <2> DEFINE i == job[r].id
  <2>1. /\ pc[r] = "erase" /\ i \in Ids /\ End(r) /\ UNCHANGED files /\ NameOK(n)
        /\ ivrTree' = [ivrTree EXCEPT ![i] = None]
        /\ Exists(i) => ivrTree[i].name = job[r].name
    BY <1>12 DEF DeleteRow, End, Goto, JobOK, RowsOK, NamesOK
  <2>2. Sections(n)' = Sections(n) /\ ivrTree'[i] = None /\ \A k \in Ids : k # i => ivrTree'[k] = ivrTree[k]
    BY <2>1 DEF Sections, files, TypeOK
  <2>3. CASE job[r].name = n
    <3>1. WorksOn(r, n) /\ Sections(n) = {} /\ Exists(i)
      BY <2>1, <2>3 DEF WorksOn, NameOK
    <3>2. RowsOf(n)' = {}
      BY <2>1, <2>2, <2>3, <3>1, TreesAssumption DEF RowsOf, RowsOK, Exists, Row
    <3> QED BY <2>1, <2>2, <3>1, <3>2, OwnEnd DEF Resting
  <2>4. CASE job[r].name # n
    <3>1. RowsOf(n)' = RowsOf(n)
      BY <2>1, <2>2, <2>4, TreesAssumption, RowsOfOthers DEF Exists, Row
    <3>2. /\ \A q \in Requests : WorksOn(q, n) => q # r /\ pc'[q] = pc[q] /\ job'[q] = job[q]
          /\ \A q \in Requests : WorksOn(q, n)' => WorksOn(q, n)
      BY <2>1, <2>4, OthersStay
    <3>3. ASSUME NEW q \in Requests, WorksOn(q, n), pc[q] # "insert", Exists(job[q].id)
          PROVE  Exists(job[q].id)'
      <4>1. ivrTree[job[q].id].name = n /\ job[q].id \in Ids
        BY <3>3 DEF RowsOK, WorksOn, Exists
      <4>2. job[q].id # i
        BY <2>1, <2>4, <3>3, <4>1
      <4> QED BY <2>2, <3>2, <3>3, <4>1, <4>2 DEF Exists
    <3> QED BY <2>1, <2>2, <3>1, <3>2, <3>3, Untouched DEF files
  <2> QED BY <2>3, <2>4
<1>13. ASSUME NEW r \in Requests, DeleteDies(r) PROVE NameOK(n)'
  <2>1. /\ pc[r] = "delete" /\ job[r].id \in Ids /\ job[r].name \in Names /\ Die /\ UNCHANGED files
        /\ \/ ivrTree' = [ivrTree EXCEPT ![job[r].id] = None]
           \/ UNCHANGED ivrTree
        /\ Exists(job[r].id) => ivrTree[job[r].id].name = job[r].name
    BY <1>13 DEF DeleteDies, JobOK, RowsOK
  <2>2. job[r].name # n
    BY <2>1 DEF Die, WorksOn
  <2>3. RowsOf(n)' = RowsOf(n)
    BY <2>1, <2>2, TreesAssumption, RowsOfOthers DEF Exists, Row, TypeOK
  <2> QED BY <2>1, <2>3, NameSurvives DEF Sections, files
<1>14. CASE Crash
  BY <1>14, NameSurvives DEF Crash, rows, files, RowsOf, Sections
<1>15. CASE UNCHANGED vars
  BY <1>15, Untouched DEF vars, rows, files, RowsOf, Sections, WorksOn, Exists, NamesOK
<1>16. ASSUME NEW r \in Requests, UpdateSections(r) PROVE NameOK(n)'
  BY <1>7, <1>16 DEF UpdateSections
<1>17. ASSUME NEW r \in Requests, DeleteSections(r) PROVE NameOK(n)'
  BY <1>7, <1>17 DEF DeleteSections
<1> QED
  BY <1>1, <1>2, <1>3, <1>4, <1>5, <1>6, <1>8, <1>9, <1>10, <1>12, <1>13, <1>14, <1>15, <1>16, <1>17 DEF Next

\* Such a name has no section twice.
SinglesOK == \A s \in twice : s.name \in disturbed

LEMMA SinglesInductive == TypeOK /\ JobOK /\ NamesOK /\ SinglesOK /\ [Next]_vars => SinglesOK'
<1> SUFFICES ASSUME TypeOK, JobOK, NamesOK, SinglesOK, [Next]_vars PROVE SinglesOK'
  OBVIOUS
<1>1. disturbed \subseteq disturbed'
  BY DEF Next, vars, rows, files, CreateLookup, CreateRow, CreateRefused, Save, UpdateLookup,
         UpdateNotFound, UpdateSections, UpdateRow, UpdateFails, DeleteLookup, DeleteSections,
         DeleteRow, DeleteDies, Crash, Begin, Goto, End, Die, Erase
<1>2. ASSUME NEW r \in Requests, Save(r) PROVE SinglesOK'
  <2>1. pc[r] = "save" /\ job[r].name \in Names /\ job[r].tree \in Trees
    BY <1>2 DEF Save, JobOK
  <2>2. CASE SaveDialplan(job[r].name, job[r].tree)
    <3> DEFINE s == [name |-> job[r].name, tree |-> job[r].tree]
    <3>1. twice' = twice \cup (customConf \cap {s}) /\ s \notin Handwritten
      BY <2>1, <2>2, TreesAssumption DEF SaveDialplan
    <3>2. ASSUME s \in customConf PROVE s.name \in disturbed
      <4>1. s \in Sections(s.name)
        BY <3>1, <3>2 DEF Sections
      <4>2. WorksOn(r, s.name)
        BY <2>1 DEF WorksOn
      <4> QED BY <2>1, <4>1, <4>2 DEF NamesOK, NameOK
    <3> QED BY <1>1, <3>1, <3>2 DEF SinglesOK
  <2>3. CASE SaveThrows(job[r].name, job[r].tree)
    BY <1>1, <2>3 DEF SaveThrows, SinglesOK
  <2> QED BY <1>2, <2>2, <2>3 DEF Save
<1>3. (\A r \in Requests : ~Save(r)) => twice' \subseteq twice
  BY DEF Next, vars, rows, files, CreateLookup, CreateRow, CreateRefused, UpdateLookup,
         UpdateNotFound, UpdateSections, UpdateRow, UpdateFails, DeleteLookup, DeleteSections,
         DeleteRow, DeleteDies, Crash, Erase
<1> QED
  BY <1>1, <1>2, <1>3 DEF SinglesOK

\* The rows and the file agree about every name whose requests neither
\* overlapped nor died and whose sections no erasure took or left by mistake,
\* whatever happened to requests of other names.
THEOREM RowsAndFileStayInStep == Spec => []RowsAndFileAgree
<1>1. Init => NamesOK /\ SinglesOK
  BY TreesAssumption DEF Init, NamesOK, NameOK, Resting, WorksOn, RowsOf, Sections, Row, SinglesOK
<1>2. NamesOK /\ SinglesOK => RowsAndFileAgree
  BY DEF NamesOK, NameOK, Resting, RowsAndFileAgree, SinglesOK, Sections
<1> QED
  BY <1>1, <1>2, TypeCorrect, RowsCorrect, NamesInductive, SinglesInductive, PTL DEF Spec
=============================================================================
