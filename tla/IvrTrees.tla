------------------------------ MODULE IvrTrees ------------------------------
(* IVR trees of the system manager: each is a row of IVRTree and a context   *)
(* (here: a section) of Asterisk's extensions_custom.conf. saveIVRTree and   *)
(* deleteIVRTree (system-manager.service.ts) change both, with database      *)
(* calls in between; the file work (dialplan-manager.ts) is synchronous.     *)
(* The controller does not wait for saveIVRTree, so whatever that throws is  *)
(* an unhandled rejection, which ends the Node process and every request.    *)
EXTENDS Naturals

CONSTANTS
    Requests,       \* requests that may be under way at a time
    Names, None,
    Trees,          \* the trees that users submit
    ValidTrees,     \* those that validateIvrNode accepts
    Exts,           \* the keys of each tree, as they are read back from the file
    Checked,        \* those given as the very strings read back: not as numbers
    Erases,         \* name -> names whose headers match it as a pattern, or None
    Handwritten,    \* sections an administrator may have put into the file
    MaxId           \* bound: rows created

ASSUME TreesAssumption ==
    /\ ValidTrees \subseteq Trees
    /\ \A t \in ValidTrees : Exts[t] # {}
    /\ \A s \in Handwritten : Checked[s.tree] \subseteq Exts[s.tree]
    /\ \A t \in Trees : Checked[t] \subseteq Exts[t]
    /\ \A s \in Handwritten : s.name \in Names /\ s.tree \notin Trees
    /\ \A s, u \in Handwritten : s.name = u.name /\ Exts[s.tree] \cap Exts[u.tree] # {} => s = u
    /\ None \notin Names \cup [name : Names, tree : Trees] /\ MaxId \in Nat

VARIABLES
    ivrTree,        \* the rows: id -> name and tree, or None
    nextId,
    customConf,     \* the sections of extensions_custom.conf
    twice,          \* those that stand in it more than once
    customExists,   \* that file exists
    extensionsConf, \* extensions.conf: "absent", "plain" or "including" the other
    pc,             \* where each request is
    job,            \* the row it works on: id, name and tree
    disturbed       \* history: names whose requests overlapped or died, or of
                    \* which an erasure took or left a section that it should not

files == <<customConf, twice, customExists, extensionsConf>>
rows == <<ivrTree, nextId>>
vars == <<rows, files, pc, job, disturbed>>

Ids == 1..MaxId
Row == [name : Names, tree : Trees]
NoJob == [id |-> 0, name |-> None, tree |-> None]

TypeOK ==
    /\ ivrTree \in [Ids -> Row \cup {None}]
    /\ nextId \in 1..(MaxId + 1)
    /\ customConf \subseteq Row \cup Handwritten /\ twice \subseteq customConf
    /\ customExists \in BOOLEAN
    /\ extensionsConf \in {"absent", "plain", "including"}
    /\ pc \in [Requests -> {"idle", "insert", "update", "write", "save", "delete", "erase"}]
    /\ job \in [Requests -> [id : 0..MaxId, name : Names \cup {None}, tree : Trees \cup {None}]]
    /\ disturbed \subseteq Names

Init ==
    /\ ivrTree = [i \in Ids |-> None]
    /\ nextId = 1
    /\ customConf \in {{}, Handwritten} /\ twice = {}
    /\ customExists \in BOOLEAN /\ (customConf # {} => customExists)
    /\ extensionsConf \in {"absent", "plain", "including"}
    /\ pc = [r \in Requests |-> "idle"]
    /\ job = [r \in Requests |-> NoJob]
    /\ disturbed = {}

Exists(i) == i \in Ids /\ ivrTree[i] # None
NameTaken(n) == \E i \in Ids : Exists(i) /\ ivrTree[i].name = n
WorksOn(r, n) == pc[r] # "idle" /\ job[r].name = n

\* A request that has found its row goes on; two on one name disturb it.
Begin(r, place, theJob) ==
    /\ pc' = [pc EXCEPT ![r] = place]
    /\ job' = [job EXCEPT ![r] = theJob]
    /\ disturbed' = disturbed \cup {n \in {theJob.name} : \E q \in Requests : WorksOn(q, n)}

Goto(r, place) == pc' = [pc EXCEPT ![r] = place] /\ UNCHANGED disturbed

End(r) ==
    /\ Goto(r, "idle")
    /\ job' = [job EXCEPT ![r] = NoJob]

\* The process ends and is started again: every request is lost where it was.
Die ==
    /\ pc' = [r \in Requests |-> "idle"]
    /\ job' = [r \in Requests |-> NoJob]
    /\ disturbed' = disturbed \cup {n \in Names : \E r \in Requests : WorksOn(r, n)}
-----------------------------------------------------------------------------
(* saveIvrDialplan and deleteIVRTree of dialplan-manager.ts *)

\* Mutant: the new keys are compared with other contexts instead.
BadConflicts(n, t) == \E s \in customConf : s.name # n /\ Exts[s.tree] \cap Checked[t] # {}

\* A key of the tree is already in a context of the name. A number is never
\* equal (===) to a string of the file, and the keys of a tree are not compared
\* with each other: a tree may give one more than once.
Conflicts(n, t) == \E s \in customConf : s.name = n /\ Exts[s.tree] \cap Checked[t] # {}

\* Mutant: the pattern does not find the context.
BadWithout(n) == customConf

\* The file without the contexts whose headers the name matches: it is made a
\* regular expression as it is.
Without(n) == {s \in customConf : s.name \notin Erases[n]}

\* The names of sections that this takes from others or leaves of its own.
Mistaken(n) == {m \in {s.name : s \in customConf} : (m = n) # (m \in Erases[n])}

\* deleteIVRTree cannot read the file, or the name is no regular expression.
CannotErase(n) == ~customExists \/ Erases[n] = None

\* deleteIVRTree of the request's name.
Erase(r, place) ==
    /\ ~CannotErase(job[r].name)
    /\ customConf' = Without(job[r].name)
    /\ twice' = twice \cap customConf'
    /\ pc' = [pc EXCEPT ![r] = place]
    /\ disturbed' = disturbed \cup Mistaken(job[r].name)
    /\ UNCHANGED <<rows, customExists, extensionsConf, job>>

\* validateIvrNode: an application at every node and a key at the root.
Valid(t) == t \in ValidTrees

\* saveIvrDialplan succeeds: the section is appended.
SaveDialplan(n, t) ==
    /\ extensionsConf # "absent" /\ ~Conflicts(n, t) /\ Valid(t)
    /\ customConf' = customConf \cup {[name |-> n, tree |-> t]}
    /\ twice' = twice \cup (customConf \cap {[name |-> n, tree |-> t]})
    /\ customExists' = TRUE
    /\ extensionsConf' = "including"

\* It throws: no extensions.conf, a conflict or an invalid tree.
SaveThrows(n, t) ==
    /\ extensionsConf = "absent" \/ Conflicts(n, t) \/ ~Valid(t)
    /\ customExists' = TRUE
    /\ extensionsConf' = IF extensionsConf = "absent" THEN "absent" ELSE "including"
    /\ UNCHANGED <<customConf, twice>>
-----------------------------------------------------------------------------
(* saveIVRTree without an id *)

\* The name is free, as far as this lookup tells.
CreateLookup(r, n, t) ==
    /\ pc[r] = "idle" /\ ~NameTaken(n)
    /\ Begin(r, "insert", [id |-> 0, name |-> n, tree |-> t])
    /\ UNCHANGED <<rows, files>>

\* Mutant: the row is made without its name.
BadCreateRow(r) ==
    /\ pc[r] = "insert" /\ ~NameTaken(job[r].name) /\ nextId <= MaxId
    /\ ivrTree' = [ivrTree EXCEPT ![nextId] = [name |-> None, tree |-> job[r].tree]]
    /\ nextId' = nextId + 1
    /\ job' = [job EXCEPT ![r].id = nextId]
    /\ Goto(r, "save")
    /\ UNCHANGED files

\* The insert, under the unique index on the name.
CreateRow(r) ==
    /\ pc[r] = "insert" /\ ~NameTaken(job[r].name) /\ nextId <= MaxId
    /\ ivrTree' = [ivrTree EXCEPT ![nextId] = [name |-> job[r].name, tree |-> job[r].tree]]
    /\ nextId' = nextId + 1
    /\ job' = [job EXCEPT ![r].id = nextId]
    /\ Goto(r, "save")
    /\ UNCHANGED files

\* "Duplicated Name Please choose Another", or the unique index.
CreateRefused(r) ==
    /\ \/ pc[r] = "idle" /\ \E n \in Names : NameTaken(n)
       \/ pc[r] = "insert" /\ NameTaken(job[r].name)
    /\ Die
    /\ UNCHANGED <<rows, files>>

\* The end of both forms of saveIVRTree.
Save(r) ==
    /\ pc[r] = "save"
    /\ \/ SaveDialplan(job[r].name, job[r].tree) /\ End(r)
       \/ SaveThrows(job[r].name, job[r].tree) /\ Die
    /\ UNCHANGED rows
-----------------------------------------------------------------------------
(* saveIVRTree with an id *)

UpdateLookup(r, i, t) ==
    /\ pc[r] = "idle" /\ Exists(i)
    /\ Begin(r, "update", [id |-> i, name |-> ivrTree[i].name, tree |-> t])
    /\ UNCHANGED <<rows, files>>

\* "IVR not found for update"
UpdateNotFound(r) ==
    /\ pc[r] = "idle" /\ \E i \in Ids : ~Exists(i)
    /\ Die
    /\ UNCHANGED <<rows, files>>

\* The sections of the name are deleted before the row is written.
UpdateSections(r) == pc[r] = "update" /\ Erase(r, "write")

UpdateRow(r) ==
    /\ pc[r] = "write" /\ Exists(job[r].id)
    /\ ivrTree' = [ivrTree EXCEPT ![job[r].id].tree = job[r].tree]
    /\ Goto(r, "save")
    /\ UNCHANGED <<nextId, files, job>>

\* The row has been deleted meanwhile, or the sections cannot be erased.
UpdateFails(r) ==
    /\ \/ pc[r] = "write" /\ ~Exists(job[r].id)
       \/ pc[r] = "update" /\ CannotErase(job[r].name)
    /\ Die
    /\ UNCHANGED <<rows, files>>
-----------------------------------------------------------------------------
(* deleteIVRTree: the controller waits for it, so a refusal is an answer *)

DeleteLookup(r, i) ==
    /\ pc[r] = "idle" /\ Exists(i)
    /\ Begin(r, "delete", [id |-> i, name |-> ivrTree[i].name, tree |-> ivrTree[i].tree])
    /\ UNCHANGED <<rows, files>>

\* The sections go first.
DeleteSections(r) == pc[r] = "delete" /\ Erase(r, "erase")

\* Then the row, unless another request has deleted it.
DeleteRow(r) ==
    /\ pc[r] = "erase"
    /\ ivrTree' = [ivrTree EXCEPT ![job[r].id] = None]
    /\ End(r)
    /\ UNCHANGED <<nextId, files>>

\* The erasure fails: that rejection is not waited for either. The delete has
\* been sent to the database by then and may or may not be done.
DeleteDies(r) ==
    /\ pc[r] = "delete" /\ CannotErase(job[r].name)
    /\ \/ ivrTree' = [ivrTree EXCEPT ![job[r].id] = None]
       \/ UNCHANGED ivrTree
    /\ Die
    /\ UNCHANGED <<nextId, files>>

\* The process ends for another reason.
Crash == Die /\ UNCHANGED <<rows, files>>

Next ==
    \/ \E r \in Requests :
          \/ \E n \in Names, t \in Trees : CreateLookup(r, n, t)
          \/ CreateRow(r) \/ CreateRefused(r) \/ Save(r)
          \/ \E i \in Ids, t \in Trees : UpdateLookup(r, i, t)
          \/ UpdateNotFound(r) \/ UpdateSections(r) \/ UpdateRow(r) \/ UpdateFails(r)
          \/ \E i \in Ids : DeleteLookup(r, i)
          \/ DeleteSections(r) \/ DeleteRow(r) \/ DeleteDies(r)
    \/ Crash

Spec == Init /\ [][Next]_vars
-----------------------------------------------------------------------------
(* Properties *)

\* However requests overlap or die, and whatever their erasures miss, a key that
\* trees give as strings is in one section of a name and that section is in the
\* file once. (Within a section a key may be repeated, and a key given as a
\* number is not compared: neither is claimed.)
SectionsShareNoKey ==
    \A s, u \in customConf :
        s.name = u.name /\ Checked[s.tree] \cap Checked[u.tree] # {} => s = u /\ s \notin twice

Sections(n) == {s \in customConf : s.name = n} \ Handwritten
RowsOf(n) == {w \in Row : w.name = n /\ \E i \in Ids : ivrTree[i] = w}

\* As long as the requests on a name neither overlap nor die and no erasure is
\* mistaken about its sections, whatever happens to other names, at rest the
\* file has the section of its row, once, and no other but handwritten ones,
\* and Asterisk includes it.
RowsAndFileAgree ==
    \A n \in Names \ disturbed :
        (\A r \in Requests : ~WorksOn(r, n)) =>
            /\ Sections(n) = RowsOf(n)
            /\ \A s \in Sections(n) : s \notin twice
            /\ RowsOf(n) # {} => extensionsConf = "including"

\* "Conflicts detected in extensions.conf! Fix them before saving"
\* (dialplan-manager.ts:202): a tree that conflicts is not saved.
ConflictIsNotSaved ==
    \A r \in Requests :
        pc[r] = "save" /\ extensionsConf # "absent" /\ Conflicts(job[r].name, job[r].tree) =>
            [name |-> job[r].name, tree |-> job[r].tree] \notin RowsOf(job[r].name)
=============================================================================
