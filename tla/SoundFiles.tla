----------------------------- MODULE SoundFiles -----------------------------
(***************************************************************************)
(* SystemManagerService.saveIVRFiles and deleteIVRFile: recordings for the *)
(* IVR, each a row of IvrFiles and a file of public/sounds.                *)
(*                                                                         *)
(* An upload is converted by an ffmpeg process, which opens the output     *)
(* when it has read its input; the row comes after the conversion.  The    *)
(* output is named after the file on the user's disk, so that uploads of   *)
(* one name write, and deletes of one name unlink, one file.               *)
(***************************************************************************)
CONSTANTS
  Clients,    \* deletes in flight at the same time
  Uploads,    \* uploads, each made once
  Sounds,     \* names of files in public/sounds
  OutputOf,   \* the file each upload is converted into
  None

VARIABLES
  upload,    \* where each upload is
  raw,       \* the uploads whose file, as it was sent, is on disk
  sound,     \* whose recordings are in each sound file, {} if there is none
  ivrFiles,  \* the uploads that have a row
  removing,  \* where each client's deleteIVRFile is: [at, file]
  unlinked   \* history: the uploads whose delete has unlinked the sound

vars == <<upload, raw, sound, ivrFiles, removing, unlinked>>

Idle == [at |-> "idle", file |-> None]

TypeOK ==
  /\ upload \in [Uploads -> {"unused", "converting", "writing", "saving", "over"}]
  /\ raw \subseteq Uploads
  /\ sound \in [Sounds -> SUBSET Uploads]
  /\ ivrFiles \subseteq Uploads
  /\ removing \in [Clients -> [at: {"idle", "found", "deleting"}, file: Uploads \cup {None}]]
  /\ unlinked \subseteq Uploads

Init ==
  /\ upload = [f \in Uploads |-> "unused"]
  /\ raw = {}
  /\ sound = [s \in Sounds |-> {}]
  /\ ivrFiles = {}
  /\ removing = [r \in Clients |-> Idle]
  /\ unlinked = {}

-----------------------------------------------------------------------------
(***************************************************************************)
(* saveIVRFiles                                                            *)
(***************************************************************************)
\* multer has written the file under a name of its own, and ffmpeg is started.
UploadFile(f) ==
  /\ upload[f] = "unused"
  /\ upload' = [upload EXCEPT ![f] = "converting"]
  /\ raw' = raw \cup {f}
  /\ UNCHANGED <<sound, ivrFiles, removing, unlinked>>

\* ffmpeg truncates the output; others that have it open go on writing it.
OpenOutput(f) ==
  LET writing == {g \in sound[OutputOf[f]] : upload[g] = "writing"} IN
  /\ upload[f] = "converting"
  /\ upload' = [upload EXCEPT ![f] = "writing"]
  /\ sound' = [sound EXCEPT ![OutputOf[f]] = writing \cup {f}]
  /\ UNCHANGED <<raw, ivrFiles, removing, unlinked>>

\* 'error', before or after the output was opened: nothing is cleaned up.
ConvertFails(f) ==
  /\ upload[f] \in {"converting", "writing"}
  /\ upload' = [upload EXCEPT ![f] = "over"]
  /\ UNCHANGED <<raw, sound, ivrFiles, removing, unlinked>>

\* 'end': statSync throws if the output has been unlinked.
Converted(f) ==
  /\ upload[f] = "writing"
  /\ raw' = raw \ {f}
  /\ upload' = [upload EXCEPT ![f] = IF sound[OutputOf[f]] = {} THEN "over" ELSE "saving"]
  /\ UNCHANGED <<sound, ivrFiles, removing, unlinked>>

SaveRow(f) ==
  /\ upload[f] = "saving"
  /\ upload' = [upload EXCEPT ![f] = "over"]
  /\ ivrFiles' = ivrFiles \cup {f}
  /\ UNCHANGED <<raw, sound, removing, unlinked>>

\* The sound stays, without a row.
SaveRefused(f) ==
  /\ upload[f] = "saving"
  /\ upload' = [upload EXCEPT ![f] = "over"]
  /\ UNCHANGED <<raw, sound, ivrFiles, removing, unlinked>>

(***************************************************************************)
(* deleteIVRFile                                                           *)
(***************************************************************************)
FindFile(r, f) ==
  /\ removing[r] = Idle
  /\ f \in ivrFiles
  /\ removing' = [removing EXCEPT ![r] = [at |-> "found", file |-> f]]
  /\ UNCHANGED <<upload, raw, sound, ivrFiles, unlinked>>

\* Unlinked only if it is there; the delete of the row is sent either way.
UnlinkSound(r) ==
  /\ removing[r].at = "found"
  /\ sound' = [sound EXCEPT ![OutputOf[removing[r].file]] = {}]
  /\ unlinked' = unlinked \cup {removing[r].file}
  /\ removing' = [removing EXCEPT ![r].at = "deleting"]
  /\ UNCHANGED <<upload, raw, ivrFiles>>

DeleteRow(r) ==
  /\ removing[r].at = "deleting"
  /\ ivrFiles' = ivrFiles \ {removing[r].file}
  /\ removing' = [removing EXCEPT ![r] = Idle]
  /\ UNCHANGED <<upload, raw, sound, unlinked>>

\* The database fails, or another client has deleted the row.
DeleteRefused(r) ==
  /\ removing[r].at = "deleting"
  /\ removing' = [removing EXCEPT ![r] = Idle]
  /\ UNCHANGED <<upload, raw, sound, ivrFiles, unlinked>>

\* The process ends: nobody hears of the conversions under way.
Restart ==
  /\ upload' = [f \in Uploads |-> IF upload[f] = "unused" THEN "unused" ELSE "over"]
  /\ removing' = [r \in Clients |-> Idle]
  /\ UNCHANGED <<raw, sound, ivrFiles, unlinked>>

-----------------------------------------------------------------------------
Request == \E f \in Uploads : UploadFile(f) \/ \E r \in Clients : FindFile(r, f)

Step ==
  \/ \E f \in Uploads : \/ OpenOutput(f) \/ ConvertFails(f) \/ Converted(f)
                        \/ SaveRow(f) \/ SaveRefused(f)
  \/ \E r \in Clients : UnlinkSound(r) \/ DeleteRow(r) \/ DeleteRefused(r)

Next == Request \/ Step \/ Restart

Spec == Init /\ [][Next]_vars

-----------------------------------------------------------------------------
Namesakes(f) == {g \in Uploads \ {f} : OutputOf[g] = OutputOf[f]}

\* What a row points at.  Its sound is gone only if a delete of that row, or of
\* a row of the same name, unlinked it; and as long as its own delete has not
\* come so far and no upload of the same name was converted, the file holds its
\* own recording and nothing else, whatever conversion, delete or query failed
\* and wherever the process ended.
RowHasSound ==
  \A f \in ivrFiles :
    /\ sound[OutputOf[f]] = {} => \E g \in unlinked : OutputOf[g] = OutputOf[f]
    /\ f \notin unlinked /\ (\A g \in Namesakes(f) : upload[g] \in {"unused", "converting"})
         => sound[OutputOf[f]] = {f}

====
