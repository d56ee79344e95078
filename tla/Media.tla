-------------------------------- MODULE Media --------------------------------
(***************************************************************************)
(* Pictures and recordings: files that go through the core, recordings a   *)
(* browser puts into the object storage itself, and the script that moves  *)
(* old files there.                                                        *)
(*                                                                         *)
(* A file is known by its row.  Every replica keeps the rows it has looked *)
(* up for a while, and that there was none.  Files without a row are on    *)
(* the disk the replicas share.  With MEDIA_STORAGE off only the disk is   *)
(* used: the switch is how the operator goes back.                         *)
(*                                                                         *)
(* The object storage is external: an object is there whole or not at all. *)
(***************************************************************************)
CONSTANTS
  Files,        \* files sent through the core
  Recordings,   \* files put by a browser
  Replicas

ASSUME MediaAssumption == Files \cap Recordings = {}

VARIABLES
  enabled,      \* MEDIA_STORAGE
  disk,         \* uploads/: "none", "part", "whole"
  object,       \* in the storage: "none", "good" or, cut off or of another kind, "bad"
  mediaRow,     \* media_object: "none", "pending", "ready"
  known,        \* what each replica remembers of the row, or "unknown"
  upload,       \* where the upload is
  completing,   \* where each replica's complete of a recording is
  moving,       \* where the script is with the file
  promised,     \* files whose sender was told they are stored
  excused       \* history: files whose copy on the disk failed or was moved unfinished

mediaVars == <<enabled, disk, object, mediaRow, known, upload, completing,
               moving, promised, excused>>

Media == Files \cup Recordings

MediaInit ==
  /\ enabled \in BOOLEAN
  /\ disk = [f \in Media |-> "none"] /\ object = [f \in Media |-> "none"]
  /\ mediaRow = [f \in Media |-> "none"]
  /\ known = [p \in Replicas |-> [f \in Media |-> "unknown"]]
  /\ upload = [f \in Media |-> "idle"]
  /\ completing = [p \in Replicas |-> [f \in Recordings |-> "idle"]]
  /\ moving = [f \in Files |-> "idle"]
  /\ promised = {} /\ excused = {}

Goes(f, from, to) == upload[f] = from /\ upload' = [upload EXCEPT ![f] = to]
Forget(p, f) == known' = [known EXCEPT ![p][f] = "unknown"]

-----------------------------------------------------------------------------
(* The row and who remembers it *)

Found(p, f) == IF known[p][f] = "unknown" THEN mediaRow[f] ELSE known[p][f]

\* Whoever asks for a file; a recording's name is not known before its row.
Find(p, f) ==
  /\ enabled /\ known[p][f] = "unknown"
  /\ f \in Recordings => mediaRow[f] # "none"
  /\ known' = [known EXCEPT ![p][f] = mediaRow[f]]
  /\ UNCHANGED <<enabled, disk, object, mediaRow, upload, completing, moving, promised, excused>>

\* A row is remembered for ten minutes, that there is none for one.
Expire(p, f) ==
  /\ known[p][f] # "unknown" /\ Forget(p, f)
  /\ UNCHANGED <<enabled, disk, object, mediaRow, upload, completing, moving, promised, excused>>

-----------------------------------------------------------------------------
(* Files through the core *)

Upload(f) ==
  /\ Goes(f, "idle", IF enabled THEN "put" ELSE "open")
  /\ UNCHANGED <<enabled, disk, object, mediaRow, known, completing, moving, promised, excused>>

PutInline(f) ==
  /\ Goes(f, "put", "insert")
  /\ object' = [object EXCEPT ![f] = "good"]
  /\ UNCHANGED <<enabled, disk, mediaRow, known, completing, moving, promised, excused>>

\* A slip: the sender is answered before the copy for the way back is written.
InsertRowAnswers(p, f) ==
  /\ Goes(f, "insert", "done")
  /\ mediaRow' = [mediaRow EXCEPT ![f] = "ready"]
  /\ Forget(p, f) /\ promised' = promised \cup {f}
  /\ UNCHANGED <<enabled, disk, object, completing, moving, excused>>

InsertRow(p, f) ==
  /\ Goes(f, "insert", "open")
  /\ mediaRow' = [mediaRow EXCEPT ![f] = "ready"] /\ Forget(p, f)
  /\ UNCHANGED <<enabled, disk, object, completing, moving, promised, excused>>

\* writeFileSync makes the file and fills it; other processes see it meanwhile.
OpenLocal(f) ==
  /\ Goes(f, "open", "write")
  /\ disk' = [disk EXCEPT ![f] = "part"]
  /\ UNCHANGED <<enabled, object, mediaRow, known, completing, moving, promised, excused>>

\* An error of the disk is logged, and the sender told the file is stored.
WriteLocal(f) ==
  /\ \/ Goes(f, "write", "done") /\ disk' = [disk EXCEPT ![f] = "whole"] /\ UNCHANGED excused
     \/ (Goes(f, "open", "done") \/ Goes(f, "write", "done"))
        /\ excused' = excused \cup {f} /\ UNCHANGED disk
  /\ promised' = promised \cup {f}
  /\ UNCHANGED <<enabled, object, mediaRow, known, completing, moving>>

\* The storage, the database or the replica fails: the sender gets an error.
UploadBreaks(f) ==
  /\ \E s \in {"put", "insert", "open", "write"} : Goes(f, s, "broken")
  /\ UNCHANGED <<enabled, disk, object, mediaRow, known, completing, moving, promised, excused>>

-----------------------------------------------------------------------------
(* Recordings: presign, the browser's PUT, complete *)

Presign(p, f) ==
  /\ enabled /\ Goes(f, "idle", "signed")
  /\ mediaRow' = [mediaRow EXCEPT ![f] = "pending"] /\ Forget(p, f)
  /\ UNCHANGED <<enabled, disk, object, completing, moving, promised, excused>>

\* What is put may not be what was declared.
BrowserPut(f) ==
  /\ Goes(f, "signed", "done")
  /\ \E c \in {"good", "bad"} : object' = [object EXCEPT ![f] = c]
  /\ UNCHANGED <<enabled, disk, mediaRow, known, completing, moving, promised, excused>>

CompleteGoes(p, f, from, to) ==
  completing[p][f] = from /\ completing' = [completing EXCEPT ![p][f] = to]

\* It may be asked before the PUT is through, again, and on two replicas.
Complete(p, f) ==
  /\ enabled /\ upload[f] \in {"signed", "done"}
  /\ CompleteGoes(p, f, "idle", IF Found(p, f) = "pending" /\ object[f] # "none" THEN "check" ELSE "idle")
  /\ promised' = IF Found(p, f) = "ready" THEN promised \cup {f} ELSE promised
  /\ Forget(p, f)
  /\ UNCHANGED <<enabled, disk, object, mediaRow, upload, moving, excused>>

\* Its size and its first bytes have to be what was declared.
CheckContent(p, f) ==
  /\ CompleteGoes(p, f, "check", CASE object[f] = "good" -> "update"
                                   [] object[f] = "bad" -> "delete"
                                   [] object[f] = "none" -> "idle")
  /\ UNCHANGED <<enabled, disk, object, mediaRow, known, upload, moving, promised, excused>>

MarkReady(p, f) ==
  /\ CompleteGoes(p, f, "update", "idle")
  /\ mediaRow' = [mediaRow EXCEPT ![f] = IF @ = "none" THEN @ ELSE "ready"]
  /\ promised' = promised \cup {f} /\ Forget(p, f)
  /\ UNCHANGED <<enabled, disk, object, upload, moving, excused>>

\* The object first, whether or not that works, then the row.
DeleteObject(p, f) ==
  /\ CompleteGoes(p, f, "delete", "deleteRow")
  /\ object' \in {object, [object EXCEPT ![f] = "none"]}
  /\ UNCHANGED <<enabled, disk, mediaRow, known, upload, moving, promised, excused>>

DeleteRow(p, f) ==
  /\ CompleteGoes(p, f, "deleteRow", "idle")
  /\ mediaRow' = [mediaRow EXCEPT ![f] = "none"]
  /\ UNCHANGED <<enabled, disk, object, known, upload, moving, promised, excused>>

CompleteBreaks(p, f) ==
  /\ \E s \in {"check", "update", "delete", "deleteRow"} : CompleteGoes(p, f, s, "idle")
  /\ UNCHANGED <<enabled, disk, object, mediaRow, known, upload, moving, promised, excused>>

-----------------------------------------------------------------------------
(* media-migrate: files on the disk without a ready row *)

MovingGoes(f, from, to) == moving[f] \in from /\ moving' = [moving EXCEPT ![f] = to]

\* The directory is listed and the size noted.
MigrateStat(f) ==
  /\ disk[f] # "none" /\ mediaRow[f] # "ready"
  /\ MovingGoes(f, {"idle"}, IF disk[f] = "whole" THEN "whole" ELSE "part")
  /\ UNCHANGED <<enabled, disk, object, mediaRow, known, upload, completing, promised, excused>>

MigrateSend(f) ==
  /\ \/ moving[f] = "whole" /\ MovingGoes(f, {"whole"}, "sent")
     \/ moving[f] = "part" /\ MovingGoes(f, {"part"}, "sentPart")
  /\ object' = [object EXCEPT ![f] = IF disk[f] = "whole" THEN "good" ELSE "bad"]
  /\ UNCHANGED <<enabled, disk, mediaRow, known, upload, completing, promised, excused>>

\* The row is written when the object has the size that was noted: what was
\* unfinished then and when it was sent may have.
MigrateInsert(f) ==
  /\ \/ MovingGoes(f, {"sent"}, "idle") /\ UNCHANGED excused
     \/ MovingGoes(f, {"sentPart"}, "idle") /\ object[f] = "bad" /\ excused' = excused \cup {f}
  /\ mediaRow' = [mediaRow EXCEPT ![f] = "ready"]
  /\ UNCHANGED <<enabled, disk, object, known, upload, completing, promised>>

\* An error is listed; the script may be stopped and run again.
MigrateBreaks(f) ==
  /\ MovingGoes(f, {"whole", "part", "sent", "sentPart"}, "idle")
  /\ UNCHANGED <<enabled, disk, object, mediaRow, known, upload, completing, promised, excused>>

-----------------------------------------------------------------------------
\* The replicas are restarted with the other setting: requests break off.
Switch ==
  /\ enabled' = ~enabled
  /\ known' = [p \in Replicas |-> [f \in Media |-> "unknown"]]
  /\ upload' = [f \in Media |-> IF upload[f] \in {"idle", "signed", "done"} THEN upload[f] ELSE "broken"]
  /\ completing' = [p \in Replicas |-> [f \in Recordings |-> "idle"]]
  /\ UNCHANGED <<disk, object, mediaRow, moving, promised, excused>>

MediaNext ==
  \/ \E f \in Files :
       \/ Upload(f) \/ PutInline(f) \/ OpenLocal(f) \/ WriteLocal(f) \/ UploadBreaks(f)
       \/ MigrateStat(f) \/ MigrateSend(f) \/ MigrateInsert(f) \/ MigrateBreaks(f)
       \/ \E p \in Replicas : InsertRow(p, f)
  \/ \E f \in Recordings :
       \/ BrowserPut(f)
       \/ \E p \in Replicas :
            \/ Presign(p, f) \/ Complete(p, f) \/ CheckContent(p, f) \/ MarkReady(p, f)
            \/ DeleteObject(p, f) \/ DeleteRow(p, f) \/ CompleteBreaks(p, f)
  \/ \E p \in Replicas, f \in Media : Find(p, f) \/ Expire(p, f)
  \/ Switch

MediaSpec == MediaInit /\ [][MediaNext]_mediaVars

-----------------------------------------------------------------------------
(* resolve, signedUrl and readBytes: what a replica hands out *)

Served(p, f) ==
  IF ~enabled \/ Found(p, f) = "none" THEN disk[f] = "whole"
  ELSE Found(p, f) = "ready" /\ object[f] = "good"

\* A file its sender was told is stored is handed out whole by every replica:
\* with the storage switched on, off and on again, whatever the replicas
\* remember, while the script moves it and after it broke off.  A recording is
\* while the storage is on, by the replicas that do not remember it as pending.
StoredIsServed ==
  \A f \in promised \ excused, p \in Replicas :
    f \in Files \/ (enabled /\ known[p][f] # "pending") => Served(p, f)
=============================================================================
