------------------------------ MODULE Attachments ------------------------------
(***************************************************************************)
(* Attachments: the record in the store, the object in the object store,   *)
(* the desktop that uploads and downloads, the handlers that verify, scan  *)
(* and complete an upload, and the worker that sweeps what has expired.    *)
(* An identifier is given out by authorize_attachment, so an upload that   *)
(* is tried again has a new one.                                           *)
(*                                                                         *)
(* The object store and the scanner are external: an object is missing,    *)
(* as announced, infected, or not what was announced (size, type or magic  *)
(* bytes).  The scanner learns of an infection at some time.               *)
(***************************************************************************)
EXTENDS Naturals, FiniteSets

CONSTANTS
    Users,
    Files,         \* attachment identifiers
    Images,        \* those of kind Image
    Handlers,      \* complete_upload requests being served
    MaxStickers,   \* stickers of a user, 100 in the code
    None

ASSUME FilesAssumption == Images \subseteq Files /\ None \notin Files \cup Users

VARIABLES
    row,        \* row[a]: state of the PendingAttachment
    owner,      \* owner[a]: who was authorised
    due,        \* attachments whose expires_at has passed
    object,     \* object[a]: what the object store holds
    puts,       \* uploads whose address (presign_put) can still be used
    replaced,   \* objects put again after they were there (history)
    handler,    \* handler[h]: a complete_upload request
    sweep,      \* keys the worker still has to delete
    escaped,    \* objects the worker will not find again (history)
    scanning,   \* a scanner is configured
    known,      \* the scanner knows the infection
    members,    \* members of the conversation
    posted,     \* attachments of its messages
    avatar,     \* avatar[u]: avatar_attachment_id
    stickers,   \* attachments kept as stickers
    transfer    \* transfer[u]: the transfer of u's window, if busy

recordVars == <<row, owner, due>>
storeVars == <<object, puts, replaced>>
serverVars == <<handler, sweep, escaped, scanning, known>>
useVars == <<members, posted, avatar, stickers>>
vars == <<recordVars, storeVars, serverVars, useVars, transfer>>

Stored == {"Clean", "Infected"}
Idle == [at |-> "Idle", file |-> None]

Referenced == posted \cup stickers \cup ({avatar[u] : u \in Users} \ {None})

TypeOK ==
    /\ row \in [Files -> {"Unused", "Pending", "Available", "Quarantined", "Gone"}]
    /\ owner \in [Files -> Users \cup {None}]
    /\ \A a \in Files : row[a] = "Unused" <=> owner[a] = None
    /\ due \subseteq Files
    /\ object \in [Files -> Stored \cup {"Missing", "Mismatch"}]
    /\ puts \subseteq Files /\ replaced \subseteq Files
    /\ handler \in [Handlers -> [at : {"Idle", "Verify", "Scan", "Quarantine", "Finish"},
                                 file : Files \cup {None}]]
    /\ sweep \subseteq {a \in Files : row[a] = "Gone"}
    /\ escaped \subseteq Files
    /\ scanning \in BOOLEAN /\ known \in BOOLEAN
    /\ members \subseteq Users
    /\ posted \subseteq Files /\ stickers \subseteq Images
    /\ avatar \in [Users -> Images \cup {None}]
    /\ transfer \in [Users -> [at : {"Idle", "Put", "Complete", "Send", "Get"},
                               file : Files \cup {None}]]

Init ==
    /\ row = [a \in Files |-> "Unused"]
    /\ owner = [a \in Files |-> None]
    /\ due = {}
    /\ object = [a \in Files |-> "Missing"]
    /\ puts = {} /\ replaced = {}
    /\ handler = [h \in Handlers |-> Idle]
    /\ sweep = {} /\ escaped = {}
    /\ scanning \in BOOLEAN /\ known \in BOOLEAN
    /\ members = Users
    /\ posted = {} /\ stickers = {}
    /\ avatar = [u \in Users |-> None]
    /\ transfer = [u \in Users |-> Idle]

(***************************************************************************)
(* The desktop.  transfer_busy lets a window do one transfer at a time.    *)
(***************************************************************************)
Move(u, at, a) == transfer' = [transfer EXCEPT ![u] = [at |-> at, file |-> a]]
Free(u) == transfer' = [transfer EXCEPT ![u] = Idle]

\* The row and the address of the upload; the client sends the file at once.
\* A file that fails validate_attachment_metadata gets neither.
AuthorizeUpload(u, a) ==
    /\ transfer[u] = Idle
    /\ row[a] = "Unused"
    /\ row' = [row EXCEPT ![a] = "Pending"]
    /\ owner' = [owner EXCEPT ![a] = u]
    /\ puts' = puts \cup {a}
    /\ Move(u, "Put", a)
    /\ UNCHANGED <<due, object, replaced, serverVars, useVars>>

\* The file arrives, however late, or another one for the same address: it can be put again as long
\* as the address is valid, after the object was verified, scanned or even completed.
PutArrives(a, content) ==
    /\ a \in puts
    /\ object' = [object EXCEPT ![a] = content]
    /\ replaced' = IF object[a] = "Missing" THEN replaced ELSE replaced \cup {a}
    /\ escaped' = IF row[a] = "Gone" THEN escaped \cup {a} ELSE escaped
    /\ UNCHANGED <<recordVars, puts, handler, sweep, scanning, known, useVars, transfer>>

\* Nothing more arrives: the file is lost, or the address has expired.
PutsEnd(a) ==
    /\ a \in puts
    /\ puts' = puts \ {a}
    /\ UNCHANGED <<recordVars, object, replaced, serverVars, useVars, transfer>>

\* upload_file goes on after a successful answer of the object store.
PutDone(u) ==
    /\ transfer[u].at = "Put"
    /\ object[transfer[u].file] # "Missing"
    /\ Move(u, "Complete", transfer[u].file)
    /\ UNCHANGED <<recordVars, storeVars, serverVars, useVars>>

\* upload_attachment_and_send: the message goes out once the upload is complete.
SendAttachment(u) ==
    /\ transfer[u].at = "Send"
    /\ Free(u)
    /\ LET a == transfer[u].file
       IN  posted' = IF u \in members /\ owner[a] = u /\ row[a] = "Available"
                     THEN posted \cup {a} ELSE posted
    /\ UNCHANGED <<recordVars, storeVars, serverVars, members, avatar, stickers>>

\* Any request fails, is refused or times out, or the window closes.
TransferFails(u) ==
    /\ transfer[u] # Idle
    /\ Free(u)
    /\ UNCHANGED <<recordVars, storeVars, serverVars, useVars>>

\* attachment_for_download.
MayDownload(u, a) ==
    /\ row[a] = "Available"
    /\ \/ owner[a] = u
       \/ \E v \in Users : avatar[v] = a
       \/ a \in posted /\ u \in members

StartDownload(u, a) ==
    /\ transfer[u] = Idle
    /\ MayDownload(u, a)
    /\ Move(u, "Get", a)
    /\ UNCHANGED <<recordVars, storeVars, serverVars, useVars>>

\* The file is kept if its length and hash are those of the record.
DownloadDone(u) ==
    /\ transfer[u].at = "Get"
    /\ object[transfer[u].file] \in Stored
    /\ Free(u)
    /\ UNCHANGED <<recordVars, storeVars, serverVars, useVars>>

(***************************************************************************)
(* complete_upload.  Between its steps the store is free; the time of the  *)
(* request is read once, so it is judged by the expiry at its start.       *)
(***************************************************************************)
Step(h, at) ==
    handler' = [handler EXCEPT ![h] = IF at = "Idle" THEN Idle ELSE [@ EXCEPT !.at = at]]

\* pending_attachment; the desktop asks once, another client may ask again.
BeginComplete(h, a) ==
    /\ handler[h] = Idle
    /\ row[a] \in {"Pending", "Available"} /\ a \notin due
    /\ handler' = [handler EXCEPT ![h] = [at |-> "Verify", file |-> a]]
    /\ UNCHANGED <<recordVars, storeVars, sweep, escaped, scanning, known, useVars, transfer>>

VerifyObject(h) ==
    /\ handler[h].at = "Verify"
    /\ Step(h, IF object[handler[h].file] \notin Stored THEN "Idle"
               ELSE IF scanning THEN "Scan" ELSE "Finish")
    /\ UNCHANGED <<recordVars, storeVars, sweep, escaped, scanning, known, useVars, transfer>>

ScanObject(h) ==
    /\ handler[h].at = "Scan"
    /\ Step(h, CASE object[handler[h].file] = "Missing" -> "Idle"
                 [] object[handler[h].file] = "Infected" /\ known -> "Quarantine"
                 [] OTHER -> "Finish")
    /\ UNCHANGED <<recordVars, storeVars, sweep, escaped, scanning, known, useVars, transfer>>

\* Object store or scanner do not answer.
CompleteFails(h) ==
    /\ handler[h].at \in {"Verify", "Scan"}
    /\ Step(h, "Idle")
    /\ UNCHANGED <<recordVars, storeVars, sweep, escaped, scanning, known, useVars, transfer>>

\* quarantine_attachment keeps the record for another week.
QuarantineAttachment(h) ==
    LET a == handler[h].file
    IN  /\ handler[h].at = "Quarantine"
        /\ Step(h, "Idle")
        /\ IF row[a] \in {"Pending", "Quarantined"}
           THEN row' = [row EXCEPT ![a] = "Quarantined"] /\ due' = due \ {a}
           ELSE UNCHANGED <<row, due>>
        /\ UNCHANGED <<owner, storeVars, sweep, escaped, scanning, known, useVars, transfer>>

\* Mutant of MayComplete: a quarantined attachment may be completed.
MayCompleteAny(a) == row[a] \in {"Pending", "Available", "Quarantined"}

MayComplete(a) == row[a] \in {"Pending", "Available"}

\* complete_attachment, and its answer to a client that still waits.
CompleteAttachment(h) ==
    LET a == handler[h].file
    IN  /\ handler[h].at = "Finish"
        /\ Step(h, "Idle")
        /\ IF MayComplete(a)
           THEN /\ row' = [row EXCEPT ![a] = "Available"]
                /\ transfer' = [u \in Users |->
                     IF transfer[u] = [at |-> "Complete", file |-> a]
                     THEN [at |-> "Send", file |-> a] ELSE transfer[u]]
           ELSE UNCHANGED <<row, transfer>>
        /\ UNCHANGED <<owner, due, storeVars, sweep, escaped, scanning, known, useVars>>

(***************************************************************************)
(* spawn_attachment_cleanup_worker: the records go first, then the objects *)
(* one by one; an object that cannot be deleted is not tried again.        *)
(***************************************************************************)
Expired == {a \in due : row[a] \in {"Pending", "Quarantined"}}

\* Mutant of Swept: a completed upload is swept too.
SweptAll == {a \in due : row[a] \in {"Pending", "Quarantined", "Available"}}

\* Mutant of Swept: a quarantined upload is kept for good.
SweptPending == {a \in due : row[a] = "Pending"}

\* cleanup_expired_attachments.
Swept == Expired

\* Mutant of SweepRecords: the keys of the objects are not handed over.
SweepRecordsOnly ==
    /\ sweep = {}
    /\ Swept # {}
    /\ row' = [a \in Files |-> IF a \in Swept THEN "Gone" ELSE row[a]]
    /\ UNCHANGED <<owner, due, storeVars, handler, sweep, escaped, scanning, known, useVars, transfer>>

SweepRecords ==
    /\ sweep = {}
    /\ Swept # {}
    /\ row' = [a \in Files |-> IF a \in Swept THEN "Gone" ELSE row[a]]
    /\ sweep' = Swept
    /\ UNCHANGED <<owner, due, storeVars, handler, escaped, scanning, known, useVars, transfer>>

SweepObject(a, deleted) ==
    /\ a \in sweep
    /\ sweep' = sweep \ {a}
    /\ object' = IF deleted THEN [object EXCEPT ![a] = "Missing"] ELSE object
    /\ escaped' = IF deleted THEN escaped ELSE escaped \cup {a}
    /\ UNCHANGED <<recordVars, puts, replaced, handler, scanning, known, useVars, transfer>>

(***************************************************************************)
(* The rest of the server.                                                 *)
(***************************************************************************)
\* update_profile takes an available image of the user, or none.
SetAvatar(u, a) ==
    /\ avatar[u] # a
    /\ a # None => a \in Images /\ owner[a] = u /\ row[a] = "Available"
    /\ avatar' = [avatar EXCEPT ![u] = a]
    /\ UNCHANGED <<recordVars, storeVars, serverVars, members, posted, stickers, transfer>>

CreateSticker(u, a) ==
    /\ a \in Images \ stickers /\ owner[a] = u /\ row[a] = "Available"
    /\ Cardinality({s \in stickers : owner[s] = u}) < MaxStickers
    /\ stickers' = stickers \cup {a}
    /\ UNCHANGED <<recordVars, storeVars, serverVars, members, posted, avatar, transfer>>

DeleteSticker(u, a) ==
    /\ a \in stickers /\ owner[a] = u
    /\ stickers' = stickers \ {a}
    /\ UNCHANGED <<recordVars, storeVars, serverVars, members, posted, avatar, transfer>>

\* recall_message takes the attachment out of the message.
RecallAttachment(a) ==
    /\ a \in posted
    /\ posted' = posted \ {a}
    /\ UNCHANGED <<recordVars, storeVars, serverVars, members, avatar, stickers, transfer>>

\* delete_account_in_store: records, objects and messages stay.
DeleteOwner(u) ==
    /\ u \in members
    /\ members' = members \ {u}
    /\ avatar' = [avatar EXCEPT ![u] = None]
    /\ stickers' = {s \in stickers : owner[s] # u}
    /\ UNCHANGED <<recordVars, storeVars, serverVars, posted, transfer>>

\* expires_at passes, of a completed attachment too.
Expire(a) ==
    /\ row[a] \in {"Pending", "Quarantined", "Available"} /\ a \notin due
    /\ due' = due \cup {a}
    /\ UNCHANGED <<row, owner, storeVars, serverVars, useVars, transfer>>

LearnSignature ==
    /\ ~known
    /\ known' = TRUE
    /\ UNCHANGED <<recordVars, storeVars, handler, sweep, escaped, scanning, useVars, transfer>>

\* The server restarts: requests end, the keys still to delete are forgotten.
Crash ==
    /\ sweep # {} \/ \E h \in Handlers : handler[h] # Idle
    /\ handler' = [h \in Handlers |-> Idle]
    /\ sweep' = {}
    /\ escaped' = escaped \cup sweep
    /\ UNCHANGED <<recordVars, storeVars, scanning, known, useVars, transfer>>

Desktop(u) ==
    \/ PutDone(u)
    \/ SendAttachment(u)
    \/ DownloadDone(u)
    \/ TransferFails(u)

Complete(h) ==
    \/ VerifyObject(h)
    \/ ScanObject(h)
    \/ CompleteFails(h)
    \/ QuarantineAttachment(h)
    \/ CompleteAttachment(h)

Worker ==
    \/ SweepRecords
    \/ \E a \in Files, deleted \in BOOLEAN : SweepObject(a, deleted)

Next ==
    \/ \E u \in Users : Desktop(u)
    \/ \E u \in Users, a \in Files :
         \/ AuthorizeUpload(u, a)
         \/ StartDownload(u, a)
         \/ CreateSticker(u, a)
         \/ DeleteSticker(u, a)
    \/ \E u \in Users, a \in Files \cup {None} : SetAvatar(u, a)
    \/ \E u \in Users : DeleteOwner(u)
    \/ \E a \in Files :
         \/ \E content \in Stored \cup {"Mismatch"} : PutArrives(a, content)
         \/ PutsEnd(a)
         \/ RecallAttachment(a)
         \/ Expire(a)
         \/ \E h \in Handlers : BeginComplete(h, a)
    \/ \E h \in Handlers : Complete(h)
    \/ Worker
    \/ LearnSignature
    \/ Crash

Spec == Init /\ [][Next]_vars

\* Tasks that can run do run, every request of a client ends, time passes.
Fairness ==
    /\ WF_vars(Worker)
    /\ \A a \in Files : WF_vars(Expire(a))
    /\ \A u \in Users : WF_vars(Desktop(u))
    /\ \A h \in Handlers : WF_vars(Complete(h))

FairSpec == Spec /\ Fairness

(***************************************************************************)
(* Properties.                                                             *)
(***************************************************************************)
\* What a message, an avatar or a sticker refers to, and what a client has been allowed to download,
\* is available and its object is there: no sweep, late completion or crash takes it away.  It is what
\* was verified, unless the client has used the address of its upload once more.
ReferencedIsStored ==
    \A a \in Referenced \cup {transfer[u].file : u \in {v \in Users : transfer[v].at = "Get"}} :
        /\ row[a] = "Available" /\ object[a] # "Missing"
        /\ object[a] \in Stored \/ a \in replaced

\* A quarantined attachment is never completed, not by a request that has
\* scanned it before its infection was known.
QuarantineIsFinal ==
    [][\A a \in Files : row[a] = "Quarantined" => row[a]' \in {"Quarantined", "Gone"}]_vars

\* An object without a record is one that the worker is about to delete, one
\* whose deletion failed or was cut off by a restart, or one that arrived
\* after its record was swept.
OrphansOnlyIf ==
    \A a \in Files : object[a] # "Missing" =>
        \/ row[a] \in {"Pending", "Available", "Quarantined"}
        \/ a \in sweep \cup escaped

\* docs/DATA_RETENTION.md:8, the worker deletes record and object of an
\* unfinished upload.  It does not try again when the object store fails.
SweepIsComplete ==
    \A a \in Files : row[a] = "Gone" ~> object[a] = "Missing"

\* An upload that is not completed loses its record in the end, the
\* quarantined one after its second term.
UploadsSettle ==
    \A a \in Files : row[a] \in {"Pending", "Quarantined"} ~> row[a] \in {"Available", "Gone"}
================================================================================
