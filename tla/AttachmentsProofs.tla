---------------------------- MODULE AttachmentsProofs --------------------------
(***************************************************************************)
(* Theorems about Attachments, for any users, files and handlers.          *)
(*                                                                         *)
(* ReferencedIsStored is not inductive: a handler at Finish completes an   *)
(* attachment whose object it has seen some steps ago.  CheckedInv says    *)
(* why the object is still there: only the object of a record that is gone *)
(* is deleted, and what takes its place has been put again.                *)
(***************************************************************************)
EXTENDS Attachments, TLAPS

\* What is put was authorised.
PutsInv == \A a \in Files : row[a] = "Unused" => a \notin puts /\ object[a] = "Missing"

\* The object is there, and it is the one that was verified or was put again.
There(a) == object[a] # "Missing" /\ (object[a] \in Stored \/ a \in replaced)

\* The object a handler has verified stays as long as its record.
CheckedInv ==
    \A h \in Handlers :
        /\ handler[h].at # "Idle" => handler[h].file \in Files
        /\ handler[h].at \in {"Scan", "Quarantine", "Finish"} =>
              row[handler[h].file] = "Gone" \/ There(handler[h].file)

\* Being available is for good, and what is available is stored.
AvailableInv ==
    /\ \A a \in Files : row[a] = "Available" => There(a)
    /\ \A a \in Referenced : row[a] = "Available"
    /\ \A u \in Users :
         /\ transfer[u].at # "Idle" => transfer[u].file \in Files
         /\ transfer[u].at = "Get" => row[transfer[u].file] = "Available"

IInv == TypeOK /\ PutsInv /\ CheckedInv /\ AvailableInv /\ OrphansOnlyIf

LEMMA InitIInv == Init => IInv
  BY FilesAssumption
  DEF Init, IInv, TypeOK, PutsInv, CheckedInv, AvailableInv, OrphansOnlyIf, Referenced, Stored, Idle, There

\* The steps a record may take.
RowSteps ==
    \A a \in Files :
        \/ row'[a] = row[a]
        \/ row[a] = "Unused" /\ row'[a] = "Pending"
        \/ row[a] \in {"Pending", "Quarantined"} /\ row'[a] \in {"Quarantined", "Gone"}
        \/ row[a] = "Pending" /\ row'[a] = "Available"

\* The windows: uploads, downloads, messages, stickers and avatars.
LEMMA DesktopKeepsIInv ==
  ASSUME IInv, NEW u \in Users,
         \/ Desktop(u) \/ DeleteOwner(u)
         \/ \E a \in Files : AuthorizeUpload(u, a) \/ StartDownload(u, a) \/ CreateSticker(u, a) \/ DeleteSticker(u, a)
         \/ \E a \in Files \cup {None} : SetAvatar(u, a)
  PROVE  IInv' /\ RowSteps
<1> USE FilesAssumption
    DEF IInv, TypeOK, PutsInv, CheckedInv, AvailableInv, OrphansOnlyIf, RowSteps, Referenced, Stored, Idle, There, storeVars,
        Move, Free, recordVars, serverVars, useVars
<1>1. CASE PutDone(u)
  BY <1>1 DEF PutDone
<1>2. CASE SendAttachment(u)
  BY <1>2 DEF SendAttachment
<1>3. CASE DownloadDone(u)
  BY <1>3 DEF DownloadDone
<1>4. CASE TransferFails(u)
  BY <1>4 DEF TransferFails
<1>5. CASE DeleteOwner(u)
  BY <1>5 DEF DeleteOwner
<1>6. ASSUME NEW a \in Files, AuthorizeUpload(u, a)
      PROVE  IInv' /\ RowSteps
  BY <1>6 DEF AuthorizeUpload
<1>7. ASSUME NEW a \in Files, StartDownload(u, a)
      PROVE  IInv' /\ RowSteps
  BY <1>7 DEF StartDownload, MayDownload
<1>8. ASSUME NEW a \in Files, CreateSticker(u, a) \/ DeleteSticker(u, a)
      PROVE  IInv' /\ RowSteps
  BY <1>8 DEF CreateSticker, DeleteSticker
<1>9. ASSUME NEW a \in Files \cup {None}, SetAvatar(u, a)
      PROVE  IInv' /\ RowSteps
  BY <1>9 DEF SetAvatar
<1>10. QED
  BY <1>1, <1>2, <1>3, <1>4, <1>5, <1>6, <1>7, <1>8, <1>9 DEF Desktop

\* The steps of complete_upload.
LEMMA CompleteKeepsIInv ==
  ASSUME IInv, NEW h \in Handlers,
         Complete(h) \/ \E a \in Files : BeginComplete(h, a)
  PROVE  IInv' /\ RowSteps
<1> USE FilesAssumption
    DEF IInv, TypeOK, PutsInv, CheckedInv, AvailableInv, OrphansOnlyIf, RowSteps, Referenced, Stored, Idle, There, storeVars,
        Step, recordVars, serverVars, useVars
<1>1. CASE VerifyObject(h)
  BY <1>1 DEF VerifyObject
<1>2. CASE ScanObject(h)
  BY <1>2 DEF ScanObject
<1>3. CASE CompleteFails(h)
  BY <1>3 DEF CompleteFails
<1>4. CASE QuarantineAttachment(h)
  BY <1>4 DEF QuarantineAttachment
<1>5. CASE CompleteAttachment(h)
  <2> DEFINE a == handler[h].file
  <2>1. a \in Files /\ (row[a] = "Gone" \/ There(a))
    BY <1>5 DEF CompleteAttachment
  <2>2. handler' = [handler EXCEPT ![h] = Idle] /\ UNCHANGED <<owner, due, storeVars, sweep, escaped, scanning, known, useVars>>
    BY <1>5 DEF CompleteAttachment
  <2>3. CASE MayComplete(a)
    <3>1. row' = [row EXCEPT ![a] = "Available"] /\ row[a] \in {"Pending", "Available"} /\ There(a)
      BY <1>5, <2>1, <2>3 DEF CompleteAttachment, MayComplete
    <3>2. /\ transfer' \in [Users -> [at : {"Idle", "Put", "Complete", "Send", "Get"}, file : Files \cup {None}]]
          /\ \A u \in Users : transfer'[u] = transfer[u] \/ transfer'[u] = [at |-> "Send", file |-> a]
      BY <1>5, <2>1, <2>3 DEF CompleteAttachment
    <3>3. QED
      BY <2>1, <2>2, <3>1, <3>2
  <2>4. CASE ~MayComplete(a)
    BY <1>5, <2>4 DEF CompleteAttachment
  <2>5. QED
    BY <2>3, <2>4
<1>6. ASSUME NEW a \in Files, BeginComplete(h, a)
      PROVE  IInv' /\ RowSteps
  BY <1>6 DEF BeginComplete
<1>7. QED
  BY <1>1, <1>2, <1>3, <1>4, <1>5, <1>6 DEF Complete

\* What arrives or is lost, the worker, the passing of time, a restart.
LEMMA FilesKeepIInv ==
  ASSUME IInv,
         \/ \E a \in Files : \/ \E content \in Stored \cup {"Mismatch"} : PutArrives(a, content)
                             \/ PutsEnd(a) \/ RecallAttachment(a) \/ Expire(a)
         \/ Worker \/ LearnSignature \/ Crash
  PROVE  IInv' /\ RowSteps
<1> USE FilesAssumption
    DEF IInv, TypeOK, PutsInv, CheckedInv, AvailableInv, OrphansOnlyIf, RowSteps, Referenced, Stored, Idle, There, storeVars,
        recordVars, serverVars, useVars
<1>1. ASSUME NEW a \in Files, NEW content \in Stored \cup {"Mismatch"}, PutArrives(a, content)
      PROVE  IInv' /\ RowSteps
  BY <1>1 DEF PutArrives
<1>2. ASSUME NEW a \in Files, PutsEnd(a) \/ RecallAttachment(a) \/ Expire(a)
      PROVE  IInv' /\ RowSteps
  BY <1>2 DEF PutsEnd, RecallAttachment, Expire
<1>3. CASE SweepRecords
  BY <1>3 DEF SweepRecords, Swept, Expired
<1>4. ASSUME NEW a \in Files, NEW deleted \in BOOLEAN, SweepObject(a, deleted)
      PROVE  IInv' /\ RowSteps
  BY <1>4 DEF SweepObject
<1>5. CASE LearnSignature
  BY <1>5 DEF LearnSignature
<1>6. CASE Crash
  BY <1>6 DEF Crash
<1>7. QED
  BY <1>1, <1>2, <1>3, <1>4, <1>5, <1>6 DEF Worker

LEMMA StepKeepsIInv == IInv /\ [Next]_vars => IInv' /\ RowSteps
<1> SUFFICES ASSUME IInv, [Next]_vars
             PROVE  IInv' /\ RowSteps
  OBVIOUS
<1>1. CASE UNCHANGED vars
  BY <1>1 DEF vars, recordVars, serverVars, useVars, IInv, TypeOK, PutsInv, CheckedInv, AvailableInv,
     OrphansOnlyIf, RowSteps, Referenced, There, storeVars
<1>2. CASE Next
  BY <1>2, DesktopKeepsIInv, CompleteKeepsIInv, FilesKeepIInv DEF Next
<1>3. QED
  BY <1>1, <1>2

LEMMA Inductive == Spec => []IInv
  BY InitIInv, StepKeepsIInv, PTL DEF Spec

(***************************************************************************)
(* The theorems.                                                           *)
(***************************************************************************)
\* Every variable of Attachments keeps its type; the worker deletes objects
\* of records only that it has removed.
THEOREM TypeCorrect == Spec => []TypeOK
<1>1. IInv => TypeOK
  BY DEF IInv
<1>2. QED
  BY <1>1, Inductive, PTL

\* What messages, avatars and stickers refer to, and what a download was
\* allowed for, is available and stored, as verified unless it was put again:
\* complete_upload may finish long after it has seen the object, the worker
\* may sweep in between.
THEOREM ReferencedHolds == Spec => []ReferencedIsStored
<1>1. IInv => ReferencedIsStored
  <2> SUFFICES ASSUME IInv,
                      NEW a \in Referenced \cup {transfer[u].file : u \in {v \in Users : transfer[v].at = "Get"}}
               PROVE  row[a] = "Available" /\ There(a)
    BY DEF ReferencedIsStored, There
  <2>1. a \in Files
    BY FilesAssumption DEF IInv, TypeOK, AvailableInv, Referenced
  <2>2. row[a] = "Available"
    BY DEF IInv, AvailableInv
  <2>3. QED
    BY <2>1, <2>2 DEF IInv, AvailableInv
<1>2. QED
  BY <1>1, Inductive, PTL

\* An object without a record is on the worker's list, or one of the objects
\* that cleanup_expired_attachments is known to leave behind.
THEOREM OrphansHold == Spec => []OrphansOnlyIf
<1>1. IInv => OrphansOnlyIf
  BY DEF IInv
<1>2. QED
  BY <1>1, Inductive, PTL

\* complete_attachment never completes what quarantine_attachment has taken,
\* whatever requests were under way.
THEOREM QuarantineHolds == Spec => QuarantineIsFinal
<1>1. IInv /\ [Next]_vars =>
        [\A a \in Files : row[a] = "Quarantined" => row[a]' \in {"Quarantined", "Gone"}]_vars
  BY StepKeepsIInv DEF RowSteps
<1>2. QED
  BY <1>1, Inductive, PTL DEF Spec, QuarantineIsFinal
================================================================================
