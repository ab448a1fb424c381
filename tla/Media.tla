------------------------------- MODULE Media -------------------------------
(***************************************************************************)
(* Pictures and videos: the gallery, trainee photos and academy logos      *)
(* (backend/src/gallery, uploads, storage).                                *)
(*                                                                         *)
(* A file is stored before its row is inserted and deleted after its row   *)
(* was removed.  An insert that is answered with an error deletes the      *)
(* file; errors of deleting are swallowed.  Nothing undoes either half     *)
(* after a crash.  Photos and logos are uploaded by a request of their own *)
(* and never deleted; the form that names them is saved later, or not.     *)
(*                                                                         *)
(* S3 and the local directory differ in how they store and read only, not  *)
(* in what is there; keys are random.  Left out: titles, media types and   *)
(* their limits, which only refuse an upload, and academies.               *)
(***************************************************************************)
EXTENDS Integers

CONSTANTS
    Items,      \* identifiers of gallery_items rows and of their files
    Editors,    \* requests that may run at the same time
    Holders,    \* trainees and academies that have a picture
    Pictures,   \* files of the uploads endpoints
    MaxSize     \* bound: sizes of files, and bytes a range may name

ASSUME MediaAssumption == MaxSize \in Nat

VARIABLES
    item,       \* the gallery_items rows
    stored,     \* gallery files in the store
    size,       \* of each gallery file
    picture,    \* photo_url or logo_url of each holder
    uploaded,   \* files of the uploads endpoints in the store
    editor,     \* where each request stands
    reply,      \* what the gallery last served
    unsure      \* history: files of requests that were cut off or could not clean up

mediaVars == <<item, stored, size, picture, uploaded, editor, reply, unsure>>

Size == 0..MaxSize
NoPicture == "none"
NoEditor == [step |-> "idle"]
Editor ==
    {NoEditor} \cup [step : {"save", "undo", "delete", "unlink", "send"}, item : Items]

NoReply == [code |-> "none", from |-> 0, to |-> 0, size |-> 0]
Reply == [code : {"none", "whole", "part", "refused"}, from : Size, to : Int, size : Size]

MediaInit ==
    /\ item = [i \in Items |-> "none"]
    /\ stored = {}
    /\ size = [i \in Items |-> 0]
    /\ picture = [h \in Holders |-> NoPicture]
    /\ uploaded = {}
    /\ editor = [q \in Editors |-> NoEditor]
    /\ reply = NoReply
    /\ unsure = {}

Busy(i, steps) == \E q \in Editors : editor[q].step \in steps /\ editor[q].item = i

Goes(q, step, i) == editor' = [editor EXCEPT ![q] = [step |-> step, item |-> i]]
Stops(q) == editor' = [editor EXCEPT ![q] = NoEditor]

-----------------------------------------------------------------------------
(* create: uploadBuffer or writeFileSync *)
StoreFile(q, i, bytes) ==
    /\ editor[q].step = "idle"
    /\ item[i] = "none" /\ i \notin stored \cup unsure /\ ~Busy(i, {"save", "undo"})
    /\ stored' = stored \cup {i}
    /\ size' = [size EXCEPT ![i] = bytes]
    /\ Goes(q, "save", i)
    /\ UNCHANGED <<item, picture, uploaded, reply, unsure>>

(* create: save *)
SaveItem(q) ==
    LET i == editor[q].item
    IN  /\ editor[q].step = "save"
        /\ item' = [item EXCEPT ![i] = "live"]
        /\ Stops(q)
        /\ UNCHANGED <<stored, size, picture, uploaded, reply, unsure>>

(* save is answered with an error, and the row is not there ... *)
SaveFails(q) ==
    /\ editor[q].step = "save"
    /\ Goes(q, "undo", editor[q].item)
    /\ UNCHANGED <<item, stored, size, picture, uploaded, reply, unsure>>

(* ... or is: the connection broke after the commit. *)
SaveAnswerLost(q) ==
    LET i == editor[q].item
    IN  /\ editor[q].step = "save"
        /\ item' = [item EXCEPT ![i] = "live"]
        /\ unsure' = unsure \cup {i}
        /\ Goes(q, "undo", i)
        /\ UNCHANGED <<stored, size, picture, uploaded, reply>>

(* Slip: an insert that fails leaves the file. *)
ForgetFile(q) ==
    /\ editor[q].step \in {"undo", "unlink"}
    /\ Stops(q)
    /\ UNCHANGED <<item, stored, size, picture, uploaded, reply, unsure>>

(* deleteStoredFile, after a failed save or in remove *)
DeleteStoredFile(q) ==
    /\ editor[q].step \in {"undo", "unlink"}
    /\ stored' = stored \ {editor[q].item}
    /\ Stops(q)
    /\ UNCHANGED <<item, size, picture, uploaded, reply, unsure>>

(* deleteStoredFile: the store refuses, which is swallowed. *)
DeleteFails(q) ==
    /\ editor[q].step \in {"undo", "unlink"}
    /\ unsure' = unsure \cup {editor[q].item}
    /\ Stops(q)
    /\ UNCHANGED <<item, stored, size, picture, uploaded, reply>>

(* remove: the row is found ... *)
FindItem(q, i, step) ==
    /\ editor[q].step = "idle"
    /\ item[i] = "live"
    /\ Goes(q, step, i)
    /\ UNCHANGED <<item, stored, size, picture, uploaded, reply, unsure>>

(* ... softDelete ... and then the file goes (DeleteStoredFile). *)
RemoveItem(q) ==
    LET i == editor[q].item
    IN  /\ editor[q].step = "delete"
        /\ item' = [item EXCEPT ![i] = "removed"]
        /\ Goes(q, "unlink", i)
        /\ UNCHANGED <<stored, size, picture, uploaded, reply, unsure>>

(* The server stops. *)
MediaCrash(q) ==
    /\ editor[q].step # "idle"
    /\ unsure' = IF editor[q].step \in {"save", "undo", "unlink"}
                 THEN unsure \cup {editor[q].item} ELSE unsure
    /\ Stops(q)
    /\ UNCHANGED <<item, stored, size, picture, uploaded, reply>>

-----------------------------------------------------------------------------
Least(a, b) == IF a <= b THEN a ELSE b

(* Slip: the end asked for is taken as it is. *)
PartAsAsked(from, to, bytes) ==
    LET end == IF to = -1 THEN bytes - 1 ELSE to
    IN  IF from = -1 \/ from > end \/ from >= bytes
        THEN [code |-> "refused", from |-> 0, to |-> 0, size |-> bytes]
        ELSE [code |-> "part", from |-> from, to |-> end, size |-> bytes]

(* A Range header: from a byte to another or, when it names none (-1), to  *)
(* the end.  The end asked for is cut to the file's; a range without a     *)
(* first byte is refused.                                                  *)
Part(from, to, bytes) ==
    LET end == Least(IF to = -1 THEN bytes - 1 ELSE to, bytes - 1)
    IN  IF from = -1 \/ from > end \/ from >= bytes
        THEN [code |-> "refused", from |-> 0, to |-> 0, size |-> bytes]
        ELSE [code |-> "part", from |-> from, to |-> end, size |-> bytes]

(* streamFile: the file of the row found is served, wholly or in part.  A  *)
(* file that was deleted meanwhile is an error (MediaCrash).               *)
StreamFile(q, from, to) ==
    LET i == editor[q].item
    IN  /\ editor[q].step = "send"
        /\ i \in stored
        /\ reply' = Part(from, to, size[i])
        /\ Stops(q)
        /\ UNCHANGED <<item, stored, size, picture, uploaded, unsure>>

StreamWhole(q) ==
    LET i == editor[q].item
    IN  /\ editor[q].step = "send"
        /\ i \in stored
        /\ reply' = [code |-> "whole", from |-> 0, to |-> size[i] - 1, size |-> size[i]]
        /\ Stops(q)
        /\ UNCHANGED <<item, stored, size, picture, uploaded, unsure>>

-----------------------------------------------------------------------------
(* uploadTraineePhoto, uploadAcademyLogo *)
UploadPicture(p) ==
    /\ p \notin uploaded
    /\ uploaded' = uploaded \cup {p}
    /\ UNCHANGED <<item, stored, size, picture, editor, reply, unsure>>

(* The form is saved with the url the upload returned.  The old file stays. *)
NamePicture(h, p) ==
    /\ p \in uploaded
    /\ picture' = [picture EXCEPT ![h] = p]
    /\ UNCHANGED <<item, stored, size, uploaded, editor, reply, unsure>>

MediaNext ==
    \/ \E q \in Editors :
        \/ \E i \in Items, bytes \in Size : StoreFile(q, i, bytes)
        \/ \E i \in Items, step \in {"delete", "send"} : FindItem(q, i, step)
        \/ \E from, to \in Size \cup {-1} : StreamFile(q, from, to)
        \/ SaveItem(q) \/ SaveFails(q) \/ SaveAnswerLost(q)
        \/ DeleteStoredFile(q) \/ DeleteFails(q)
        \/ RemoveItem(q) \/ StreamWhole(q) \/ MediaCrash(q)
    \/ \E p \in Pictures : UploadPicture(p) \/ (\E h \in Holders : NamePicture(h, p))

MediaSpec == MediaInit /\ [][MediaNext]_mediaVars

-----------------------------------------------------------------------------
MediaTypeOK ==
    /\ item \in [Items -> {"none", "live", "removed"}]
    /\ stored \subseteq Items
    /\ size \in [Items -> Size]
    /\ picture \in [Holders -> Pictures \cup {NoPicture}]
    /\ uploaded \subseteq Pictures
    /\ editor \in [Editors -> Editor]
    /\ reply \in Reply
    /\ unsure \subseteq Items

(* Every visible item has its file, and a file without a visible item      *)
(* belongs to an upload or a removal under way: whatever requests overlap, *)
(* unless one was cut off between file and row, got no answer to its       *)
(* insert or could not delete the file (gallery.service.ts, create and     *)
(* remove).                                                                *)
FilesMatchItems ==
    \A i \in Items \ unsure :
        /\ item[i] = "live" => i \in stored
        /\ i \in stored => (item[i] = "live" \/ Busy(i, {"save", "undo", "unlink"}))

(* A part that is served lies within the file, is not empty and has the    *)
(* length announced, for every range that may be asked of every file       *)
(* (gallery.controller.ts, streamFile).                                    *)
PartFits ==
    reply.code = "part" => (0 <= reply.from /\ reply.from <= reply.to /\ reply.to < reply.size)
=============================================================================
