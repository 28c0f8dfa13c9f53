----------------------------- MODULE WebUpload -----------------------------
(***************************************************************************)
(* What the web server's handlers store (main/myWebServer.cpp): profile    *)
(* files and the file that names the active one, in LittleFS, and a new    *)
(* firmware image taken out of a multipart request.  The HTTP task runs    *)
(* one handler at a time; any call to the file system, the network or the  *)
(* updater may fail, and the unit may lose power between any two of them.  *)
(*                                                                         *)
(* The name active.txt is a safe one, so the file that names the active    *)
(* profile is itself one of the profile files: the list shows it, and it    *)
(* may be uploaded, activated and deleted like any other.                   *)
(*                                                                         *)
(* LittleFS and the updater are external: a file opened for writing exists *)
(* at once, empty if it is new, and takes its new content when it is       *)
(* closed; an image is booted only after Update.end.  Of a file's text only *)
(* its first line matters, and only in the active file.  Names that are not *)
(* safe, requests without a body or too large, and parts without a .bin    *)
(* file name are refused before anything is stored and are left out.       *)
(***************************************************************************)
EXTENDS Integers, Sequences, SequencesExt

CONSTANTS Profiles,      (* safe profile names                              *)
          ActiveFile,    (* active.txt, PROFILE_ACTIVE_FILE in PROFILE_DIR  *)
          Bodies,        (* what follows the part's header in a request     *)
          Boundary,      (* the multipart boundary, with its leading CR LF  *)
          BufferLength   (* firmwareBufferLength                            *)

ASSUME BufferAssumption == BufferLength \in Nat /\ BufferLength > Len(Boundary)
ASSUME BytesAssumption ==
    /\ Boundary \in Seq(0 .. 255) /\ Boundary # <<>>
    /\ Bodies \subseteq Seq(0 .. 255)
ASSUME NamesAssumption == ActiveFile \in Profiles /\ "unnamed" \notin Profiles

VARIABLES files,     (* the profile files, the active file among them       *)
          active,    (* the profile the active file's first line names      *)
          job,       (* what the handler in progress is doing               *)
          body,      (* firmware: the part of the request not yet received  *)
          buffer,    (* firmware: received and not yet written              *)
          image,     (* firmware: written to the update partition           *)
          boot,      (* the image the unit boots next                       *)
          sent,      (* history: the body of the firmware request           *)
          cut,       (* history: files a failure left unfinished            *)
          loose,     (* history: profiles that went while they were active  *)
          foreign    (* history: the active file's text was uploaded        *)

profileVars == <<files, active, cut, loose, foreign>>
firmwareVars == <<body, buffer, image, boot, sent>>
uploadVars == <<profileVars, job, firmwareVars>>

Absent == "absent"
Unfinished == {"empty", "partial"}
NoRequest == [at |-> "idle"]
RunningImage == <<-1>>       (* the image the unit is running                    *)

(* What a first line may name: a text that is no profile names none.        *)
Lines == Profiles \union {"unnamed"}

UploadInit ==
    /\ files = [n \in Profiles |-> Absent]
    /\ active = "unnamed"
    /\ job = NoRequest
    /\ body = <<>> /\ buffer = <<>> /\ image = <<>> /\ boot = RunningImage /\ sent = <<>>
    /\ cut = {} /\ loose = {} /\ foreign = FALSE

Done == job' = NoRequest

(* File n is opened for writing; closed, with the text of which line is the *)
(* first line; or removed.                                                  *)
Opened(n) == files' = [files EXCEPT ![n] = IF @ = Absent THEN "empty" ELSE @]

Closes(n, state, line) ==
    /\ files' = [files EXCEPT ![n] = state]
    /\ active' = IF n = ActiveFile THEN line ELSE active

Removed(n) ==
    /\ files' = [files EXCEPT ![n] = Absent]
    /\ active' = IF n = ActiveFile THEN "unnamed" ELSE active
    /\ foreign' = (foreign /\ n # ActiveFile)
    /\ cut' = cut \ {n}

-----------------------------------------------------------------------------
(* webServerHandlerProfileUpload.                                           *)

UploadOpen(n, line) ==
    /\ job = NoRequest
    /\ job' = [at |-> "upload", name |-> n, line |-> line]
    /\ Opened(n)
    /\ loose' = loose \ {n}
    /\ UNCHANGED <<active, cut, foreign, firmwareVars>>

(* All was received and written, and the file closed.                       *)
UploadClose ==
    /\ job.at = "upload"
    /\ Closes(job.name, "whole", job.line)
    /\ foreign' = (foreign \/ job.name = ActiveFile)
    /\ cut' = cut \ {job.name}
    /\ Done
    /\ UNCHANGED <<loose, firmwareVars>>

(* Slip: a file that was not completely written is left there.              *)
UploadFailsLeft ==
    /\ job.at = "upload"
    /\ \E line \in Lines : Closes(job.name, "partial", line)
    /\ foreign' = (foreign \/ job.name = ActiveFile)
    /\ Done
    /\ UNCHANGED <<cut, loose, firmwareVars>>

(* Something was not: the file is closed with what it has, perhaps a part   *)
(* of its first line,                                                       *)
UploadFails ==
    /\ job.at = "upload"
    /\ \E line \in Lines : Closes(job.name, "partial", line)
    /\ foreign' = (foreign \/ job.name = ActiveFile)
    /\ job' = [job EXCEPT !.at = "remove upload"]
    /\ UNCHANGED <<cut, loose, firmwareVars>>

(* then removed, whatever the name stood for before.                        *)
UploadRemove ==
    /\ job.at = "remove upload"
    /\ \/ /\ Removed(job.name)
          /\ loose' = IF active' = job.name THEN loose \union {job.name} ELSE loose
       \/ cut' = cut \union {job.name} /\ UNCHANGED <<files, active, loose, foreign>>
    /\ Done
    /\ UNCHANGED firmwareVars

-----------------------------------------------------------------------------
(* webServerHandlerProfileActivate: the profile must exist.  An active file *)
(* that is new is empty until it is closed, and names no profile.           *)
ActivateOpen(n) ==
    /\ job = NoRequest
    /\ files[n] # Absent
    /\ Opened(ActiveFile)
    /\ job' = [at |-> "activate", name |-> n]
    /\ UNCHANGED <<active, cut, loose, foreign, firmwareVars>>

(* The name may be written in part only, and a part of it be another name.  *)
ActivateClose ==
    /\ job.at = "activate"
    /\ \/ Closes(ActiveFile, "whole", job.name) /\ cut' = cut \ {ActiveFile}
       \/ /\ \E line \in Lines : Closes(ActiveFile, "partial", line)
          /\ cut' = cut \union {ActiveFile}
    /\ foreign' = FALSE
    /\ Done
    /\ UNCHANGED <<loose, firmwareVars>>

(* webServerHandlerProfileDelete: the file goes,                            *)
DeleteFile(n) ==
    /\ job = NoRequest
    /\ files[n] # Absent
    /\ Removed(n)
    /\ job' = [at |-> "delete", name |-> n]
    /\ UNCHANGED <<loose, firmwareVars>>

(* Slip: the active file is kept.                                           *)
DeleteKeepsActive ==
    /\ job.at = "delete"
    /\ Done
    /\ UNCHANGED <<profileVars, firmwareVars>>

(* then the active file, if it names it and can be removed.                 *)
DeleteActive ==
    /\ job.at = "delete"
    /\ \/ active # job.name /\ UNCHANGED profileVars
       \/ active = job.name /\ Removed(ActiveFile) /\ UNCHANGED loose
       \/ /\ active = job.name
          /\ loose' = loose \union {job.name}
          /\ UNCHANGED <<files, active, cut, foreign>>
    /\ Done
    /\ UNCHANGED firmwareVars

-----------------------------------------------------------------------------
(* webServerHandlerFirmwareUpload, after the part's header.                 *)

(* Slip: the buffer keeps one byte too few for a boundary cut in two.       *)
OverlapShort == Len(Boundary) - 2

Overlap == Len(Boundary) - 1

(* findBytes: the number of bytes before the first boundary, -1 if none.    *)
BoundaryAt(data, i) == SubSeq(data, i + 1, i + Len(Boundary)) = Boundary

findBytes(data) ==
    LET starts == {i \in 0 .. Len(data) - Len(Boundary) : BoundaryAt(data, i)}
    IN  IF starts = {} THEN -1 ELSE CHOOSE i \in starts : \A j \in starts : i <= j

(* What stays in the buffer.                                                *)
Kept(data, end, writable) ==
    IF end >= 0 THEN <<>> ELSE SubSeq(data, writable + 1, Len(data))

FirmwareBegin(b) ==
    /\ job = NoRequest
    /\ job' = [at |-> "receive"]
    /\ body' = b /\ sent' = b
    /\ buffer' = <<>> /\ image' = <<>>
    /\ UNCHANGED <<boot, profileVars>>

(* n bytes arrive.  What cannot be the start of a boundary is written; a    *)
(* boundary ends the image, and the rest of the request is only drained.    *)
Receive(n) ==
    LET data == buffer \o SubSeq(body, 1, n)
        end == findBytes(data)
        writable == IF end >= 0 THEN end
                    ELSE IF Len(data) > Overlap THEN Len(data) - Overlap ELSE 0
    IN  /\ job.at = "receive"
        /\ n \in 1 .. Len(body) /\ n <= BufferLength - Len(buffer)
        /\ image' = image \o SubSeq(data, 1, writable)
        /\ buffer' = Kept(data, end, writable)
        /\ body' = SubSeq(body, n + 1, Len(body))
        /\ job' = IF end >= 0 THEN [at |-> "drain"] ELSE job
        /\ UNCHANGED <<boot, sent, profileVars>>

Drain(n) ==
    /\ job.at = "drain"
    /\ n \in 1 .. Len(body) /\ n <= BufferLength
    /\ body' = SubSeq(body, n + 1, Len(body))
    /\ UNCHANGED <<job, buffer, image, boot, sent, profileVars>>

(* Update.end once the request is received, then ESP.restart.               *)
UpdateEnd ==
    /\ job.at \in {"receive", "drain"}
    /\ body = <<>>
    /\ boot' = image
    /\ job' = [at |-> "restart"]
    /\ UNCHANGED <<body, buffer, image, sent, profileVars>>

Reset == image' = <<>> /\ body' = <<>> /\ buffer' = <<>> /\ sent' = <<>>

(* A receive, a write or Update.end fails: Update.abort.                    *)
UpdateAbort ==
    /\ job.at \in {"receive", "drain"}
    /\ Done
    /\ Reset
    /\ UNCHANGED <<boot, profileVars>>

-----------------------------------------------------------------------------
(* The file the handler in progress writes.                                 *)
Writing == IF job.at \in {"upload", "remove upload"} THEN {job.name}
           ELSE IF job.at = "activate" THEN {ActiveFile} ELSE {}

(* The unit restarts: after an update, or because power is lost.            *)
Restart ==
    /\ job # NoRequest
    /\ Done
    /\ cut' = cut \union {n \in Writing : files[n] \in Unfinished}
    /\ loose' = IF job.at = "delete" /\ active = job.name
                  THEN loose \union {job.name} ELSE loose
    /\ Reset
    /\ boot' = RunningImage
    /\ UNCHANGED <<files, active, foreign>>

UploadNext ==
    \/ \E n \in Profiles :
          \/ \E line \in Lines : UploadOpen(n, line)
          \/ ActivateOpen(n)
          \/ DeleteFile(n)
    \/ UploadClose \/ UploadFails \/ UploadRemove
    \/ ActivateClose
    \/ DeleteActive
    \/ \E b \in Bodies : FirmwareBegin(b)
    \/ \E n \in 1 .. BufferLength : Receive(n) \/ Drain(n)
    \/ UpdateEnd \/ UpdateAbort
    \/ Restart

UploadSpec == UploadInit /\ [][UploadNext]_uploadVars

-----------------------------------------------------------------------------
Jobs == {NoRequest}
    \union [at : {"receive", "drain", "restart"}]
    \union [at : {"upload", "remove upload"}, name : Profiles, line : Lines]
    \union [at : {"activate", "delete"}, name : Profiles]

ProfileTypes ==
    /\ files \in [Profiles -> {Absent, "whole"} \union Unfinished]
    /\ active \in Lines
    /\ job \in Jobs
    /\ cut \subseteq Profiles /\ loose \subseteq Profiles /\ foreign \in BOOLEAN

FirmwareTypes ==
    /\ Len(buffer) < Len(Boundary)
    /\ Len(image) + Len(buffer) + Len(body) <= Len(sent)

UploadTypes == ProfileTypes /\ FirmwareTypes

(* A stored profile is one that was uploaded to the end, and the active     *)
(* file one whose name was: what a failed upload wrote is gone again,       *)
(* unless power was lost, or the removal failed, before that                *)
(* (webServerHandlerProfileUpload, webServerWriteActiveProfile).            *)
ProfilesWhole ==
    /\ ProfileTypes
    /\ \A n \in Profiles : files[n] \in Unfinished => n \in cut \/ n \in Writing

(* The active file names a profile that exists, unless the profile went     *)
(* with the failed upload that was to replace it, or between the two        *)
(* removals of a deletion that power or the file system cut short; unless   *)
(* the name was written in part only; or unless the active file itself was  *)
(* uploaded as a profile called active.txt, which needs no failure at all.  *)
(* Nothing repairs this: the next profile of that name is active without    *)
(* having been activated.                                                   *)
ActiveExists ==
    \A n \in Profiles :
        active = n /\ files[n] = Absent =>
            \/ n \in loose
            \/ job.at = "delete" /\ job.name = n
            \/ ActiveFile \in cut
            \/ foreign

(* The image a firmware request installs is exactly what precedes the first *)
(* boundary in it, wherever the network cuts the request, and a request     *)
(* that is cut short or fails installs nothing.  (A request with no         *)
(* boundary at all is accepted too, without its last bytes.)                *)
InstallsWhatWasSent ==
    LET length == IF findBytes(sent) >= 0 THEN findBytes(sent)
                  ELSE IF Len(sent) >= Len(Boundary) THEN Len(sent) - Len(Boundary) + 1 ELSE 0
    IN  /\ FirmwareTypes
        /\ boot = IF job.at = "restart" THEN SubSeq(sent, 1, length) ELSE RunningImage

-----------------------------------------------------------------------------
(* What makes the two facts about profiles inductive: the handler works on  *)
(* files that are there, and an active file that is not names nothing.      *)
HandlersHaveFiles ==
    /\ job.at \in {"upload", "remove upload", "activate"} => files[job.name] # Absent
    /\ files[ActiveFile] = Absent => active = "unnamed"

(* What makes the firmware image inductive.  While the request is received, *)
(* the image, the buffer and the body still to come are the request, one    *)
(* after the other; no boundary begins and ends in the first two; and once  *)
(* something was written, the buffer holds all but one of a boundary's      *)
(* bytes.  While the rest is drained, the image ends where the first        *)
(* boundary begins.                                                         *)
RequestInParts ==
    LET received == Len(image) + Len(buffer)
    IN  /\ received <= Len(sent)
        /\ image = SubSeq(sent, 1, Len(image))
        /\ buffer = SubSeq(sent, Len(image) + 1, received)
        /\ body = SubSeq(sent, received + 1, Len(sent))
        /\ \A i \in 0 .. received - Len(Boundary) : ~BoundaryAt(sent, i)
        /\ image # <<>> => Len(buffer) = Overlap

ImageCutOff ==
    /\ findBytes(sent) = Len(image)
    /\ image = SubSeq(sent, 1, Len(image))

ImageFollowsRequest ==
    /\ {sent, body, buffer, image} \subseteq Seq(0 .. 255)
    /\ job.at = "receive" => RequestInParts
    /\ job.at = "drain" => ImageCutOff

(* The inductive invariants.                                                *)
FirmwareInv == InstallsWhatWasSent /\ ImageFollowsRequest
ProfileInv == ProfilesWhole /\ ActiveExists /\ HandlersHaveFiles
=============================================================================
