------------------------------ MODULE MediaJobs ------------------------------
(***************************************************************************)
(* The media jobs of the server (server.py) over its document store        *)
(* (persistence.py).  A job is a document; a background task goes through  *)
(* the steps of its kind and writes what it reaches into the document,     *)
(* while the user cancels, renames or deletes the job and the server may   *)
(* restart.  update_one reads a document and writes it back later, and     *)
(* replace_one puts back one that a handler has read.                      *)
(***************************************************************************)
EXTENDS Naturals, Sequences

CONSTANTS JobKinds      \* of Kinds
\* A personal voice is a voice job whose speech is converted to the user's tone.
Kinds == {"image", "edit", "video", "voice", "personal", "portrait"}
ASSUME JobKindsAssumption == JobKinds \subseteq Kinds

Unread == [status |-> "unread", output |-> FALSE]
NoJob == [status |-> "none", output |-> FALSE]

VARIABLES
    kind,
    job,            \* the document: its status, and whether it names an output
    mirror,         \* status of the entry an edit has among all jobs
    output,         \* the output is stored
    todo,           \* steps the background task has before it
    got,            \* what its update_one has read
    user,           \* the request under way and what it has read
    called,         \* the provider has been called
    restarted,      \* the server has restarted
    crossed,        \* history: the task touched the store inside a request
    said            \* history: what requests have been carried out, and when

mediaVars == <<kind, job, mirror, output, todo, got, user, called, restarted,
               crossed, said>>

(* ------------------------- the background tasks ----------------------- *)

Write(s) == <<[do |-> "write", status |-> s]>>
Mirror(s) == <<[do |-> "mirror", status |-> s]>>
Do(what) == <<[do |-> what, status |-> "none"]>>
Stage(s) == Do("check") \o Write(s)

\* _run_generation, _run_ai_edit, _run_video_generation, _run_voice_job and
\* _run_talking_portrait_job (installed).
ImageJob ==
    Write("processing") \o Do("call") \o Do("save") \o Write("completed")
    \o Do("attach")
EditJob ==
    Do("load") \o Write("processing") \o Mirror("processing") \o Do("call")
    \o Do("save") \o Write("completed") \o Mirror("completed") \o Do("attach")
VideoJob ==
    Stage("preparing") \o Stage("uploading") \o Stage("processing")
    \o Do("load") \o Do("call") \o Write("processing") \o Do("poll")
    \o Write("processing") \o Do("save") \o Write("completed")
Spoken == Write("preparing") \o Do("check") \o Write("processing") \o Do("call")
Delivered == Do("save") \o Write("completed")
VoiceJob == Spoken \o Delivered
\* The update before the conversion leaves the status as it was read.
PersonalVoiceJob == Spoken \o Write("same") \o Do("call") \o Delivered
PortraitJob ==
    Stage("preparing") \o Do("load") \o Stage("processing") \o Do("call")
    \o Do("poll") \o Write("rendering") \o Do("check") \o Do("save")
    \o Do("check") \o Write("completed")
Program ==
    [image |-> ImageJob, edit |-> EditJob, video |-> VideoJob,
     voice |-> VoiceJob, personal |-> PersonalVoiceJob, portrait |-> PortraitJob]

\* Their except branches.
OnError ==
    [image |-> Write("failed"), edit |-> Write("failed") \o Mirror("failed"),
     video |-> Write("failed"), voice |-> Write("failed"),
     personal |-> Write("failed"), portrait |-> Do("check") \o Write("failed")]

Terminal == {"completed", "failed", "cancelled"}
Idle == [op |-> "none", read |-> Unread, at |-> "none"]

\* What makes a job: a handler that inserts the document and then hands its task
\* to the server, or fails in between and leaves a document without a task.
Made(k, task) ==
    /\ kind = k /\ todo = task
    /\ said = IF task = <<>> THEN {"stranded"} ELSE {}

\* The job is attached to its project after it is inserted, which raises if the
\* project is gone; an edit's was not looked up before.
Generate == \E task \in {ImageJob, <<>>} : Made("image", task)
CreateAiEdit == \E task \in {EditJob, <<>>} : Made("edit", task)
CreateVideoGeneration == Made("video", VideoJob)
\* A copy of a video job gets no task at all.
DuplicateVideoJob == Made("video", <<>>)
\* With a voice pack it is a personal voice.
CreateVoiceJob == Made("voice", VoiceJob) \/ Made("personal", PersonalVoiceJob)
CreateTalkingPortrait == Made("portrait", PortraitJob)

MediaInit ==
    /\ \/ Generate \/ CreateAiEdit \/ CreateVideoGeneration \/ DuplicateVideoJob
       \/ CreateVoiceJob \/ CreateTalkingPortrait
    /\ kind \in JobKinds
    /\ job = [status |-> "queued", output |-> FALSE]
    /\ mirror = "queued" /\ output = FALSE /\ got = Unread /\ user = Idle
    /\ called = FALSE /\ restarted = FALSE /\ crossed = FALSE

\* The task is inside an update, or between a check and the update it is for.
Using ==
    \/ got # Unread
    \/ \E p \in {Program[kind], OnError[kind]}, i \in 1 .. 20 :
          /\ i < Len(p) /\ p[i].do \in {"check", "poll"}
          /\ p[i + 1].do = "write" /\ todo = SubSeq(p, i + 1, Len(p))

\* The next step of the task is s.
Step(s) == todo # <<>> /\ Head(todo).do = s
Touches == crossed' = (crossed \/ user # Idle)

\* `cancelled' in the document, or no document, ends the task.
Gone == job.status \in {"none", "cancelled"}
Check ==
    /\ Step("check")
    /\ todo' = IF Gone THEN <<>> ELSE Tail(todo)
    /\ Touches
    /\ UNCHANGED <<kind, job, mirror, output, got, user, called, restarted, said>>
Load ==
    /\ Step("load")
    /\ todo' = IF job = NoJob THEN <<>> ELSE Tail(todo)
    /\ Touches
    /\ UNCHANGED <<kind, job, mirror, output, got, user, called, restarted, said>>

\* While the provider works: a video raises, a portrait returns.
Poll ==
    /\ Step("poll")
    /\ todo' = IF ~Gone THEN Tail(todo)
               ELSE IF kind = "video" THEN OnError[kind] ELSE <<>>
    /\ Touches
    /\ UNCHANGED <<kind, job, mirror, output, got, user, called, restarted, said>>

\* update_one reads.  The edit's last update asks for a status that is not
\* canceled; without a match nothing is written.
Guarded == kind = "edit" /\ Head(todo).status \in Terminal
Read ==
    /\ Step("write") /\ got = Unread
    /\ IF job = NoJob \/ (Guarded /\ Gone)
       THEN todo' = Tail(todo) /\ UNCHANGED got
       ELSE got' = job /\ UNCHANGED todo
    /\ Touches
    /\ UNCHANGED <<kind, job, mirror, output, user, called, restarted, said>>

\* ... and writes all of what it read back.
WriteBack ==
    /\ Step("write") /\ got # Unread
    /\ job' = [status |-> IF Head(todo).status = "same" THEN got.status
                          ELSE Head(todo).status,
               output |-> got.output \/ Head(todo).status = "completed"]
    /\ got' = Unread /\ todo' = Tail(todo)
    /\ Touches
    /\ UNCHANGED <<kind, mirror, output, user, called, restarted, said>>

WriteMirror ==
    /\ Step("mirror")
    /\ mirror' = Head(todo).status
    /\ todo' = Tail(todo)
    /\ Touches
    /\ UNCHANGED <<kind, job, output, got, user, called, restarted, said>>

\* The provider answers, or it or what is needed for it fails.
Call ==
    /\ Step("call")
    /\ \/ todo' = Tail(todo) /\ called' = TRUE
       \/ todo' = OnError[kind] /\ called' \in {called, TRUE}
    /\ UNCHANGED <<kind, job, mirror, output, got, user, restarted, crossed, said>>

\* The answer is validated and stored, and its media and gallery documents
\* are inserted.
Save ==
    /\ Step("save")
    /\ \/ todo' = Tail(todo) /\ output' = TRUE
       \/ todo' = OnError[kind] /\ output' \in {output, TRUE}
    /\ UNCHANGED <<kind, job, mirror, got, user, called, restarted, crossed, said>>

\* A completed image is entered in its project, which may be gone: the job
\* then fails after all.
Attach ==
    /\ Step("attach")
    /\ todo' \in {Tail(todo), OnError[kind]}
    /\ UNCHANGED <<kind, job, mirror, output, got, user, called, restarted,
                   crossed, said>>

Task == Check \/ Load \/ Poll \/ Read \/ WriteBack \/ WriteMirror \/ Call \/ Save
        \/ Attach

(* ------------------------------ requests ------------------------------ *)

\* What may be asked of a job of the kind; a sweep deletes another job of
\* the same table.
Offered ==
    [k \in Kinds |->
        IF k = "image" THEN {}
        ELSE IF k \in {"edit", "portrait"} THEN {"cancel"}
        ELSE {"cancel", "rename", "delete", "sweep"}]

\* The handler reads the document.
Ask(op) ==
    /\ user = Idle /\ job # NoJob /\ op \in Offered[kind]
    /\ op = "cancel" => job.status \notin Terminal
    /\ user' = [op |-> op, read |-> job, at |-> "asked"]
    /\ crossed' = (crossed \/ Using)
    /\ UNCHANGED <<kind, job, mirror, output, todo, got, called, restarted, said>>

\* A cancellation is early if the task looks again before it calls.
Early == IF \E i, j \in DOMAIN todo :
                i < j /\ todo[i].do = "check" /\ todo[j].do = "call"
         THEN {"early"} ELSE {}

\* replace_one and update_one look for the document once more, then put it.
Confirm ==
    /\ user.op \in {"cancel", "rename"} /\ user.at = "asked"
    /\ user' = IF job = NoJob THEN Idle
               ELSE [user EXCEPT !.at = "found",
                                 !.read = IF kind = "edit" THEN job ELSE @]
    /\ UNCHANGED <<kind, job, mirror, output, todo, got, called, restarted,
                   crossed, said>>
Put ==
    /\ user.at = "found"
    /\ job' = IF user.op = "cancel" THEN [user.read EXCEPT !.status = "cancelled"]
              ELSE user.read
    /\ said' = IF user.op = "cancel" THEN said \cup {"cancelled"} \cup Early
               ELSE said
    /\ user' = IF user.op = "cancel" /\ kind = "edit" THEN [user EXCEPT !.at = "mirror"]
               ELSE Idle
    /\ crossed' = (crossed \/ Using)
    /\ UNCHANGED <<kind, mirror, output, todo, got, called, restarted>>
PutMirror ==
    /\ user.at = "mirror"
    /\ mirror' = "cancelled"
    /\ user' = Idle
    /\ UNCHANGED <<kind, job, output, todo, got, called, restarted, crossed, said>>

\* A deleted job loses its output first.
Unlink ==
    /\ user.op = "delete" /\ user.at = "asked"
    /\ output' = (output /\ ~(kind = "video" /\ user.read.output))
    /\ user' = [user EXCEPT !.at = "unlinked"]
    /\ said' = said \cup {"unlinked"}
    /\ UNCHANGED <<kind, job, mirror, todo, got, called, restarted, crossed>>
DeleteJob ==
    /\ user.op = "delete" /\ user.at = "unlinked"
    /\ job' = NoJob /\ said' = said \cup {"deleted"}
    /\ user' = Idle
    /\ UNCHANGED <<kind, mirror, output, todo, got, called, restarted, crossed>>

\* _delete_sync reads the table, empties it, and puts the others back.
Empty ==
    /\ user.op = "sweep" /\ user.at = "asked"
    /\ job' = NoJob
    /\ user' = [user EXCEPT !.at = "emptied"]
    /\ UNCHANGED <<kind, mirror, output, todo, got, called, restarted, crossed, said>>
Refill ==
    /\ user.at = "emptied"
    /\ job' = user.read
    /\ user' = Idle
    /\ UNCHANGED <<kind, mirror, output, todo, got, called, restarted, crossed, said>>

\* A gallery item or an editor version is deleted, and the stored output with
\* it; the job is not asked.
Discard ==
    /\ output
    /\ output' = FALSE /\ said' = said \cup {"unlinked"}
    /\ UNCHANGED <<kind, job, mirror, todo, got, user, called, restarted, crossed>>

\* The server restarts; recover_active_jobs knows the talking portraits.
Active == {"queued", "preparing", "processing", "rendering"}
RestartServer ==
    /\ ~restarted /\ restarted' = TRUE
    /\ todo' = <<>> /\ got' = Unread /\ user' = Idle
    /\ job' = IF kind = "portrait" /\ job.status \in Active
              THEN [job EXCEPT !.status = "failed"] ELSE job
    /\ crossed' = (crossed \/ user # Idle)
    /\ UNCHANGED <<kind, mirror, output, called, said>>

Request ==
    \/ \E op \in {"cancel", "rename", "delete", "sweep"} : Ask(op)
    \/ Confirm
    \/ Put
    \/ PutMirror
    \/ Unlink
    \/ DeleteJob
    \/ Empty
    \/ Refill
    \/ Discard
MediaNext == Task \/ Request \/ RestartServer
MediaSpec == MediaInit /\ [][MediaNext]_mediaVars
MediaFairSpec == MediaSpec /\ WF_mediaVars(Task)

(* ----------------------------- properties ----------------------------- *)

Statuses == Active \cup {"uploading"} \cup Terminal

\* Types.
MediaTypeOK ==
    /\ job \in [status : Statuses, output : BOOLEAN] \cup {NoJob}
    /\ mirror \in {"queued", "processing"} \cup Terminal
    /\ got \in [status : Statuses, output : BOOLEAN] \cup {Unread}
    /\ user.op \in {"none", "cancel", "rename", "delete", "sweep"}
    /\ {output, called, restarted, crossed} \subseteq BOOLEAN

\* Whatever is written over what: a job that is completed names an output, and
\* the output is stored, until a deletion of the job or of the output begins.
CompletedHasOutput ==
    "unlinked" \notin said =>
        (job.status = "completed" => job.output /\ output)

\* A cancelled portrait stays cancelled and a deleted job stays deleted, if the
\* task was not in the middle of an update, or of a check for one.
RequestsHold ==
    ~crossed =>
        /\ kind = "portrait" /\ "cancelled" \in said => job.status = "cancelled"
        /\ "deleted" \in said => job = NoJob

\* A video or portrait that is cancelled that way before the task looks for the
\* last time is not sent to its provider.
CancelSpares ==
    ~crossed /\ kind \notin {"voice", "personal"} /\ "early" \in said => ~called

\* The list of all jobs says of an edit what its own document says, unless it
\* was cancelled.
MirrorAgrees ==
    kind = "edit" /\ todo = <<>> /\ user = Idle /\ ~restarted
    /\ "cancelled" \notin said => mirror = job.status

\* Every job ends and says so: but for requests that cut into the store, for
\* restarts under a job whose table is not recovered, and for one without a task.
JobIsSettled ==
    \/ job = NoJob \/ job.status \in Terminal
    \/ "stranded" \in said \/ crossed \/ (restarted /\ kind # "portrait")

\* What a job tells its user is what happened to it, whatever requests and
\* restarts cut in.
JobsTellTheTruth ==
    MediaTypeOK /\ CompletedHasOutput /\ RequestsHold /\ CancelSpares /\ MirrorAgrees
=============================================================================
