--------------------------- MODULE DocumentStudio ---------------------------
(***************************************************************************)
(* The documents of Document Studio (document_studio/router.py): their     *)
(* text, versions, tracked changes and folders.  Every handler reads the   *)
(* document, works (an AI operation for long), puts the whole document     *)
(* back and saves a version; several handlers of one owner run at once.    *)
(* The store is the SQLite one (persistence.py): a row is looked for and   *)
(* put in two steps, and to delete a row is to empty its table and to put  *)
(* back the others, as they were read before.                              *)
(***************************************************************************)
EXTENDS Naturals, FiniteSets, FiniteSetsExt

CONSTANTS
    Handlers,       \* requests that may be under way at once
    Bodies,         \* what a user or the AI may write
    Folders,        \* identities of folders
    MaxRequests     \* bound on requests
ASSUME DocumentStudioAssumption ==
    MaxRequests \in Nat /\ Bodies # {} /\ Folders \cap {"root", "missing", "deleted"} = {}

\* The parent of a folder at the top, of one not yet made and of a deleted one, whose
\* identity is never used again.
Root == "root"
Missing == "missing"
Deleted == "deleted"

\* A text is what was written, and how often the tracked insertion is in it.
Text == [body : Bodies, inserted : Nat]

VARIABLES
    doc,            \* the document
    versions,       \* its saved versions; those that are alike count as one
    parent,         \* of every folder: a folder, Root, Missing or Deleted
    handler,        \* the requests under way
    requests,       \* how many there have been
    overlap,        \* history: a request was cut into, by another or by a restart
    torn,           \* history: so was a save of a version or a deletion of one
    shown,          \* history: texts the document has had
    purged          \* history: texts of versions the user has deleted

studioVars ==
    <<doc, versions, parent, handler, requests, overlap, torn, shown, purged>>

NoDocument == [exists |-> FALSE]
NoRequest == [op |-> "none"]
Version(d) == [number |-> d.version, text |-> d.text]

\* create_document saves a first version.
StudioInit ==
    /\ \E b \in Bodies :
          doc = [exists |-> TRUE, text |-> [body |-> b, inserted |-> 0], version |-> 1,
                 folder |-> Root, change |-> "none"]
    /\ versions = {Version(doc)} /\ shown = {doc.text} /\ purged = {}
    /\ parent \in [Folders -> {Root, Missing}]
    /\ handler = [h \in Handlers |-> NoRequest]
    /\ requests = 0 /\ overlap = FALSE /\ torn = FALSE

(* ------------------------- what requests make ------------------------- *)

Rewritten(d, text) == [d EXCEPT !.text = text, !.version = @ + 1]

\* update_document, operate_document, redesign_document
Edited(d) == {Rewritten(d, [d.text EXCEPT !.body = b]) : b \in Bodies}

\* apply_track_change_action: what is pending is accepted and inserted, or not.
Decided(d) ==
    IF d.change # "pending" THEN {}
    ELSE {[Rewritten(d, [d.text EXCEPT !.inserted = @ + 1]) EXCEPT !.change = "accepted"],
          [Rewritten(d, d.text) EXCEPT !.change = "rejected"]}

\* version_action: restore
Restored(d) == {Rewritten(d, v.text) : v \in versions}

InUse(f) == parent[f] \notin {Missing, Deleted}

\* document_lifecycle, update_document without a text, and batch_documents: the
\* status and the folder change, the text does not.
Moved(d) == {[d EXCEPT !.folder = f] : f \in {d.folder, Root} \cup {g \in Folders : InUse(g)}}

(* ------------------------------ requests ------------------------------ *)

Only(h) == \A g \in Handlers \ {h} : handler[g] = NoRequest

\* Another request is deleting in the table of versions.
Sweeping == {"purge", "refill"}
SweptByOther(h) == \E g \in Handlers \ {h} : handler[g].op \in Sweeping

\* A handler has read what it needs and decided what it will put.
Begin(h, request) ==
    /\ handler[h] = NoRequest /\ requests < MaxRequests
    /\ requests' = requests + 1
    /\ handler' = [handler EXCEPT ![h] = request]
    /\ overlap' = (overlap \/ ~Only(h))
    /\ torn' = (torn \/ (request.op \in Sweeping /\ SweptByOther(h)))
    /\ UNCHANGED <<doc, versions, parent, shown, purged>>
\* It goes on to its next step, or is over.
Goes(h, request) ==
    /\ handler' = [handler EXCEPT ![h] = request]
    /\ UNCHANGED <<requests, overlap>>

AskReplace(h) ==
    /\ doc.exists
    /\ \E new \in Edited(doc) \cup Decided(doc) \cup Restored(doc) :
          Begin(h, [op |-> "replace", new |-> new, saves |-> TRUE])
\* batch_documents saves a version of what it has moved, the others do not.
AskMove(h) ==
    /\ doc.exists
    /\ \E new \in Moved(doc), saves \in BOOLEAN :
          Begin(h, [op |-> "replace", new |-> new, saves |-> saves])
AskTrack(h) ==
    doc.exists /\ doc.change = "none" /\ Begin(h, [op |-> "track"])

\* What follows a put: _save_version, or nothing.
Then(saves, new) ==
    IF saves THEN [op |-> "save", version |-> Version(new)] ELSE NoRequest

\* replace_one and update_one look for the document ...
Find(h) ==
    /\ handler[h].op \in {"replace", "track"}
    /\ Goes(h, IF handler[h].op = "track"
               THEN IF ~doc.exists THEN NoRequest
                    ELSE [op |-> "put", new |-> [doc EXCEPT !.change = "pending"], saves |-> FALSE]
               ELSE IF ~doc.exists THEN Then(handler[h].saves, handler[h].new)
                    ELSE [handler[h] EXCEPT !.op = "put"])
    /\ UNCHANGED <<doc, versions, parent, torn, shown, purged>>
\* ... and put it, whatever has become of it.
PutDocument(h) ==
    /\ handler[h].op = "put"
    /\ doc' = handler[h].new /\ shown' = shown \cup {handler[h].new.text}
    /\ Goes(h, Then(handler[h].saves, handler[h].new))
    /\ UNCHANGED <<versions, parent, torn, purged>>

\* _save_version, and the copy that version_action makes.
SaveVersion(h) ==
    /\ handler[h].op = "save"
    /\ versions' = versions \cup {handler[h].version}
    /\ torn' = (torn \/ SweptByOther(h))
    /\ Goes(h, NoRequest)
    /\ UNCHANGED <<doc, parent, shown, purged>>

\* version_action: duplicate and delete.
AskDuplicate(h) ==
    /\ doc.exists
    /\ \E v \in versions :
          Begin(h, [op |-> "save", version |->
                       [v EXCEPT !.number = Max({w.number : w \in versions}) + 1]])
AskPurge(h) ==
    /\ doc.exists
    /\ \E v \in versions : Begin(h, [op |-> "purge", gone |-> {v}, kept |-> versions \ {v}])
\* A version of another document is deleted.
AskSweep(h) == Begin(h, [op |-> "purge", gone |-> {}, kept |-> versions])

\* _delete_sync: the table is emptied, then the other rows are put back.
Purge(h) ==
    /\ handler[h].op = "purge"
    /\ versions' = {} /\ purged' = purged \cup {v.text : v \in handler[h].gone}
    /\ Goes(h, [op |-> "refill", kept |-> handler[h].kept])
    /\ UNCHANGED <<doc, parent, torn, shown>>
FillAgain(h) ==
    /\ handler[h].op = "refill"
    /\ versions' = versions \cup handler[h].kept
    /\ Goes(h, NoRequest)
    /\ UNCHANGED <<doc, parent, torn, shown, purged>>

\* Another document is deleted, and this one put back as it was read.
AskClear(h) == doc.exists /\ Begin(h, [op |-> "clear", kept |-> doc])
Clear(h) ==
    /\ handler[h].op = "clear"
    /\ doc' = NoDocument
    /\ Goes(h, [handler[h] EXCEPT !.op = "return"])
    /\ UNCHANGED <<versions, parent, torn, shown, purged>>
Return(h) ==
    /\ handler[h].op = "return"
    /\ doc' = handler[h].kept
    /\ Goes(h, NoRequest)
    /\ UNCHANGED <<versions, parent, torn, shown, purged>>

\* delete_document: the document, then its versions; batch_documents deletes these
\* even when it has not found the document again.
AskDelete(h) ==
    doc.exists /\ \E batch \in BOOLEAN : Begin(h, [op |-> "delete", batch |-> batch])
Delete(h) ==
    /\ handler[h].op = "delete"
    /\ doc' = NoDocument
    /\ purged' = IF doc.exists THEN purged \cup shown ELSE purged
    /\ Goes(h, IF doc.exists \/ handler[h].batch THEN [op |-> "forget"] ELSE NoRequest)
    /\ UNCHANGED <<versions, parent, torn, shown>>
Forget(h) ==
    /\ handler[h].op = "forget"
    /\ versions' = {} /\ purged' = purged \cup {v.text : v \in versions}
    /\ Goes(h, NoRequest)
    /\ UNCHANGED <<doc, parent, torn, shown>>

(* ------------------------------- folders ------------------------------ *)

\* The folders from p upwards.
Above(p) ==
    {q \in Folders :
        \A S \in SUBSET Folders :
            p \in S /\ (\A g \in S : parent[g] \in Folders => parent[g] \in S) => q \in S}

\* create_folder: under one that is there.
AskNewFolder(h) ==
    \E f \in Folders, p \in Folders \cup {Root} :
        /\ parent[f] = Missing /\ \A g \in Handlers : handler[g].op = "folder" => handler[g].of # f
        /\ p # Root => InUse(p)
        /\ Begin(h, [op |-> "folder", of |-> f, to |-> p, new |-> TRUE])
\* move_folder goes up from the new parent: it must come to the top, and not by f.
AskMoveFolder(h) ==
    \E f \in Folders, p \in Folders \cup {Root} :
        /\ InUse(f)
        /\ p # Root => f \notin Above(p) /\ \E g \in Above(p) : parent[g] = Root
        /\ Begin(h, [op |-> "folder", of |-> f, to |-> p, new |-> FALSE])
\* rename_folder puts back the parent that it has read.
AskRename(h) ==
    \E f \in Folders :
        InUse(f) /\ Begin(h, [op |-> "folder", of |-> f, to |-> parent[f], new |-> FALSE])
PutFolder(h) ==
    /\ handler[h].op = "folder"
    /\ parent' = IF handler[h].new \/ InUse(handler[h].of)
                 THEN [parent EXCEPT ![handler[h].of] = handler[h].to] ELSE parent
    /\ Goes(h, NoRequest)
    /\ UNCHANGED <<doc, versions, torn, shown, purged>>

\* delete_folder: its table is emptied and the others put back, then its children
\* and its documents move up.
AskDeleteFolder(h) ==
    \E f \in Folders : InUse(f) /\ Begin(h, [op |-> "remove", of |-> f, kept |-> parent])
RemoveFolder(h) ==
    /\ handler[h].op = "remove"
    /\ parent' = [g \in Folders |-> IF InUse(g) THEN Deleted ELSE parent[g]]
    /\ Goes(h, [handler[h] EXCEPT !.op = "others"])
    /\ UNCHANGED <<doc, versions, torn, shown, purged>>
PutOthers(h) ==
    /\ handler[h].op = "others"
    /\ LET kept == handler[h].kept
       IN parent' = [g \in Folders |->
                        IF g # handler[h].of /\ kept[g] \notin {Missing, Deleted}
                        THEN kept[g] ELSE parent[g]]
    /\ Goes(h, [op |-> "adopt", of |-> handler[h].of])
    /\ UNCHANGED <<doc, versions, torn, shown, purged>>
Adopt(h) ==
    /\ handler[h].op = "adopt"
    /\ parent' = [g \in Folders |-> IF parent[g] = handler[h].of THEN Root ELSE parent[g]]
    /\ Goes(h, [handler[h] EXCEPT !.op = "unfile"])
    /\ UNCHANGED <<doc, versions, torn, shown, purged>>
Unfile(h) ==
    /\ handler[h].op = "unfile"
    /\ doc' = IF doc.exists /\ doc.folder = handler[h].of THEN [doc EXCEPT !.folder = Root]
              ELSE doc
    /\ Goes(h, NoRequest)
    /\ UNCHANGED <<versions, parent, torn, shown, purged>>

\* The server restarts: what was under way is not gone on with.
StudioRestart ==
    /\ \E h \in Handlers : handler[h] # NoRequest
    /\ handler' = [h \in Handlers |-> NoRequest]
    /\ overlap' = TRUE
    /\ torn' = (torn \/ \E h \in Handlers : handler[h].op \in {"save", "refill"})
    /\ UNCHANGED <<doc, versions, parent, requests, shown, purged>>

StudioStep(h) ==
    \/ Find(h)
    \/ PutDocument(h)
    \/ SaveVersion(h)
    \/ Purge(h)
    \/ FillAgain(h)
    \/ Clear(h)
    \/ Return(h)
    \/ Delete(h)
    \/ Forget(h)
    \/ PutFolder(h)
    \/ RemoveFolder(h)
    \/ PutOthers(h)
    \/ Adopt(h)
    \/ Unfile(h)
StudioRequest(h) ==
    \/ AskReplace(h)
    \/ AskMove(h)
    \/ AskTrack(h)
    \/ AskDuplicate(h)
    \/ AskPurge(h)
    \/ AskSweep(h)
    \/ AskClear(h)
    \/ AskDelete(h)
    \/ AskNewFolder(h)
    \/ AskMoveFolder(h)
    \/ AskRename(h)
    \/ AskDeleteFolder(h)
StudioNext ==
    \/ \E h \in Handlers : StudioStep(h) \/ StudioRequest(h)
    \/ StudioRestart
StudioSpec == StudioInit /\ [][StudioNext]_studioVars

(* ----------------------------- properties ----------------------------- *)

\* Types.
StudioTypeOK ==
    /\ doc.exists => /\ doc.text \in Text /\ doc.version \in 1 .. MaxRequests + 1
                     /\ doc.folder \in Folders \cup {Root}
                     /\ doc.change \in {"none", "pending", "accepted", "rejected"}
    /\ \A v \in versions : v.number \in 1 .. MaxRequests + 1 /\ v.text \in Text
    /\ parent \in [Folders -> Folders \cup {Root, Missing, Deleted}]

\* Whichever handlers put back what they had read, every text the document has
\* had can be restored, once its version is saved, until the user deletes it:
\* unless a version was saved or deleted while another one was being deleted,
\* or the server restarted then.
EveryTextKept ==
    ~torn /\ doc.exists =>
        \A t \in shown :
            \/ \E v \in versions : v.text = t
            \/ t \in purged
            \/ \E h \in Handlers : handler[h].op = "save" /\ handler[h].version.text = t
            \/ \E h \in Handlers : handler[h].op = "refill" /\ \E v \in handler[h].kept : v.text = t

\* Without overlapping requests a tracked insertion is made once, and however
\* changes are decided and versions restored never a second time.
InsertedOnce == ~overlap /\ doc.exists => doc.text.inserted <= 1

\* Without overlapping requests a deleted document leaves no version.
DeletedForgets ==
    ~overlap /\ ~doc.exists =>
        versions = {} \/ \E h \in Handlers : handler[h].op \in {"forget", "return"}

\* Without overlapping requests folders are a forest, every way up in it ends at the
\* top, and the document is in one of them.
FoldersAreForest ==
    ~overlap =>
        /\ \A S \in SUBSET Folders : S # {} => \E f \in S : parent[f] \notin S
        /\ \/ \E h \in Handlers : handler[h].op \in {"others", "adopt", "unfile"}
           \/ /\ \A f \in Folders : parent[f] \in Folders => InUse(parent[f])
              /\ doc.exists /\ doc.folder # Root => InUse(doc.folder)

\* No text a user wrote, decided on or filed is lost to another request.
NothingWrittenIsLost ==
    StudioTypeOK /\ EveryTextKept /\ InsertedOnce /\ DeletedForgets /\ FoldersAreForest
=============================================================================
