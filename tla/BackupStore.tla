----------------------------- MODULE BackupStore -----------------------------
(***************************************************************************)
(* BackupService of version 1 (backup_service.py): backups of files of the *)
(* repository, rollbacks with a safety backup of their own and recovery    *)
(* from it, and deletion.  One lock is held by each operation; others edit *)
(* the repository at any time, every access may fail, the process may die. *)
(* The paths are those that may be backed up, numbered in sorted order.    *)
(* Patches put files back by themselves: PatchDirectories.                 *)
(***************************************************************************)
EXTENDS PatchDirectories, FiniteSets, FiniteSetsExt

CONSTANTS
    BackupPaths,    \* numbers
    FileContents,
    Sizes,          \* the size of each content
    MaxBackups, MaxBackupEdits, MaxDeaths
ASSUME BackupStoreAssumption ==
    /\ BackupPaths \subseteq Nat /\ IsFiniteSet(BackupPaths) /\ BackupPaths # {}
    /\ FileContents \subseteq Nat \ {0} /\ Sizes \in [FileContents -> Nat]
    /\ {MaxBackups, MaxBackupEdits, MaxDeaths} \subseteq Nat

NoFile == 0
FileStates == FileContents \cup {NoFile}
Ids == 1 .. MaxBackups

NoFiles == [p \in {} |-> NoFile]
NothingStored == [manifest |-> <<>>, files |-> NoFiles,
                  was |-> NoFiles, disturbed |-> FALSE, deleted |-> FALSE]
Unlocked == [does |-> "none", at |-> "end", into |-> 0, from |-> 0, todo |-> {},
            size |-> 0, hash |-> NoFile, records |-> <<>>]
NoRollback == [result |-> "none", from |-> 0, safety |-> 0, edited |-> FALSE,
               before |-> NoFiles]

VARIABLES
    disk,       \* the repository: of each path its content
    store,      \* of each backup: the manifest's records, the files;
                \* history: what there was, an edit while it was made, a deletion begun
    given,       \* how many ids have been given
    holder,         \* the operation that holds the lock
    latest,       \* history: the rollback under way or just ended
    fileEdits,  \* by others, so far
    deaths

backupVars == <<disk, store, given, holder, latest, fileEdits, deaths>>

BackupInit ==
    /\ disk \in [BackupPaths -> FileStates]
    /\ store = [b \in Ids |-> NothingStored] /\ given = 0
    /\ holder = Unlocked /\ latest = NoRollback /\ fileEdits = 0 /\ deaths = 0

LockHeld == holder.does # "none"
NextPath == Min(holder.todo)
NothingElse == UNCHANGED <<given, fileEdits, deaths>>

(* -------------------------------- backups ------------------------------ *)

StoringInto(b, paths) ==
    store' = [store EXCEPT ![b] = [NothingStored EXCEPT !.was = [p \in paths |-> disk[p]]]]

CreateBackup ==
    /\ ~LockHeld /\ given < MaxBackups
    /\ \E paths \in (SUBSET BackupPaths) \ {{}} :
          /\ holder' = [Unlocked EXCEPT !.does = "create", !.at = "stat", !.into = given + 1,
                                   !.todo = paths]
          /\ StoringInto(given + 1, paths)
    /\ given' = given + 1 /\ latest' = NoRollback
    /\ UNCHANGED <<disk, fileEdits, deaths>>

Recording(r) ==
    holder' = [holder EXCEPT !.records = Append(@, r), !.todo = @ \ {r.path}, !.at = "stat"]
NotThere(p) == [path |-> p, existed |-> FALSE, size |-> 0, hash |-> NoFile]

\* Is it there?  Its size, ...
StatFile ==
    /\ holder.at = "stat" /\ holder.todo # {}
    /\ IF disk[NextPath] = NoFile THEN Recording(NotThere(NextPath))
       ELSE holder' = [holder EXCEPT !.size = Sizes[disk[NextPath]], !.at = "hash"]
    /\ UNCHANGED <<disk, store, latest>> /\ NothingElse

\* The backup's directory is removed and the error raised; a rollback that has
\* failed to make its safety backup has changed nothing.
CreateFails ==
    /\ store' = [store EXCEPT ![holder.into] = NothingStored]
    /\ holder' = Unlocked
    /\ latest' = IF holder.does = "create" THEN latest ELSE [latest EXCEPT !.result = "refused"]
    /\ UNCHANGED disk /\ NothingElse

\* ... its hash, ...
HashFile ==
    /\ holder.at = "hash"
    /\ IF disk[NextPath] = NoFile THEN CreateFails
       ELSE /\ holder' = [holder EXCEPT !.hash = disk[NextPath], !.at = "copy"]
            /\ UNCHANGED <<disk, store, latest>> /\ NothingElse

CopyNextPath ==
    /\ store' = [store EXCEPT ![holder.into].files =
                    [p \in DOMAIN @ \cup {NextPath} |-> IF p = NextPath THEN disk[p] ELSE @[p]]]
    /\ Recording([path |-> NextPath, existed |-> TRUE,
                  size |-> holder.size, hash |-> holder.hash])

\* ... and the copy, whose hash must be the same.
CopyFile ==
    /\ holder.at = "copy"
    /\ IF disk[NextPath] # holder.hash THEN CreateFails
       ELSE /\ CopyNextPath
            /\ UNCHANGED <<disk, latest>> /\ NothingElse

AffectedBy(b) == {store[b].manifest[i].path : i \in DOMAIN store[b].manifest}

\* With its manifest the backup is there.
WriteManifest ==
    /\ holder.at = "stat" /\ holder.todo = {}
    /\ store' = [store EXCEPT ![holder.into].manifest = holder.records]
    /\ holder' = IF holder.does = "create" THEN Unlocked
             ELSE [holder EXCEPT !.at = "restore", !.todo = AffectedBy(holder.from)]
    /\ UNCHANGED <<disk, latest>> /\ NothingElse

(* ------------------------------- rollbacks ----------------------------- *)

RecordOf(b, p) ==
    LET i == CHOOSE j \in DOMAIN store[b].manifest : store[b].manifest[j].path = p
    IN store[b].manifest[i]
\* get_manifest, _validate_manifest_integrity
Readable(b) == store[b].manifest # <<>>
IntactBackup(b) ==
    /\ Readable(b)
    /\ \A p \in AffectedBy(b) :
          LET r == RecordOf(b, p)
          IN r.existed => /\ p \in DOMAIN store[b].files
                          /\ Sizes[store[b].files[p]] = r.size
                          /\ store[b].files[p] = r.hash

\* A backup that is not whole is refused; of another a safety backup is made
\* first.  (Only a recovery goes without; nobody else asks for that.)
StartRollback ==
    /\ ~LockHeld /\ given < MaxBackups /\ given' = given + 1
    /\ \E b \in 1 .. given :
          /\ IntactBackup(b)
          /\ holder' = [Unlocked EXCEPT !.does = "rollback", !.from = b, !.at = "stat",
                                          !.todo = AffectedBy(b), !.into = given + 1]
          /\ StoringInto(given + 1, AffectedBy(b))
          /\ latest' = [result |-> "none", from |-> b, edited |-> FALSE, before |-> disk,
                        safety |-> given + 1]
    /\ UNCHANGED <<disk, fileEdits, deaths>>

\* A missing file is removed, another copied over, ...
RestoreFile ==
    /\ holder.at = "restore" /\ holder.todo # {}
    /\ LET r == RecordOf(holder.from, NextPath)
       IN IF r.existed
          THEN /\ disk' = [disk EXCEPT ![NextPath] = store[holder.from].files[NextPath]]
               /\ holder' = [holder EXCEPT !.at = "check"]
          ELSE /\ disk' = [disk EXCEPT ![NextPath] = NoFile]
               /\ holder' = [holder EXCEPT !.todo = @ \ {NextPath}]
    /\ UNCHANGED <<store, latest>> /\ NothingElse

RollbackEnds(result) == holder' = Unlocked /\ latest' = [latest EXCEPT !.result = result]

\* The repository is restored from the safety backup, by a rollback without one.
RestoreFails ==
    /\ IF holder.does = "rollback" /\ IntactBackup(holder.into)
       THEN /\ holder' = [holder EXCEPT !.does = "recover", !.at = "restore",
                                !.from = holder.into, !.todo = AffectedBy(holder.into)]
            /\ UNCHANGED latest
       ELSE RollbackEnds("broken")
    /\ UNCHANGED <<disk, store>> /\ NothingElse

\* ... and hashed.
CheckFile ==
    /\ holder.at = "check"
    /\ IF disk[NextPath] # RecordOf(holder.from, NextPath).hash THEN RestoreFails
       ELSE /\ holder' = [holder EXCEPT !.at = "restore", !.todo = @ \ {NextPath}]
            /\ UNCHANGED <<disk, store, latest>> /\ NothingElse

\* _save_manifest: rollback_count, which nothing depends on.
SaveCounted ==
    /\ holder.at = "restore" /\ holder.todo = {}
    /\ RollbackEnds(IF holder.does = "rollback" THEN "restored" ELSE "recovered")
    /\ UNCHANGED <<disk, store>> /\ NothingElse

Creating == holder.at \in {"stat", "hash", "copy"}
PutsBack == holder.at \in {"restore", "check"}

\* The file system refuses.
AccessFails == (Creating /\ CreateFails) \/ (PutsBack /\ RestoreFails)

(* ---------------------------- the rest --------------------------------- *)

BeginDelete ==
    /\ ~LockHeld
    /\ \E b \in 1 .. given :
          /\ store[b] # NothingStored
          /\ holder' = [Unlocked EXCEPT !.does = "delete", !.at = "delete", !.from = b]
          /\ store' = [store EXCEPT ![b].deleted = TRUE]
    /\ latest' = NoRollback
    /\ UNCHANGED disk /\ NothingElse
\* rmtree: one file after the other, the manifest among them.
DeleteFile ==
    /\ holder.at = "delete"
    /\ LET s == store[holder.from]
       IN \/ s.manifest # <<>> /\ store' = [store EXCEPT ![holder.from].manifest = <<>>]
          \/ \E p \in DOMAIN s.files :
                store' = [store EXCEPT ![holder.from].files =
                             [q \in DOMAIN s.files \ {p} |-> s.files[q]]]
    /\ UNCHANGED <<disk, holder, latest>> /\ NothingElse
\* It is done, or stops at what cannot be removed.
EndDelete ==
    /\ holder.at = "delete" /\ holder' = Unlocked
    /\ UNCHANGED <<disk, store, latest>> /\ NothingElse

EditRepositoryFile ==
    /\ fileEdits < MaxBackupEdits /\ fileEdits' = fileEdits + 1
    /\ \E p \in BackupPaths, c \in FileStates :
          disk[p] # c /\ disk' = [disk EXCEPT ![p] = c]
    /\ store' = IF Creating THEN [store EXCEPT ![holder.into].disturbed = TRUE] ELSE store
    /\ latest' = IF holder.does \in {"rollback", "recover"} THEN [latest EXCEPT !.edited = TRUE]
               ELSE NoRollback
    /\ UNCHANGED <<given, holder, deaths>>

ProcessDies ==
    /\ LockHeld /\ deaths < MaxDeaths /\ deaths' = deaths + 1
    /\ holder' = Unlocked
    /\ latest' = IF PutsBack THEN [latest EXCEPT !.result = "died"] ELSE NoRollback
    /\ UNCHANGED <<disk, store, given, fileEdits>>

BackupNext ==
    \/ CreateBackup
    \/ StatFile
    \/ HashFile
    \/ CopyFile
    \/ WriteManifest
    \/ StartRollback
    \/ RestoreFile
    \/ CheckFile
    \/ SaveCounted
    \/ AccessFails
    \/ BeginDelete
    \/ DeleteFile
    \/ EndDelete
    \/ EditRepositoryFile
    \/ ProcessDies
BackupSpec == BackupInit /\ [][BackupNext]_backupVars

(* ----------------------------- properties ------------------------------ *)

\* Types; at most one operation works, on backups that have an id.
BackupTypeOK ==
    /\ disk \in [BackupPaths -> FileStates]
    /\ given \in 0 .. MaxBackups
    /\ fileEdits \in 0 .. MaxBackupEdits /\ deaths \in 0 .. MaxDeaths
    /\ {holder.into, holder.from} \subseteq 0 .. given /\ holder.todo \subseteq BackupPaths
    /\ holder.at \in {"hash", "copy", "check"} => holder.todo # {}
    /\ Creating => holder.into # 0 /\ store[holder.into].manifest = <<>>
    /\ PutsBack => Readable(holder.from)
    /\ \A b \in Ids : DOMAIN store[b].files \subseteq BackupPaths

\* Whatever is edited while a backup is made: each file in it is the one that
\* was hashed.  (Its size may be that of an earlier content; then the backup,
\* created without an error, is refused by every rollback.)
StoredIsHashed ==
    \A b \in Ids :
        Readable(b) /\ ~store[b].deleted =>
            \A p \in AffectedBy(b) :
                LET r == RecordOf(b, p)
                IN r.existed => p \in DOMAIN store[b].files /\ store[b].files[p] = r.hash

\* A backup that nobody edited beside is whole: it passes its verification and
\* knows of each path it was asked for, also that there was no file.
UndisturbedIsWhole ==
    \A b \in Ids :
        Readable(b) /\ ~store[b].deleted /\ ~store[b].disturbed =>
            /\ IntactBackup(b) /\ AffectedBy(b) = DOMAIN store[b].was
            /\ \A p \in AffectedBy(b) :
                  store[b].was[p] = IF RecordOf(b, p).existed THEN store[b].files[p] ELSE NoFile

\* What a rollback leaves if nobody edits beside it: all of the backup when it
\* succeeds, what there was before when it is refused or recovered; one or the
\* other in each file at worst; and files it does not know of as they were.
RollbackIsWhole ==
    ~latest.edited =>
        LET b == latest.from
            saved == [p \in AffectedBy(b) |->
                        IF RecordOf(b, p).existed THEN store[b].files[p] ELSE NoFile]
        IN CASE latest.result = "none" -> TRUE
             [] latest.result = "restored" ->
                  \A p \in BackupPaths :
                      disk[p] = IF p \in AffectedBy(b) THEN saved[p] ELSE latest.before[p]
             [] latest.result \in {"refused", "recovered"} -> disk = latest.before
             [] latest.result \in {"broken", "died"} ->
                  \A p \in BackupPaths :
                      disk[p] \in {latest.before[p]}
                                  \cup (IF p \in AffectedBy(b) THEN {saved[p]} ELSE {})

\* Wherever a rollback is interrupted: the files there were before it are in a
\* backup that passes its verification.
BeforeIsSaved ==
    /\ latest.safety # 0 /\ ~latest.edited /\ disk # latest.before
    /\ PutsBack \/ latest.result \in {"restored", "broken", "died"}
    => /\ IntactBackup(latest.safety)
       /\ \A p \in BackupPaths :
             disk[p] # latest.before[p] =>
                 /\ p \in AffectedBy(latest.safety)
                 /\ store[latest.safety].was[p] = latest.before[p]
                 /\ latest.before[p] # NoFile =>
                       store[latest.safety].files[p] = latest.before[p]

\* A backup that can be rolled back has what it says, and a rollback puts back
\* everything or what was there before.
BackupsAreWhole ==
    BackupTypeOK /\ StoredIsHashed /\ UndisturbedIsWhole /\ RollbackIsWhole /\ BeforeIsSaved

\* What a patch or a rollback leaves is what was there before, with its directories;
\* a backup is whole or refused.
FilesAreRestored == TreeIsRestored /\ []BackupsAreWhole
===============================================================================
