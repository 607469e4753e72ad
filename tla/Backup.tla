------------------------------- MODULE Backup -------------------------------
(***************************************************************************)
(* BackupService: the nightly job dumps the database, archives the files and *)
(* the logs, and prunes what is too old.  All of it is synchronous, so that  *)
(* nothing runs between two parts of a job but a kill of the process.        *)
(***************************************************************************)
EXTENDS Integers, Sequences

CONSTANTS
    Nights,       \* ids of the backups that are made
    Retention     \* days an archive is kept

VARIABLES
    archive,      \* archive[c][n]: the file of category c that backup n wrote
    phase,        \* the part of the job that comes next
    backup,       \* the backup in progress or made last, and the parts it has
    pruned,       \* the last backup was a full one, and no day has passed since
    database      \* what the last restore made of the database

backupVars == <<archive, phase, backup, pruned, database>>

Categories == {"database", "files", "logs"}

\* stored: the file exists; age: how many midnights since it was written; digest: what the log
\* says of its content.
Archive == [stored : BOOLEAN, age : 0..(Retention + 1), content : {"whole", "part"},
            digest : {<<>>, <<"whole">>, <<"part">>}]

NoArchive == [stored |-> FALSE, age |-> 0, content |-> "part", digest |-> <<>>]

BackupInit ==
    /\ archive = [c \in Categories |-> [n \in Nights |-> NoArchive]]
    /\ phase = "asleep"
    /\ backup \in [night : Nights, parts : {{}}]
    /\ pruned = FALSE
    /\ database = "live"

-----------------------------------------------------------------------------
\* SHA-256 in hexadecimal: the beginning and the rest.
Sha256(content) == <<content, "rest">>

\* Mutant: the whole digest would be logged.
LoggedInFull(content) == Sha256(content)

\* The log has the first 16 of the 64 characters.
Logged(content) == SubSeq(Sha256(content), 1, 1)

\* runFullBackup, or one of its parts

StartBackup(n, parts) ==
    /\ phase = "asleep"
    /\ \A c \in Categories : archive[c][n] = NoArchive
    /\ backup' = [night |-> n, parts |-> parts]
    /\ phase' = IF "database" \in parts THEN "database" ELSE CHOOSE c \in parts : TRUE
    /\ UNCHANGED <<archive, pruned, database>>

Following(c) ==
    IF backup.parts # Categories THEN "asleep"
    ELSE [database |-> "files", files |-> "logs", logs |-> "prune"][c]

Store(c, content, digest) ==
    archive' = [archive EXCEPT ![c][backup.night] =
        [stored |-> TRUE, age |-> 0, content |-> content, digest |-> digest]]

\* The shell reports what gzip says: a dump that fails halfway is logged OK.
BackupDatabase(content) ==
    /\ phase = "database"
    /\ Store("database", content, Logged(content))
    /\ phase' = Following(phase)
    /\ UNCHANGED <<backup, pruned, database>>

\* The lines of the other two have no digest.
BackupFiles ==
    /\ phase = "files"
    /\ Store("files", "whole", <<>>)
    /\ phase' = Following(phase)
    /\ UNCHANGED <<backup, pruned, database>>

BackupLogs ==
    /\ phase = "logs"
    /\ Store("logs", "whole", <<>>)
    /\ phase' = Following(phase)
    /\ UNCHANGED <<backup, pruned, database>>

\* A part that fails leaves what it wrote, and the job goes on.
FailPart ==
    /\ phase \in Categories
    /\ Store(phase, "part", <<>>)
    /\ phase' = Following(phase)
    /\ UNCHANGED <<backup, pruned, database>>

\* Mutant: the retention is a day short.
TooOldEarly(a) == a.age >= Retention - 1

\* Older than Retention times 24 hours, whatever the hour it was written at.
TooOld(a) == a.age > Retention

Files(Is(_)) == {x \in Categories \X Nights : archive[x[1]][x[2]].stored /\ Is(archive[x[1]][x[2]])}

Expired == Files(TooOld)

\* Of the day that lies Retention days back what was written before this hour is
\* too old, and the rest is not.
AtLimit == Files(LAMBDA a : a.age = Retention)

\* What was written before what is too old is too old; a job writes its parts in turn.
Place == [database |-> 1, files |-> 2, logs |-> 3]

InTurn(late) ==
    \A x \in late, y \in AtLimit :
        y[2] = x[2] /\ Place[y[1]] < Place[x[1]] => y \in late

Remove(gone) ==
    archive' = [c \in Categories |-> [n \in Nights |->
        IF <<c, n>> \in gone THEN [archive[c][n] EXCEPT !.stored = FALSE] ELSE archive[c][n]]]

\* Parts made at an earlier hour of the day are usually among those removed.
Prune ==
    /\ phase = "prune"
    /\ \E late \in SUBSET AtLimit : InTurn(late) /\ Remove(Expired \cup late)
    /\ phase' = "asleep"
    /\ pruned' = TRUE
    /\ UNCHANGED <<backup, database>>

\* The process is killed; the part in progress may have written something, and
\* the pruning removed some of the files.
Kill ==
    /\ phase # "asleep"
    /\ \/ UNCHANGED archive
       \/ phase \in Categories /\ Store(phase, "part", <<>>)
       \/ phase = "prune" /\ \E gone \in SUBSET (Expired \cup AtLimit) : Remove(gone)
    /\ phase' = "asleep"
    /\ pruned' = FALSE
    /\ UNCHANGED <<backup, database>>

DayPasses ==
    /\ phase = "asleep"
    /\ archive' = [c \in Categories |-> [n \in Nights |->
            [archive[c][n] EXCEPT !.age =
                IF archive[c][n] = NoArchive \/ @ > Retention THEN @ ELSE @ + 1]]]
    /\ pruned' = FALSE
    /\ UNCHANGED <<phase, backup, database>>

-----------------------------------------------------------------------------
\* restoreDatabase

\* A file without a digest in the log is not verified.
Verified(a) == a.digest = <<>> \/ a.digest = Sha256(a.content)

RestoreDatabase(n) ==
    /\ phase = "asleep"
    /\ archive["database"][n].stored
    /\ database' = IF Verified(archive["database"][n]) THEN archive["database"][n].content ELSE "refused"
    /\ UNCHANGED <<archive, phase, backup, pruned>>

-----------------------------------------------------------------------------

BackupNext ==
    \/ \E n \in Nights, parts \in {Categories} \cup {{c} : c \in Categories} : StartBackup(n, parts)
    \/ \E content \in {"whole", "part"} : BackupDatabase(content)
    \/ BackupFiles
    \/ BackupLogs
    \/ FailPart
    \/ Prune
    \/ Kill
    \/ DayPasses
    \/ \E n \in Nights : RestoreDatabase(n)

BackupSpec == BackupInit /\ [][BackupNext]_backupVars

BackupTypeOK ==
    /\ archive \in [Categories -> [Nights -> Archive]]
    /\ phase \in Categories \cup {"asleep", "prune"}
    /\ backup \in [night : Nights, parts : SUBSET Categories]
    /\ pruned \in BOOLEAN
    /\ database \in {"live", "whole", "part", "refused"}

\* Comment in restoreDatabase, "Verify integrity": a digest in the log refuses a
\* file that is not the one that was logged.  Nothing here alters a file, so none
\* is refused.
IntactIsRestored == database # "refused"
=============================================================================
