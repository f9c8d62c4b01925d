---------------------------- MODULE DatabaseFiles ----------------------------
(***************************************************************************)
(* The database file, its write-ahead log, and `restore` (main.rs), which  *)
(* runs while the server is stopped: it stages and validates the backup,   *)
(* keeps what it replaces, and renames.  The server or the restore may be  *)
(* killed at any step.  Contents are versions of the whole database.       *)
(***************************************************************************)
EXTENDS Naturals

CONSTANTS MaxVersion, \* bound on versions the server commits
          MaxKills    \* bound on kills

ASSUME DatabaseFilesAssumption == MaxVersion \in Nat \ {0} /\ MaxKills \in Nat

Nothing == 0
Empty == 1            \* a database the server has just created
Backup == 2           \* the backup that is restored
NoLog == [of |-> Nothing, to |-> Nothing]

VARIABLES db,       \* the database file
          wal,      \* its log: the contents it applies to and those it leads to
          kept,     \* contents retained under other names
          serving,  \* is the server running
          restore,  \* the step of the restore
          version,  \* of the last commit
          owed,     \* history: contents that restores replaced
          torn,     \* history: a restore was killed between its two renames
          kills

dvars == <<db, wal, kept, serving, restore, version, owed, torn, kills>>

(* What opening the database shows. *)
Shown == IF wal = NoLog THEN db ELSE wal.to

DatabaseInit ==
    /\ db = Empty /\ wal = NoLog /\ kept = {} /\ serving = FALSE
    /\ restore = "none" /\ version = 0 /\ owed = {} /\ torn = FALSE /\ kills = 0

(* Database::open creates a missing file; SQLite then deletes the log.     *)
ServerStarts ==
    /\ ~serving /\ restore = "none"
    /\ serving' = TRUE
    /\ IF db = Nothing THEN db' = Empty /\ wal' = NoLog /\ torn' = FALSE
       ELSE UNCHANGED <<db, wal, torn>>
    /\ UNCHANGED <<kept, restore, version, owed, kills>>

(* A commit is in the log until a checkpoint. *)
Commits ==
    /\ serving /\ version < MaxVersion
    /\ version' = version + 1
    /\ wal' = [of |-> db, to |-> Backup + version + 1]
    /\ UNCHANGED <<db, kept, serving, restore, owed, torn, kills>>

Checkpoint ==
    /\ serving /\ wal # NoLog
    /\ db' = wal.to /\ wal' = NoLog
    /\ UNCHANGED <<kept, serving, restore, version, owed, torn, kills>>

(* Stopping the server closes the database, which is a checkpoint. *)
ServerStops ==
    /\ serving /\ serving' = FALSE
    /\ db' = Shown /\ wal' = NoLog
    /\ UNCHANGED <<kept, restore, version, owed, torn, kills>>

ServerKilled ==
    /\ serving /\ kills < MaxKills
    /\ serving' = FALSE /\ kills' = kills + 1
    /\ UNCHANGED <<db, wal, kept, restore, version, owed, torn>>

-----------------------------------------------------------------------------
(* The backup is copied to a temporary file, opened and found intact. *)
Stage ==
    /\ ~serving /\ restore = "none"
    /\ restore' = "staged"
    /\ UNCHANGED <<db, wal, kept, serving, version, owed, torn, kills>>

\* Mutant: the active database is not copied before it is moved.
RetainLogicalNot(closed) ==
    /\ restore = "staged" /\ db # Nothing
    /\ owed' = owed \cup {Shown}
    /\ IF closed THEN db' = Shown /\ wal' = NoLog ELSE UNCHANGED <<db, wal>>
    /\ restore' = "retained"
    /\ UNCHANGED <<kept, serving, version, torn, kills>>

(* VACUUM INTO writes all that the active database shows; closing it may   *)
(* have come to the checkpoint or not when the rename follows.             *)
RetainLogical(closed) ==
    /\ restore = "staged" /\ db # Nothing
    /\ kept' = kept \cup {Shown} /\ owed' = owed \cup {Shown}
    /\ IF closed THEN db' = Shown /\ wal' = NoLog ELSE UNCHANGED <<db, wal>>
    /\ restore' = "retained"
    /\ UNCHANGED <<serving, version, torn, kills>>

(* The file is renamed first, *)
MoveDatabase ==
    /\ restore = "retained"
    /\ kept' = kept \cup {db} /\ db' = Nothing
    /\ restore' = "moved"
    /\ UNCHANGED <<wal, serving, version, owed, torn, kills>>

(* then its log. *)
MoveSidecars ==
    /\ restore = "moved"
    /\ wal' = NoLog /\ restore' = "ready"
    /\ UNCHANGED <<db, kept, serving, version, owed, torn, kills>>

(* Without an active database there is nothing to retain. *)
Activate ==
    /\ restore = "ready" \/ (restore = "staged" /\ db = Nothing)
    /\ db' = Backup /\ restore' = "none"
    /\ UNCHANGED <<wal, kept, serving, version, owed, torn, kills>>

RestoreKilled ==
    /\ restore # "none" /\ kills < MaxKills
    /\ restore' = "none" /\ kills' = kills + 1
    /\ torn' = (torn \/ (restore = "moved" /\ wal # NoLog))
    /\ UNCHANGED <<db, wal, kept, serving, version, owed>>

DatabaseNext ==
    \/ ServerStarts \/ Commits \/ Checkpoint \/ ServerStops \/ ServerKilled
    \/ Stage \/ (\E c \in BOOLEAN : RetainLogical(c)) \/ MoveDatabase \/ MoveSidecars
    \/ Activate \/ RestoreKilled

-----------------------------------------------------------------------------
(* Properties *)

(* What a restore replaces, with every commit in it, stays under another   *)
(* name, wherever the restore is killed and whatever the server does next. *)
(* And a log lies only beside the database it belongs to, so a restored    *)
(* database shows the backup.  The exception is a log that a restore left  *)
(* behind when it was killed between its two renames: the next restore     *)
(* finds no database, and does not look for a log.                         *)
RestoreSafe ==
    /\ owed \subseteq kept \cup {Shown}
    /\ (db # Nothing /\ wal # NoLog /\ ~torn) => wal.of = db
=============================================================================
