----------------------------- MODULE SourceFiles -----------------------------
(***************************************************************************)
(* What the client does to the files of the user's package managers and    *)
(* agents (crates/client/src): `set` and `reset` of one source, migration  *)
(* of a whole system (apt.rs, system.rs), and `setup` with its rollback    *)
(* (setup.rs).  A command saves a record of the originals, then writes;    *)
(* undoing it reads the record.  Commands run one at a time and may stop   *)
(* at any step; the user edits files between them, and while a setup asks  *)
(* or writes.                                                              *)
(***************************************************************************)
EXTENDS Naturals, Sequences

CONSTANTS Targets,     \* sources with a record in the system scope
          FileOf,      \* the one file `set` writes, per target
          SystemFiles, \* files a migration may rewrite
          AptFiles,    \* those the replacement of APT's sources may rewrite
          AgentFiles,  \* files a setup writes
          UserTexts,   \* what a user writes
          MaxSetups, MaxEdits, MaxFailures  \* bounds

ASSUME SourceFilesAssumption ==
    /\ FileOf \in [Targets -> SystemFiles] /\ "system" \notin Targets
    /\ AptFiles \subseteq SystemFiles /\ SystemFiles \cap AgentFiles = {}
    /\ \A t, u \in Targets : FileOf[t] = FileOf[u] => t = u
    /\ \A t \in Targets : FileOf[t] \in AptFiles => t = "apt"
    /\ UserTexts \cap {"missing", "managed"} = {}
    /\ MaxSetups \in Nat /\ MaxEdits \in Nat /\ MaxFailures \in Nat

Files == SystemFiles \cup AgentFiles
Missing == "missing"
Managed == "managed"    \* what the client writes, whatever the target
Keys == Targets \cup {"system"}

VARIABLES file,     \* contents
          record,   \* the rollback record of each key: original of each file
          setups,   \* the records of setups, which are never removed
          command,  \* the running command
          mine,     \* history: what the user last wrote and has not given up
          edits, failures

svars == <<file, record, setups, command, mine, edits, failures>>

NoRecord == [f \in {} |-> Missing]
(* key: the record; plan: originals; todo: files to write; to: what each   *)
(* gets; moved: what of the current one was renamed aside, if anything.    *)
Ready == [kind |-> "none", key |-> "system", phase |-> "idle", plan |-> NoRecord,
          todo |-> {}, to |-> NoRecord, moved |-> Missing]

SourceFilesInit ==
    /\ file \in [Files -> UserTexts \cup {Missing}]
    /\ record = [k \in Keys |-> NoRecord] /\ setups = <<>>
    /\ command = Ready /\ mine = file
    /\ edits = 0 /\ failures = 0

Installed(plan) == [f \in DOMAIN plan |-> Managed]

Begin(kind, key, phase, plan, to, todo) ==
    /\ command = Ready
    /\ command' = [kind |-> kind, key |-> key, phase |-> phase, plan |-> plan,
                   todo |-> todo, to |-> to, moved |-> Missing]
    /\ UNCHANGED <<file, record, setups, edits, failures>>

-----------------------------------------------------------------------------
(* Commands *)

(* prepare_source_set_at: no migration, no record of this target, and no   *)
(* contents of the user's unless forced (or merged, for docker).           *)
Set(t, force) ==
    LET plan == [f \in {FileOf[t]} |-> file[f]]
    IN  /\ record["system"] = NoRecord /\ record[t] = NoRecord
        /\ force \/ file[FileOf[t]] = Missing
        /\ Begin("set", t, "record", plan, Installed(plan), {FileOf[t]})
        /\ UNCHANGED mine

(* apt::prepare and system::prepare: no record of any target; the files    *)
(* that the rewrite changes, of which there must be one.  Some formats     *)
(* create a file.                                                          *)
Migrate(k, create) ==
    LET S == {f \in IF k = "apt" THEN AptFiles ELSE SystemFiles :
                file[f] # Managed /\ (create \/ file[f] # Missing)}
        plan == [f \in S |-> file[f]]
    IN  /\ k \in {"apt", "system"}
        /\ \A r \in Keys : record[r] = NoRecord
        /\ S # {}
        /\ create => k = "system"
        /\ Begin("set", k, "record", plan, Installed(plan), S)
        /\ UNCHANGED mine

(* apply_source_reset_at and reset_if_managed: every file must be as it    *)
(* was before or as the client wrote it, unless forced: then the user      *)
(* gives up what is there.  A single file that is back is left alone.      *)
Reset(k, force) ==
    LET plan == record[k]
        S == DOMAIN plan
        given == {f \in S : file[f] \notin {plan[f], Managed}}
        single == k # "system" /\ S = {FileOf[k]}
    IN  /\ plan # NoRecord
        /\ given # {} => force
        /\ Begin("reset", k, "write", plan, plan,
                 IF single /\ file[FileOf[k]] = plan[FileOf[k]] THEN {} ELSE S)
        /\ mine' = [f \in Files |-> IF f \in given THEN plan[f] ELSE mine[f]]

(* setup::plan, and the question whether to replace. *)
Setup ==
    LET S == {f \in AgentFiles : file[f] # Managed}
        plan == [f \in S |-> file[f]]
    IN  /\ Len(setups) < MaxSetups /\ S # {}
        /\ Begin("setup", "system", "ask", plan, Installed(plan), S)
        /\ UNCHANGED mine

(* setup::rollback by the id of a record. *)
Rollback(i) ==
    LET plan == setups[i]
    IN  /\ \A f \in DOMAIN plan : file[f] \in {plan[f], Managed}
        /\ Begin("rollback", "system", "write", plan, plan, DOMAIN plan)
        /\ UNCHANGED mine

-----------------------------------------------------------------------------
(* Steps of a command *)

(* setup::apply, first: nothing changed since the plan was made. *)
Confirm ==
    /\ command.phase = "ask"
    /\ command' = IF \A f \in DOMAIN command.plan : file[f] = command.plan[f]
                  THEN [command EXCEPT !.phase = "record"] ELSE Ready
    /\ UNCHANGED <<file, record, setups, mine, edits, failures>>

\* Mutant: the record is written after the files.
SaveRecordLast ==
    /\ command.phase = "record"
    /\ UNCHANGED <<record, setups>>
    /\ command' = [command EXCEPT !.phase = "write"]
    /\ UNCHANGED <<file, mine, edits, failures>>

(* The record goes to disk before any file is touched. *)
SaveRecord ==
    /\ command.phase = "record"
    /\ IF command.kind = "setup"
       THEN setups' = Append(setups, command.plan) /\ UNCHANGED record
       ELSE record' = [record EXCEPT ![command.key] = command.plan] /\ UNCHANGED setups
    /\ command' = [command EXCEPT !.phase = "write"]
    /\ UNCHANGED <<file, mine, edits, failures>>

Writing == command.phase = "write" /\ command.todo # {}
(* A command goes through its files in an order of its own, the same each  *)
(* time; which one does not matter here.                                   *)
Current == CHOOSE f \in command.todo : TRUE
Aside == command.moved # Missing

(* A setup and its rollback read the file again before they write it. *)
Identified ==
    CASE command.kind = "setup" -> file[Current] = command.plan[Current]
      [] command.kind \in {"rollback", "undo"} -> file[Current] \in {command.plan[Current], Managed}
      [] OTHER -> TRUE

(* write_atomic moves the present file aside. *)
MoveAside ==
    /\ Writing /\ ~Aside /\ Identified
    /\ file[Current] # Missing /\ command.to[Current] # Missing
    /\ file' = [file EXCEPT ![Current] = Missing]
    /\ command' = [command EXCEPT !.moved = file[Current]]
    /\ UNCHANGED <<record, setups, mine, edits, failures>>

(* It renames the new file into place, or a restored absence removes the   *)
(* file.                                                                   *)
Install ==
    /\ Writing
    /\ \/ Aside
       \/ Identified /\ (file[Current] = Missing \/ command.to[Current] = Missing)
    /\ file' = [file EXCEPT ![Current] = command.to[Current]]
    /\ command' = [command EXCEPT !.moved = Missing, !.todo = command.todo \ {Current}]
    /\ UNCHANGED <<record, setups, mine, edits, failures>>

(* The files are written: a reset removes its record. *)
Finish ==
    /\ command.phase = "write" /\ command.todo = {}
    /\ record' = IF command.kind = "reset" THEN [record EXCEPT ![command.key] = NoRecord]
                 ELSE record
    /\ command' = Ready
    /\ UNCHANGED <<file, setups, mine, edits, failures>>

-----------------------------------------------------------------------------
(* Failures *)

(* What follows an error while the contents are as given: a setup restores *)
(* the files it attempted if it can tell what is in each; everything else  *)
(* ends.                                                                   *)
AfterError(content) ==
    LET attempted == {f \in DOMAIN command.plan : f \in command.todo => f = Current}
    IN  IF /\ command.kind = "setup" /\ command.phase = "write"
           /\ \A f \in attempted : content[f] \in {command.plan[f], Managed}
        THEN [command EXCEPT !.kind = "undo", !.to = command.plan,
                             !.todo = attempted, !.moved = Missing]
        ELSE Ready

Failure == failures < MaxFailures /\ failures' = failures + 1

(* A temporary or a record cannot be written, or a record not removed. *)
StepFails ==
    /\ \/ command.phase = "record" \/ (Writing /\ ~Aside)
       \/ command.kind = "reset" /\ command.todo = {}
    /\ Failure
    /\ command' = AfterError(file)
    /\ UNCHANGED <<file, record, setups, mine, edits>>

(* A file that changed under a setup. *)
ChangedMeanwhile ==
    /\ Writing /\ ~Aside /\ ~Identified
    /\ command' = AfterError(file)
    /\ UNCHANGED <<file, record, setups, mine, edits, failures>>

(* The new file cannot be renamed into place: the old one is moved back,   *)
(* or that fails too; or it is in place and the old one cannot be removed. *)
InstallFails(left) ==
    /\ Aside /\ Failure
    /\ left \in {Missing, command.moved, command.to[Current]}
    /\ file' = [file EXCEPT ![Current] = left]
    /\ command' = AfterError(file')
    /\ UNCHANGED <<record, setups, mine, edits>>

(* The process is killed. *)
Killed ==
    /\ command # Ready /\ Failure
    /\ command' = Ready
    /\ UNCHANGED <<file, record, setups, mine, edits>>

(* The user writes or removes a file: no command runs, or a setup asks or  *)
(* is between two files.                                                   *)
Edit(f, c) ==
    /\ edits < MaxEdits /\ edits' = edits + 1
    /\ command = Ready \/ (command.kind \in {"setup", "undo"} /\ ~Aside)
    /\ file[f] # c
    /\ file' = [file EXCEPT ![f] = c] /\ mine' = [mine EXCEPT ![f] = c]
    /\ UNCHANGED <<record, setups, command, failures>>

SourceFilesNext ==
    \/ \E t \in Targets, b \in BOOLEAN : Set(t, b)
    \/ \E k \in Keys, b \in BOOLEAN : Migrate(k, b) \/ Reset(k, b)
    \/ Setup \/ (\E i \in DOMAIN setups : Rollback(i))
    \/ Confirm \/ SaveRecord \/ MoveAside \/ Install \/ Finish
    \/ StepFails \/ ChangedMeanwhile \/ Killed
    \/ \E c \in UserTexts \cup {Missing, Managed} : InstallFails(c)
    \/ \E f \in Files, c \in UserTexts \cup {Missing} : Edit(f, c)

-----------------------------------------------------------------------------
(* Properties *)

(* What the user last wrote is in its file or among the originals of a     *)
(* record; only a forced reset gives it up.                                *)
NothingLost ==
    \A f \in Files :
        mine[f] = Missing \/ file[f] = mine[f]
        \/ (\E k \in Keys : f \in DOMAIN record[k] /\ record[k][f] = mine[f])
        \/ (\E i \in DOMAIN setups : f \in DOMAIN setups[i] /\ setups[i][f] = mine[f])

(* When no record is left, the package managers' files are the user's.     *)
UnmanagedIsRestored ==
    (command = Ready /\ \A k \in Keys : record[k] = NoRecord)
        => \A f \in SystemFiles : file[f] = mine[f]

(* Whatever fails, and whenever the client is killed between writing a     *)
(* record, moving a file aside and installing the new one (client          *)
(* main.rs, write_atomic and reset): nothing the user wrote is lost, a     *)
(* record goes only after everything it covers is back, and no two records *)
(* cover each other's results.                                             *)
FilesKept == NothingLost /\ UnmanagedIsRestored
=============================================================================
