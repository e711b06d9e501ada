---------------------------- MODULE ConfigWrite ----------------------------
(***************************************************************************)
(* The files behind a configuration save or restore (config_write.rs): the *)
(* target, its backups beside it, the temporary file that replaces it. An  *)
(* operation runs step by step; every step may fail, the program may die   *)
(* between two steps, and other programs may write the target meanwhile.   *)
(*                                                                         *)
(* Backups are named by time and sequence, so their names sort by age;     *)
(* the model numbers them. A file that was created and not filled yet has  *)
(* the content Partial.                                                    *)
(***************************************************************************)
EXTENDS Integers, FiniteSets

CONSTANTS
  Documents,   \* contents that parse as models.ini
  Garbage,     \* contents that do not
  None, Partial,
  Retention    \* backups kept per target

Contents == Documents \cup Garbage

WriterAssumption ==
  /\ Retention \in Nat \ {0}
  /\ None # Partial
  /\ {None, Partial} \cap Contents = {}
  /\ None \notin Nat
ASSUME WriterAssumption

VARIABLES
  target,    \* the content of the configuration file, None when absent
  backups,   \* its .bak siblings
  made,      \* the number of the next backup
  temp,      \* the content of the operation's temporary file, None without
  op,        \* the operation that runs and where it is
  litter,    \* a temporary file stays behind an operation that has ended
  missed     \* others wrote the target after it was last backed up

fileVars == <<target, backups, made, temp, op, litter, missed>>

Kinds == {"none", "save", "restore"}
Steps == {"idle", "backup", "copy", "prune", "temp", "fill", "replace", "done"}
Operations ==
  [kind : Kinds, step : Steps, content : Contents \cup {None},
   source : Nat \cup {None}, backup : Nat \cup {None}]

Idle == [kind |-> "none", step |-> "idle", content |-> None, source |-> None,
         backup |-> None]

Backups == [id : Nat, content : Contents \cup {Partial}]

FilesTyped ==
  /\ target \in Contents \cup {None, Partial}
  /\ backups \subseteq Backups
  /\ made \in Nat
  /\ temp \in Contents \cup {None, Partial}
  /\ op \in Operations
  /\ litter \in BOOLEAN
  /\ missed \in BOOLEAN

FilesInit ==
  /\ target \in Contents \cup {None}
  /\ backups = {}
  /\ made = 0
  /\ temp = None
  /\ op = Idle
  /\ litter = FALSE
  /\ missed = FALSE

-----------------------------------------------------------------------------
(* Parts of the operations *)

\* Mutant: a restore prunes like a save.
PruneFirst == "prune"

\* A save backs up, prunes, prepares the temporary file and replaces.
AfterCopy == IF op.kind = "save" THEN "prune" ELSE "replace"

\* A restore secures its source first and prunes only once it has replaced.
AfterReplace == IF op.kind = "save" THEN "done" ELSE "prune"
AfterPrune == IF op.kind = "save" THEN "temp" ELSE "done"

\* Mutant: the target is not backed up.
NotBackedUp(step) == step

\* The target is backed up when it is there.
BackedUpOr(step) == IF target = None THEN step ELSE "backup"

Goes(step) == op' = [op EXCEPT !.step = step]

\* The operation ends with an error; its temporary file is removed.
Fails ==
  /\ op' = Idle
  /\ temp' = None

Newer(id) == {b \in backups : b.id > id}

\* Mutant: the sort order reversed.
KeptOldest ==
  {b \in backups : Cardinality({x \in backups : x.id < b.id}) < Retention}

\* What retention keeps: the newest backups.
Kept == {b \in backups : Cardinality(Newer(b.id)) < Retention}

\* What the temporary file is filled with.
Wanted ==
  IF op.kind = "save" THEN {op.content}
  ELSE {b.content : b \in {x \in backups : x.id = op.source}}

-----------------------------------------------------------------------------
(* The steps *)

SaveBegins(content) ==
  /\ op.step = "idle"
  /\ op' = [Idle EXCEPT !.kind = "save", !.content = content,
                        !.step = BackedUpOr("temp")]
  /\ UNCHANGED <<target, backups, made, temp, litter, missed>>

\* Restoring a backup that is no longer there is refused.
RestoreBegins(id) ==
  /\ op.step = "idle"
  /\ \E b \in backups : b.id = id
  /\ op' = [Idle EXCEPT !.kind = "restore", !.source = id, !.step = "temp"]
  /\ UNCHANGED <<target, backups, made, temp, litter, missed>>

CreateBackup ==
  /\ op.step = "backup"
  /\ \/ /\ backups' = backups \cup {[id |-> made, content |-> Partial]}
        /\ made' = made + 1
        /\ op' = [op EXCEPT !.step = "copy", !.backup = made]
        /\ UNCHANGED temp
     \/ Fails /\ UNCHANGED <<backups, made>>
  /\ UNCHANGED <<target, litter, missed>>

Own == {b \in backups : b.id = op.backup}

\* The copy succeeds, or the target cannot be opened and the empty backup
\* stays, or the copy fails and the backup is removed.
CopyBackup ==
  /\ op.step = "copy"
  /\ \/ /\ target # None
        /\ backups' = (backups \ Own) \cup
                        {[id |-> op.backup, content |-> target]}
        /\ missed' = FALSE
        /\ Goes(AfterCopy)
        /\ UNCHANGED temp
     \/ Fails /\ UNCHANGED <<backups, missed>>
     \/ /\ target # None
        /\ Fails
        /\ backups' = backups \ Own
        /\ UNCHANGED missed
  /\ UNCHANGED <<target, made, litter>>

\* The removal of an old backup fails: older ones are gone, the save ends
\* with an error, the restore goes on.
PruneFails ==
  /\ \E b \in backups \ Kept : backups' = {x \in backups : x.id >= b.id}
  /\ IF op.kind = "save" THEN Fails ELSE Goes("done") /\ UNCHANGED temp

Prune ==
  /\ op.step = "prune"
  /\ \/ backups' = Kept /\ Goes(AfterPrune) /\ UNCHANGED temp
     \/ PruneFails
     \/ /\ IF op.kind = "save" THEN Fails ELSE Goes("done") /\ UNCHANGED temp
        /\ UNCHANGED backups
  /\ UNCHANGED <<target, made, litter, missed>>

CreateTemp ==
  /\ op.step = "temp"
  /\ \/ temp' = Partial /\ Goes("fill")
     \/ Fails
  /\ UNCHANGED <<target, backups, made, litter, missed>>

\* Where the filled temporary file goes next.
AfterFill == IF op.kind = "save" THEN "replace" ELSE BackedUpOr("replace")

\* Mutant: an error of the write is dropped.
FillErrorDropped ==
  /\ Goes(AfterFill)
  /\ UNCHANGED <<temp, litter>>

Filled == /\ temp' \in Wanted
          /\ Goes(AfterFill)
          /\ UNCHANGED litter

\* Writing or copying fails, and so does the flush of a restore.
FillFails == Fails /\ UNCHANGED litter

\* The flush of a save fails, and its temporary file stays.
FlushFails == op.kind = "save" /\ Fails /\ litter' = TRUE

FillTemp ==
  /\ op.step = "fill"
  /\ Filled \/ FillFails \/ FlushFails
  /\ UNCHANGED <<target, backups, made, missed>>

Replaced ==
  /\ target' = temp
  /\ temp' = None
  /\ missed' = FALSE
  /\ Goes(AfterReplace)

Replace ==
  /\ op.step = "replace"
  /\ Replaced \/ (Fails /\ UNCHANGED <<target, missed>>)
  /\ UNCHANGED <<backups, made, litter>>

WriterStep == CreateBackup \/ CopyBackup \/ Prune \/ CreateTemp \/ FillTemp \/ Replace

\* Another program writes or removes the target.
OutsideWrites ==
  /\ target' \in (Contents \cup {None}) \ {target}
  /\ missed' = TRUE
  /\ UNCHANGED <<backups, made, temp, op, litter>>

\* The program dies: the files stay as they are.
WriterDies ==
  /\ op' = Idle
  /\ temp' = None
  /\ litter' = (litter \/ temp # None)
  /\ UNCHANGED <<target, backups, made, missed>>
=============================================================================
