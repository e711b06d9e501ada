---------------------------- MODULE ConfigEditor ----------------------------
(***************************************************************************)
(* The models.ini editor: one session with the loaded source, the last     *)
(* source that parsed and the text in the raw editor (models_ini_editor    *)
(* .rs), and the handlers that open, save and restore one configuration    *)
(* file (models_ini_ui.rs). The handlers run on the user interface thread, *)
(* so nothing is edited while one of them writes files.                    *)
(***************************************************************************)
EXTENDS ConfigWrite

CONSTANTS
  Blank,           \* the document a new configuration starts with
  MaxBackups,      \* bound on the backups that are ever made
  MaxOutside,      \* bound on the writes of other programs
  MaxCrashes       \* bound on the deaths of the program

EditorAssumption ==
  /\ Blank \in Documents
  /\ MaxBackups \in Nat /\ MaxOutside \in Nat /\ MaxCrashes \in Nat
ASSUME EditorAssumption

VARIABLES
  session,   \* ModelsIniEditorSession, None before a file is opened
  latest,    \* the backup RESTORE BACKUP would restore, None without
  changed,   \* the session need not show the file: others wrote it after it
             \* was loaded, or it could not be read back
  outside, crashes

vars == <<target, backups, made, temp, op, litter, missed, session, latest,
          changed, outside, crashes>>
editorVars == <<session, latest, changed>>
boundVars == <<outside, crashes>>

Modes == {"Structured", "Raw"}

Sessions == [loaded : Documents, canonical : Documents, draft : Contents,
             mode : Modes]

Loaded(source, mode) ==
  [loaded |-> source, canonical |-> source, draft |-> source, mode |-> mode]

\* raw_error: the text in the raw editor does not parse.
Broken(s) == s.draft \notin Documents

Dirty(s) == s.draft # s.loaded

TypeOK ==
  /\ FilesTyped
  /\ session \in Sessions \cup {None}
  /\ latest \in Nat \cup {None}
  /\ changed \in BOOLEAN
  /\ outside \in 0..MaxOutside
  /\ crashes \in 0..MaxCrashes

Init ==
  /\ FilesInit
  /\ session = None
  /\ latest = None
  /\ changed = FALSE
  /\ outside = 0
  /\ crashes = 0

-----------------------------------------------------------------------------
(* Editing *)

Ready == op.step = "idle"

Edits(s) ==
  /\ Ready
  /\ session' = s
  /\ UNCHANGED <<fileVars, latest, changed, boundVars>>

\* A file that is not there starts blank; one that does not parse is refused.
Source == IF target = None THEN Blank ELSE target

Open ==
  /\ Ready
  /\ Source \in Documents
  /\ session' = Loaded(Source, "Structured")
  /\ latest' = None
  /\ changed' = FALSE
  /\ UNCHANGED <<fileVars, boundVars>>

SwitchMode ==
  /\ session # None
  /\ \E mode \in Modes \ {session.mode} :
       /\ mode = "Structured" => ~Broken(session)
       /\ Edits([session EXCEPT !.mode = mode])

\* Mutants: only the text is kept, and the text is kept before it was parsed.
RawEditedText(s, text) == [s EXCEPT !.draft = text]
RawEditedUnparsed(s, text) == [s EXCEPT !.draft = text, !.canonical = text]

\* The parts of the session a raw edit sets: the last source that parsed
\* stays when the text does not.
RawEdited(s, text) ==
  [s EXCEPT !.draft = text,
            !.canonical = IF text \in Documents THEN text ELSE @]

ApplyRaw ==
  /\ session # None
  /\ session.mode = "Raw"
  /\ \E text \in Contents \ {session.draft} : Edits(RawEdited(session, text))

\* Setting, adding or resetting a value gives another document.
SetValue ==
  /\ session # None
  /\ session.mode = "Structured"
  /\ ~Broken(session)
  /\ \E document \in Documents \ {session.canonical} :
       Edits([session EXCEPT !.canonical = document, !.draft = document])

Revert ==
  /\ session # None
  /\ Dirty(session)
  /\ Edits(Loaded(session.loaded, session.mode))

-----------------------------------------------------------------------------
(* Saving and restoring *)

\* A text that does not parse cannot be validated and is not saved.
Save ==
  /\ session # None
  /\ ~Broken(session)
  /\ made < MaxBackups
  /\ SaveBegins(session.canonical)
  /\ UNCHANGED <<editorVars, boundVars>>

Restore ==
  /\ latest # None
  /\ made < MaxBackups
  /\ RestoreBegins(latest)
  /\ UNCHANGED <<editorVars, boundVars>>

Write == WriterStep /\ UNCHANGED <<editorVars, boundVars>>

Ended ==
  /\ op' = Idle
  /\ UNCHANGED <<target, backups, made, temp, litter, missed, boundVars>>

\* The session is loaded anew from what was written.
SaveDone ==
  /\ op.kind = "save" /\ op.step = "done"
  /\ Ended
  /\ session' = Loaded(op.content, session.mode)
  /\ latest' = op.backup
  /\ changed' = missed

\* Mutant: the session is not loaded anew.
ReloadSkipped ==
  /\ latest' = op.backup
  /\ UNCHANGED <<session, changed>>

\* The file is read back, in managed mode also when others removed it. What
\* cannot be read or does not parse leaves the session alone.
Reloaded ==
  \/ /\ Source \in Documents
     /\ session' = Loaded(Source, "Structured")
     /\ latest' = op.backup
     /\ changed' = FALSE
  \/ /\ changed' = TRUE
     /\ UNCHANGED <<session, latest>>

RestoreDone ==
  /\ op.kind = "restore" /\ op.step = "done"
  /\ Ended
  /\ Reloaded

-----------------------------------------------------------------------------
(* The environment *)

Outside ==
  /\ outside < MaxOutside
  /\ outside' = outside + 1
  /\ OutsideWrites
  /\ changed' = TRUE
  /\ UNCHANGED <<session, latest, crashes>>

Crash ==
  /\ crashes < MaxCrashes
  /\ crashes' = crashes + 1
  /\ WriterDies
  /\ session' = None
  /\ latest' = None
  /\ changed' = FALSE
  /\ UNCHANGED outside

Next ==
  \/ Open \/ SwitchMode \/ ApplyRaw \/ SetValue \/ Revert
  \/ Save \/ Restore \/ Write \/ SaveDone \/ RestoreDone
  \/ Outside \/ Crash

Spec == Init /\ [][Next]_vars

-----------------------------------------------------------------------------
(* Properties *)

\* At every moment, also after a death of the program between two steps, the
\* configuration file is missing or a complete version: write_validated and
\* restore_backup replace it only from a temporary file that was filled.
TargetIsWhole == target # Partial

\* RESTORE BACKUP names a complete backup, or one that as many newer backups
\* as retention keeps have pushed out: neither a failed operation nor a
\* backup that was left empty takes it away earlier.
LatestIsRestorable ==
  latest # None =>
    \/ \E b \in backups : b.id = latest /\ b.content # Partial
    \/ Cardinality(Newer(latest)) >= Retention

\* The source the session was loaded from, which REVERT goes back to and
\* changes are compared with, is the file's, as long as nobody else wrote it
\* and it could be read back.
LoadedIsOnDisk ==
  (Ready /\ session # None /\ ~changed /\ target # None) =>
     target = session.loaded

\* What a save puts into the file is the text the user sees.
SavedIsShown ==
  [][(Replace /\ target' # target /\ op.kind = "save") =>
        target' = session.draft]_vars

\* While a restore runs, the backup it restores stays until the target was
\* replaced: "A failed restore must never destroy the selected source backup".
SourceOutlivesRestore ==
  [][(op.kind = "restore" /\ (op.step = "temp" \/ temp # None)) =>
        \A b \in backups : b.id = op.source => b \in backups']_vars

\* A temporary file stays behind only when the program died.  A known
\* deviation: write_validated leaves it when its flush fails.
TempsAreRemoved == crashes = 0 => ~litter

\* The file is only replaced as a whole, and the version that is replaced is
\* kept in a backup unless others wrote it after the backup was made.
File == INSTANCE SafeFile WITH
          file <- target,
          kept <- {b.content : b \in backups} \ {Partial}

ImplementsSafeFile == File!Spec
=============================================================================
