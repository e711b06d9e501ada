------------------------- MODULE ConfigEditorProofs -------------------------
(***************************************************************************)
(* Proofs about ConfigEditor, for any documents, any retention and any     *)
(* number of operations, outside writes and deaths of the program.         *)
(***************************************************************************)
EXTENDS ConfigEditor, FiniteSetTheorems, WellFoundedInduction, TLAPS

\* The target is backed up by this operation, or there is no version of it
\* to lose, or others wrote it since.
Secured ==
  \/ missed
  \/ target = None
  \/ [id |-> op.backup, content |-> target] \in backups

\* Where the operation is, and what it has prepared.
OperationInv ==
  /\ op.step = "idle" => op = Idle
  /\ op.kind = "none" => op.step = "idle"
  /\ op.kind = "restore" => op.source # None
  /\ temp # None <=> \/ op.step \in {"fill", "replace"}
                     \/ op.kind = "restore" /\ op.step \in {"backup", "copy"}
  /\ (temp # None /\ op.step # "fill") => temp \in Contents
  /\ (op.kind = "save" /\ op.step = "replace") => temp = op.content
  /\ \/ op.step = "replace"
     \/ op.kind = "save" /\ op.step \in {"prune", "temp", "fill"}
     => Secured
  /\ target # Partial

\* The backups' order, and which of them are complete.
BackupInv ==
  /\ \A b \in backups : b.id < made
  /\ op.backup # None => op.backup + 1 = made
  /\ latest # None => latest < made
  /\ op.source # None => op.source < made
  /\ op.step = "copy" =>
       op.backup # None /\ op.backup # latest /\ op.backup # op.source
  /\ \A b \in backups :
       \/ b.id = latest
       \/ b.id = op.source
       \/ b.id = op.backup /\ op.step # "copy"
       => b.content # Partial

\* What the session shows, and what a running save will write of it.
SessionInv ==
  /\ session # None /\ ~Broken(session) => session.canonical = session.draft
  /\ op.kind = "save" =>
       session # None /\ op.content \in Documents /\ op.content = session.draft

Written ==
  \/ op.step = "done"
  \/ op.kind = "restore" /\ op.step = "prune"

\* The loaded source is the file's until the operation has replaced it.
DiskInv ==
  /\ (session # None /\ ~changed /\ target # None /\ ~Written) =>
       target = session.loaded
  /\ (op.kind = "save" /\ Written /\ ~missed) => target = op.content

EditorInv == OperationInv /\ BackupInv /\ SessionInv /\ DiskInv

Inv == TypeOK /\ EditorInv

LEMMA IdleFields ==
  /\ Idle \in Operations
  /\ Idle.kind = "none" /\ Idle.step = "idle" /\ Idle.content = None
  /\ Idle.source = None /\ Idle.backup = None
  BY DEF Idle, Operations, Kinds, Steps

LEMMA GoesFields ==
  ASSUME op \in Operations, NEW step \in Steps, Goes(step)
  PROVE  /\ op' \in Operations
         /\ op'.step = step /\ op'.kind = op.kind /\ op'.content = op.content
         /\ op'.source = op.source /\ op'.backup = op.backup
  BY DEF Goes, Operations

\* The values that stand for nothing are apart from the others.
LEMMA Apart ==
  None # Partial /\ Partial \notin Contents /\ None \notin Contents /\ None \notin Nat
  BY WriterAssumption DEF WriterAssumption

LEMMA BackupFields ==
  ASSUME Inv, NEW b \in backups
  PROVE  /\ b.id \in Nat /\ b.id # None
         /\ b.content # Partial => b.content \in Contents
  BY Apart DEF Inv, TypeOK, FilesTyped, Backups

LEMMA InitInv == Init => Inv
<1>. SUFFICES ASSUME Init PROVE Inv
  OBVIOUS
<1>. USE WriterAssumption, EditorAssumption, IdleFields DEF Init, FilesInit
<1>1. FilesTyped
  BY DEF FilesTyped
<1>2. TypeOK
  <2>1. outside = 0 /\ crashes = 0
    OBVIOUS
  <2>2. outside \in 0..MaxOutside /\ crashes \in 0..MaxCrashes
    BY <2>1, EditorAssumption DEF EditorAssumption
  <2>. QED
    BY <1>1, <2>2 DEF TypeOK
<1>3. OperationInv
  <2>1. op = Idle /\ temp = None /\ target # Partial
    BY Apart
  <2>. QED
    BY <2>1, IdleFields DEF OperationInv
<1>4. BackupInv
  BY DEF BackupInv
<1>5. SessionInv /\ DiskInv
  BY DEF SessionInv, DiskInv
<1>. QED
  BY <1>2, <1>3, <1>4, <1>5 DEF Inv, EditorInv

-----------------------------------------------------------------------------
(* Every step keeps the invariant                                          *)

\* A step that fails ends the operation and leaves the target alone.
LEMMA FailsKeeps ==
  ASSUME Inv, Fails, ~Written,
         UNCHANGED <<target, made, missed, session, latest, changed, outside,
                     crashes>>,
         backups' \subseteq backups, litter' \in BOOLEAN
  PROVE  Inv'
<1>. USE WriterAssumption, IdleFields DEF Inv, EditorInv, Fails
<1>1. TypeOK'
  BY DEF TypeOK, FilesTyped
<1>2. OperationInv'
  BY DEF OperationInv
<1>3. BackupInv'
  <2>1. op'.source = None /\ op'.backup = None /\ op'.step # "copy"
    OBVIOUS
  <2>. QED
    BY <2>1, BackupFields DEF BackupInv
<1>4. SessionInv'
  BY DEF SessionInv, Broken
<1>5. DiskInv'
  BY DEF DiskInv, Written
<1>. QED
  BY <1>1, <1>2, <1>3, <1>4, <1>5

\* An edit of the session while nothing runs.
LEMMA EditKeeps ==
  ASSUME Inv, Ready, UNCHANGED <<fileVars, boundVars>>,
         session' \in Sessions, changed' \in BOOLEAN,
         latest' \in {latest, None},
         ~Broken(session') => session'.canonical = session'.draft,
         \/ /\ UNCHANGED changed
            /\ session # None
            /\ session'.loaded = session.loaded
         \/ target \in {None, session'.loaded}
  PROVE  Inv'
<1>. USE WriterAssumption DEF Inv, EditorInv
<1>0. /\ op = Idle
      /\ UNCHANGED <<target, backups, made, temp, op, litter, missed, outside,
                     crashes>>
  BY DEF Ready, OperationInv, fileVars, boundVars
<1>1. TypeOK'
  BY <1>0 DEF TypeOK, FilesTyped
<1>2. OperationInv'
  BY <1>0 DEF OperationInv, Secured
<1>3. BackupInv'
  BY <1>0, IdleFields DEF BackupInv, TypeOK, FilesTyped, Backups
<1>4. SessionInv'
  BY <1>0, IdleFields DEF SessionInv, Broken
<1>5. DiskInv'
  BY <1>0, IdleFields DEF DiskInv, Written
<1>. QED
  BY <1>1, <1>2, <1>3, <1>4, <1>5

LEMMA OpenStep == ASSUME Inv, Open PROVE Inv'
<1>1. PICK source \in Documents :
        /\ source = IF target = None THEN Blank ELSE target
        /\ session' = Loaded(source, "Structured")
  BY DEF Open, Source
<1>2. /\ session' \in Sessions
      /\ session'.loaded = source
      /\ session'.canonical = source
      /\ session'.draft = source
  BY <1>1 DEF Loaded, Sessions, Modes, Contents
<1>. QED
  BY <1>1, <1>2, EditKeeps DEF Open

LEMMA SwitchModeStep == ASSUME Inv, SwitchMode PROVE Inv'
<1>1. PICK mode \in Modes : Edits([session EXCEPT !.mode = mode])
  BY DEF SwitchMode
<1>2. session \in Sessions
  BY DEF SwitchMode, Inv, TypeOK
<1>3. /\ session' \in Sessions
      /\ session'.loaded = session.loaded
      /\ session'.canonical = session.canonical
      /\ session'.draft = session.draft
  BY <1>1, <1>2 DEF Edits, Sessions
<1>4. ~Broken(session) => session.canonical = session.draft
  BY DEF SwitchMode, Inv, EditorInv, SessionInv
<1>6. ~Broken(session') => session'.canonical = session'.draft
  BY <1>3, <1>4 DEF Broken
<1>7. changed \in BOOLEAN
  BY DEF Inv, TypeOK
<1>. QED
  BY <1>1, <1>3, <1>6, <1>7, EditKeeps DEF Edits, SwitchMode

LEMMA ApplyRawStep == ASSUME Inv, ApplyRaw PROVE Inv'
<1>1. PICK text \in Contents \ {session.draft} : Edits(RawEdited(session, text))
  BY DEF ApplyRaw
<1>2. session \in Sessions
  BY DEF ApplyRaw, Inv, TypeOK
<1>3. /\ session' \in Sessions
      /\ session'.loaded = session.loaded
      /\ session'.draft = text
      /\ text \in Documents => session'.canonical = text
  BY <1>1, <1>2 DEF Edits, RawEdited, Sessions
<1>4. ~Broken(session') => session'.canonical = session'.draft
  BY <1>3 DEF Broken
<1>5. /\ Ready
      /\ UNCHANGED <<fileVars, boundVars, latest, changed>>
  BY <1>1 DEF Edits
<1>7. changed \in BOOLEAN
  BY DEF Inv, TypeOK
<1>. QED
  BY <1>3, <1>4, <1>5, <1>7, EditKeeps DEF ApplyRaw, Inv

LEMMA SetValueStep == ASSUME Inv, SetValue PROVE Inv'
<1>1. PICK document \in Documents :
        Edits([session EXCEPT !.canonical = document, !.draft = document])
  BY DEF SetValue
<1>2. session \in Sessions
  BY DEF SetValue, Inv, TypeOK
<1>3. /\ session' \in Sessions
      /\ session'.loaded = session.loaded
      /\ session'.draft = document
      /\ session'.canonical = document
  BY <1>1, <1>2 DEF Edits, Sessions, Contents
<1>4. changed \in BOOLEAN
  BY DEF Inv, TypeOK
<1>. QED
  BY <1>1, <1>3, <1>4, EditKeeps DEF Edits, SetValue

LEMMA RevertStep == ASSUME Inv, Revert PROVE Inv'
<1>1. session \in Sessions
  BY DEF Revert, Inv, TypeOK
<1>2. Edits(Loaded(session.loaded, session.mode))
  BY DEF Revert
<1>3. /\ session' \in Sessions
      /\ session'.loaded = session.loaded
      /\ session'.draft = session.loaded
      /\ session'.canonical = session.loaded
  BY <1>1, <1>2 DEF Edits, Loaded, Sessions, Contents
<1>4. changed \in BOOLEAN
  BY DEF Inv, TypeOK
<1>. QED
  BY <1>2, <1>3, <1>4, EditKeeps DEF Edits, Revert

LEMMA SaveStep == ASSUME Inv, Save PROVE Inv'
<1>. USE DEF Inv, EditorInv
<1>1. session \in Sessions /\ session.canonical = session.draft
  BY DEF Save, TypeOK, SessionInv
<1>2. /\ op.step = "idle" /\ op = Idle /\ temp = None
      /\ UNCHANGED <<target, backups, made, temp, litter, missed, session,
                     latest, changed, outside, crashes>>
  BY IdleFields DEF Save, SaveBegins, editorVars, boundVars, OperationInv
<1>3. /\ op' \in Operations
      /\ op'.kind = "save" /\ op'.content = session.canonical
      /\ op'.source = None /\ op'.backup = None
      /\ op'.step = IF target = None THEN "temp" ELSE "backup"
  BY <1>1 DEF Save, SaveBegins, Idle, BackedUpOr, Operations, Kinds, Steps,
     Sessions
<1>4. TypeOK'
  BY <1>2, <1>3 DEF TypeOK, FilesTyped
<1>5. OperationInv'
  BY <1>2, <1>3 DEF OperationInv, Secured
<1>6. BackupInv'
  BY <1>2, <1>3, BackupFields DEF BackupInv
<1>7. SessionInv'
  BY <1>1, <1>2, <1>3 DEF SessionInv, Save, Broken, Sessions
<1>8. DiskInv'
  BY <1>2, <1>3, IdleFields DEF DiskInv, Written
<1>. QED
  BY <1>4, <1>5, <1>6, <1>7, <1>8

LEMMA RestoreStep == ASSUME Inv, Restore PROVE Inv'
<1>. USE DEF Inv, EditorInv
<1>1. /\ op.step = "idle" /\ op = Idle /\ temp = None
      /\ UNCHANGED <<target, backups, made, temp, litter, missed, session,
                     latest, changed, outside, crashes>>
  BY IdleFields DEF Restore, RestoreBegins, editorVars, boundVars, OperationInv
<1>2. latest \in Nat
  BY DEF Restore, TypeOK
<1>3. /\ op' \in Operations
      /\ op'.kind = "restore" /\ op'.content = None
      /\ op'.source = latest /\ op'.backup = None /\ op'.step = "temp"
  BY <1>2 DEF Restore, RestoreBegins, Idle, Operations, Kinds, Steps
<1>4. TypeOK'
  BY <1>1, <1>3 DEF TypeOK, FilesTyped
<1>5. OperationInv'
  BY <1>1, <1>2, <1>3, Apart DEF OperationInv
<1>6. BackupInv'
  BY <1>1, <1>2, <1>3, BackupFields DEF BackupInv
<1>7. SessionInv'
  BY <1>1, <1>3 DEF SessionInv, Broken
<1>8. DiskInv'
  BY <1>1, <1>3, IdleFields DEF DiskInv, Written
<1>. QED
  BY <1>4, <1>5, <1>6, <1>7, <1>8

-----------------------------------------------------------------------------
(* The steps of the writer                                                 *)

Others == <<editorVars, boundVars>>

\* A step that goes on and leaves the target alone: what has to be known of
\* its new place.
LEMMA GoesOnKeeps ==
  ASSUME Inv, op.kind # "none", op'.kind = op.kind, op'.content = op.content,
         op'.source = op.source, op' \in Operations, op'.step # "idle",
         UNCHANGED <<target, Others>>, FilesTyped',
         Written => Written', op.kind = "save" => ~Written',
         op'.step # "replace" \/ op.kind # "save" \/ temp' = op.content,
         temp' # None <=> \/ op'.step \in {"fill", "replace"}
                          \/ op.kind = "restore" /\ op'.step \in {"backup", "copy"},
         (temp' # None /\ op'.step # "fill") => temp' \in Contents,
         \/ op'.step # "replace"
            /\ (op.kind # "save" \/ op'.step \notin {"prune", "temp", "fill"})
         \/ Secured',
         BackupInv'
  PROVE  Inv'
<1>. USE DEF Inv, EditorInv, Others, editorVars, boundVars
<1>1. TypeOK'
  BY DEF TypeOK
<1>2. OperationInv'
  BY DEF OperationInv
<1>3. SessionInv'
  BY DEF SessionInv, Broken
<1>4. DiskInv'
  BY DEF DiskInv
<1>. QED
  BY <1>1, <1>2, <1>3, <1>4

LEMMA CreateBackupStep ==
  ASSUME Inv, CreateBackup, UNCHANGED Others
  PROVE  Inv'
<1>1. op.step = "backup" /\ op \in Operations /\ op.kind # "none"
  BY DEF CreateBackup, Inv, EditorInv, OperationInv, TypeOK, FilesTyped
<1>2. CASE Fails /\ UNCHANGED <<backups, made>>
  <2>1. litter' \in BOOLEAN /\ ~Written
    BY <1>1 DEF CreateBackup, Inv, TypeOK, FilesTyped, Written
  <2>. QED
    BY <1>2, <2>1, FailsKeeps DEF CreateBackup, Others, editorVars, boundVars
<1>3. CASE /\ backups' = backups \cup {[id |-> made, content |-> Partial]}
           /\ made' = made + 1
           /\ op' = [op EXCEPT !.step = "copy", !.backup = made]
           /\ UNCHANGED temp
  <2>1. /\ UNCHANGED <<target, temp, litter, missed, latest, Others>>
        /\ made \in Nat
    BY <1>3 DEF CreateBackup, Others, editorVars, Inv, TypeOK, FilesTyped
  <2>2. /\ op' \in Operations
        /\ op'.step = "copy" /\ op'.kind = op.kind /\ op'.content = op.content
        /\ op'.source = op.source /\ op'.backup = made
    BY <1>1, <1>3, <2>1 DEF Operations, Steps
  <2>3. FilesTyped'
    BY <1>3, <2>1, <2>2 DEF Inv, TypeOK, FilesTyped, Backups
  <2>4. BackupInv'
    <3>1. /\ latest # None => latest \in Nat /\ latest < made
          /\ op.source # None => op.source \in Nat /\ op.source < made
      BY <1>1 DEF Inv, EditorInv, BackupInv, TypeOK, Operations
    <3>2. \A b \in backups : b.id < made /\ b.id \in Nat
      BY BackupFields DEF Inv, EditorInv, BackupInv
    <3>3. \A b \in backups : b.id = latest \/ b.id = op.source => b.content # Partial
      BY DEF Inv, EditorInv, BackupInv
    <3>. QED
      BY <1>3, <2>1, <2>2, <3>1, <3>2, <3>3, Apart DEF BackupInv
  <2>5. (temp # None => op.kind = "restore") /\ (temp # None => temp \in Contents)
        /\ (op.kind = "restore" => temp # None)
    BY <1>1 DEF Inv, EditorInv, OperationInv
  <2>. QED
    BY <1>1, <2>1, <2>2, <2>3, <2>4, <2>5, GoesOnKeeps DEF Written
<1>. QED
  BY <1>2, <1>3 DEF CreateBackup

LEMMA CopyBackupStep ==
  ASSUME Inv, CopyBackup, UNCHANGED Others
  PROVE  Inv'
<1>1. op.step = "copy" /\ op \in Operations /\ op.kind # "none"
  BY DEF CopyBackup, Inv, EditorInv, OperationInv, TypeOK, FilesTyped
<1>2. CASE Fails /\ backups' \in {backups, backups \ Own} /\ UNCHANGED missed
  <2>1. litter' \in BOOLEAN /\ ~Written
    BY <1>1 DEF CopyBackup, Inv, TypeOK, FilesTyped, Written
  <2>. QED
    BY <1>2, <2>1, FailsKeeps DEF CopyBackup, Others, editorVars, boundVars
<1>3. CASE /\ target # None
           /\ backups' = (backups \ Own) \cup
                           {[id |-> op.backup, content |-> target]}
           /\ missed' = FALSE
           /\ Goes(AfterCopy)
           /\ UNCHANGED temp
  <2>1. /\ UNCHANGED <<target, temp, litter, made, latest, Others>>
        /\ target \in Contents
    BY <1>3 DEF CopyBackup, Others, editorVars, Inv, EditorInv, OperationInv,
       TypeOK, FilesTyped
  <2>2. AfterCopy = IF op.kind = "save" THEN "prune" ELSE "replace"
    BY DEF AfterCopy
  <2>3. /\ op' \in Operations
        /\ op'.step = AfterCopy /\ op'.kind = op.kind
        /\ op'.content = op.content
        /\ op'.source = op.source /\ op'.backup = op.backup
    BY <1>1, <1>3, <2>2, GoesFields DEF Steps
  <2>4. /\ op.backup \in Nat /\ op.backup # latest /\ op.backup # op.source
        /\ op.backup + 1 = made
    BY <1>1 DEF Inv, EditorInv, BackupInv, Operations
  <2>5. FilesTyped'
    <3>1. backups' \subseteq Backups
      BY <1>3, <2>1, <2>4 DEF Inv, TypeOK, FilesTyped, Backups
    <3>. QED
      BY <1>3, <2>1, <2>3, <3>1 DEF Inv, TypeOK, FilesTyped
  <2>6. BackupInv'
    <3>1. \A b \in backups' : b.id # op.backup => b \in backups
      BY <1>3
    <3>2. \A b \in backups' : b.id = op.backup => b.content = target
      BY <1>3 DEF Own
    <3>3. \A b \in backups : b.id < made
      BY DEF Inv, EditorInv, BackupInv
    <3>4. \A b \in backups : b.id = latest \/ b.id = op.source => b.content # Partial
      BY DEF Inv, EditorInv, BackupInv
    <3>5. /\ latest # None => latest < made
          /\ op.source # None => op.source < made
      BY DEF Inv, EditorInv, BackupInv
    <3>6. \A b \in backups' : b.id < made
      BY <2>4, <3>1, <3>3
    <3>7. op'.step # "copy" /\ target # Partial
      BY <2>1, <2>2, <2>3, Apart
    <3>. QED
      BY <2>1, <2>3, <2>4, <3>1, <3>2, <3>4, <3>5, <3>6, <3>7 DEF BackupInv
  <2>7. (temp # None => op.kind = "restore") /\ (temp # None => temp \in Contents)
        /\ (op.kind = "restore" => temp # None)
    BY <1>1 DEF Inv, EditorInv, OperationInv
  <2>8. Secured'
    BY <1>3, <2>1, <2>3 DEF Secured
  <2>9. op.kind \in {"save", "restore"}
    BY <1>1 DEF Operations, Kinds
  <2>. QED
    BY <1>1, <2>1, <2>2, <2>3, <2>5, <2>6, <2>7, <2>8, <2>9, GoesOnKeeps
    DEF Written
<1>. QED
  BY <1>2, <1>3 DEF CopyBackup

\* Retention keeps the newest backup.
LEMMA NewestKept ==
  ASSUME Inv, NEW b \in backups, b.id + 1 = made
  PROVE  b \in Kept
<1>1. \A x \in backups : x.id < made /\ x.id \in Nat
  BY BackupFields DEF Inv, EditorInv, BackupInv
<1>2. Newer(b.id) = {}
  BY <1>1 DEF Newer
<1>3. Cardinality(Newer(b.id)) = 0
  BY <1>2, FS_EmptySet
<1>. QED
  BY <1>3, WriterAssumption DEF Kept, WriterAssumption

LEMMA PruneStep ==
  ASSUME Inv, Prune, UNCHANGED Others
  PROVE  Inv'
<1>1. /\ op.step = "prune" /\ op \in Operations /\ op.kind # "none"
      /\ UNCHANGED <<target, made, litter, missed, latest, Others>>
      /\ temp = None
  BY DEF Prune, Inv, EditorInv, OperationInv, TypeOK, FilesTyped, Others,
     editorVars
<1>2. backups' \subseteq backups
  BY DEF Prune, PruneFails, Kept
<1>3. \A b \in backups : b.id + 1 = made => b \in backups'
  <2>1. \A b, x \in backups : b.id + 1 = made => b.id >= x.id
    BY BackupFields DEF Inv, EditorInv, BackupInv, TypeOK, FilesTyped
  <2>. QED
    BY <2>1, NewestKept DEF Prune, PruneFails
<1>4. \/ Fails /\ op.kind = "save"
      \/ Goes(AfterPrune) /\ UNCHANGED temp
  BY DEF Prune, PruneFails, AfterPrune
<1>5. CASE Fails /\ op.kind = "save"
  BY <1>1, <1>2, <1>5, FailsKeeps
  DEF Inv, TypeOK, FilesTyped, Written, Others, editorVars, boundVars
<1>6. CASE Goes(AfterPrune) /\ UNCHANGED temp
  <2>1. AfterPrune = IF op.kind = "save" THEN "temp" ELSE "done"
    BY DEF AfterPrune
  <2>2. /\ op' \in Operations
        /\ op'.step = AfterPrune /\ op'.kind = op.kind
        /\ op'.content = op.content
        /\ op'.source = op.source /\ op'.backup = op.backup
    BY <1>1, <1>6, <2>1, GoesFields DEF Steps
  <2>3. FilesTyped'
    BY <1>1, <1>2, <1>6, <2>2 DEF Inv, TypeOK, FilesTyped
  <2>4. BackupInv'
    BY <1>1, <1>2, <2>1, <2>2 DEF Inv, EditorInv, BackupInv
  <2>5. op.kind = "save" => Secured'
    <3>1. SUFFICES ASSUME op.kind = "save", ~missed, target # None
                   PROVE  [id |-> op.backup, content |-> target] \in backups'
      BY <1>1, <2>2 DEF Secured
    <3>2. [id |-> op.backup, content |-> target] \in backups
      BY <1>1, <3>1 DEF Inv, EditorInv, OperationInv, Secured
    <3>3. op.backup + 1 = made
      BY <3>2, BackupFields DEF Inv, EditorInv, BackupInv
    <3>. QED
      BY <1>3, <3>2, <3>3
  <2>6. op.kind \in {"save", "restore"}
    BY <1>1 DEF Operations, Kinds
  <2>. QED
    BY <1>1, <1>6, <2>1, <2>2, <2>3, <2>4, <2>5, <2>6, GoesOnKeeps DEF Written
<1>. QED
  BY <1>4, <1>5, <1>6

LEMMA CreateTempStep ==
  ASSUME Inv, CreateTemp, UNCHANGED Others
  PROVE  Inv'
<1>1. /\ op.step = "temp" /\ op \in Operations /\ op.kind # "none"
      /\ UNCHANGED <<target, backups, made, litter, missed, latest, Others>>
  BY DEF CreateTemp, Inv, EditorInv, OperationInv, TypeOK, FilesTyped, Others,
     editorVars
<1>2. CASE Fails
  BY <1>1, <1>2, FailsKeeps
  DEF Inv, TypeOK, FilesTyped, Written, Others, editorVars, boundVars
<1>3. CASE temp' = Partial /\ Goes("fill")
  <2>1. /\ op' \in Operations
        /\ op'.step = "fill" /\ op'.kind = op.kind
        /\ op'.content = op.content
        /\ op'.source = op.source /\ op'.backup = op.backup
    BY <1>1, <1>3, GoesFields DEF Steps
  <2>2. FilesTyped'
    BY <1>1, <1>3, <2>1 DEF Inv, TypeOK, FilesTyped
  <2>3. BackupInv'
    BY <1>1, <2>1 DEF Inv, EditorInv, BackupInv
  <2>4. op.kind = "save" => Secured'
    BY <1>1, <2>1 DEF Inv, EditorInv, OperationInv, Secured
  <2>. QED
    BY <1>1, <1>3, <2>1, <2>2, <2>3, <2>4, GoesOnKeeps, Apart DEF Written
<1>. QED
  BY <1>2, <1>3 DEF CreateTemp

LEMMA FillTempStep ==
  ASSUME Inv, FillTemp, UNCHANGED Others
  PROVE  Inv'
<1>1. /\ op.step = "fill" /\ op \in Operations /\ op.kind # "none"
      /\ UNCHANGED <<target, backups, made, missed, latest, Others>>
  BY DEF FillTemp, Inv, EditorInv, OperationInv, TypeOK, FilesTyped, Others,
     editorVars
<1>2. CASE Fails /\ litter' \in {litter, TRUE}
  BY <1>1, <1>2, FailsKeeps
  DEF Inv, TypeOK, FilesTyped, Written, Others, editorVars, boundVars
<1>3. CASE Filled
  <2>1. op.kind \in {"save", "restore"}
    BY <1>1 DEF Operations, Kinds
  <2>2. AfterFill = IF op.kind = "save" \/ target = None
                    THEN "replace" ELSE "backup"
    BY DEF AfterFill, BackedUpOr
  <2>3. /\ op' \in Operations
        /\ op'.step = AfterFill /\ op'.kind = op.kind
        /\ op'.content = op.content
        /\ op'.source = op.source /\ op'.backup = op.backup
    BY <1>1, <1>3, <2>2, GoesFields DEF Filled, Steps
  <2>4. /\ temp' \in Contents
        /\ op.kind = "save" => temp' = op.content
    <3>1. CASE op.kind = "save"
      BY <1>3, <3>1 DEF Filled, Wanted, Inv, EditorInv, SessionInv, Contents
    <3>2. CASE op.kind # "save"
      <4>1. PICK b \in backups : b.id = op.source /\ temp' = b.content
        BY <1>3, <3>2 DEF Filled, Wanted
      <4>2. b.content # Partial
        BY <4>1 DEF Inv, EditorInv, BackupInv
      <4>. QED
        BY <3>2, <4>1, <4>2, BackupFields
    <3>. QED
      BY <3>1, <3>2
  <2>5. FilesTyped'
    BY <1>1, <1>3, <2>3, <2>4 DEF Filled, Inv, TypeOK, FilesTyped
  <2>6. BackupInv'
    BY <1>1, <2>2, <2>3 DEF Inv, EditorInv, BackupInv
  <2>7. AfterFill = "replace" => Secured'
    BY <1>1, <2>1, <2>2, <2>3 DEF Inv, EditorInv, OperationInv, Secured
  <2>. QED
    BY <1>1, <1>3, <2>1, <2>2, <2>3, <2>4, <2>5, <2>6, <2>7, GoesOnKeeps, Apart
    DEF Written
<1>. QED
  BY <1>2, <1>3 DEF FillTemp, FillFails, FlushFails

LEMMA ReplaceStep ==
  ASSUME Inv, Replace, UNCHANGED Others
  PROVE  Inv'
<1>1. /\ op.step = "replace" /\ op \in Operations /\ op.kind # "none"
      /\ UNCHANGED <<backups, made, litter, session, latest, changed, outside,
                     crashes>>
      /\ temp \in Contents
      /\ op.kind = "save" => temp = op.content
  BY DEF Replace, Inv, EditorInv, OperationInv, TypeOK, FilesTyped, Others,
     editorVars, boundVars
<1>2. CASE Fails /\ UNCHANGED <<target, missed>>
  BY <1>1, <1>2, FailsKeeps DEF Inv, TypeOK, FilesTyped, Written
<1>3. CASE Replaced
  <2>1. op.kind \in {"save", "restore"}
    BY <1>1 DEF Operations, Kinds
  <2>2. AfterReplace = IF op.kind = "save" THEN "done" ELSE "prune"
    BY DEF AfterReplace
  <2>3. /\ op' \in Operations
        /\ op'.step = AfterReplace /\ op'.kind = op.kind
        /\ op'.content = op.content
        /\ op'.source = op.source /\ op'.backup = op.backup
    BY <1>1, <1>3, <2>2, GoesFields DEF Replaced, Steps
  <2>4. target' = temp /\ temp' = None /\ missed' = FALSE
    BY <1>3 DEF Replaced
  <2>5. TypeOK'
    BY <1>1, <2>3, <2>4 DEF Inv, TypeOK, FilesTyped
  <2>6. OperationInv'
    <3>1. target' # Partial
      BY <1>1, <2>4, Apart
    <3>2. op.kind = "restore" => op.source # None
      BY DEF Inv, EditorInv, OperationInv
    <3>. QED
      BY <1>1, <2>1, <2>2, <2>3, <2>4, <3>1, <3>2 DEF OperationInv
  <2>7. BackupInv'
    BY <1>1, <2>2, <2>3 DEF Inv, EditorInv, BackupInv
  <2>8. SessionInv'
    BY <1>1, <2>3 DEF Inv, EditorInv, SessionInv, Broken
  <2>9. DiskInv'
    BY <1>1, <2>1, <2>2, <2>3, <2>4 DEF DiskInv, Written
  <2>. QED
    BY <2>5, <2>6, <2>7, <2>8, <2>9 DEF Inv, EditorInv
<1>. QED
  BY <1>2, <1>3 DEF Replace

-----------------------------------------------------------------------------
(* The ends of the operations, and the environment                         *)

LEMMA SaveDoneStep == ASSUME Inv, SaveDone PROVE Inv'
<1>. USE DEF Inv, EditorInv
<1>1. /\ op.kind = "save" /\ op.step = "done" /\ op \in Operations
      /\ session \in Sessions
      /\ op.content \in Documents
      /\ op' = Idle
      /\ UNCHANGED <<target, backups, made, temp, litter, missed, outside,
                     crashes>>
      /\ latest' = op.backup
      /\ changed' = missed
  BY DEF SaveDone, Ended, boundVars, SessionInv, TypeOK, FilesTyped
<1>2. /\ session' \in Sessions
      /\ session'.loaded = op.content
      /\ session'.canonical = op.content
      /\ session'.draft = op.content
  BY <1>1 DEF SaveDone, Loaded, Sessions, Contents
<1>3. TypeOK'
  BY <1>1, <1>2, IdleFields DEF TypeOK, FilesTyped, Operations
<1>4. OperationInv'
  BY <1>1, IdleFields DEF OperationInv
<1>5. BackupInv'
  <2>1. op.backup # None => op.backup \in Nat /\ op.backup + 1 = made /\ made \in Nat
    BY <1>1 DEF BackupInv, Operations, TypeOK, FilesTyped
  <2>. QED
    BY <1>1, <2>1, IdleFields, BackupFields DEF BackupInv
<1>6. SessionInv'
  BY <1>1, <1>2, IdleFields DEF SessionInv
<1>7. DiskInv'
  BY <1>1, <1>2, IdleFields DEF DiskInv, Written
<1>. QED
  BY <1>3, <1>4, <1>5, <1>6, <1>7

LEMMA RestoreDoneStep == ASSUME Inv, RestoreDone PROVE Inv'
<1>. USE DEF Inv, EditorInv
<1>1. /\ op.kind = "restore" /\ op.step = "done" /\ op \in Operations
      /\ op' = Idle
      /\ UNCHANGED <<target, backups, made, temp, litter, missed, outside,
                     crashes>>
  BY DEF RestoreDone, Ended, boundVars, TypeOK, FilesTyped
<1>2. OperationInv'
  BY <1>1, IdleFields DEF OperationInv
<1>3. op.backup # None => op.backup \in Nat /\ op.backup + 1 = made /\ made \in Nat
  BY <1>1 DEF BackupInv, Operations, TypeOK, FilesTyped
<1>4. CASE /\ Source \in Documents
           /\ session' = Loaded(Source, "Structured")
           /\ latest' = op.backup
           /\ changed' = FALSE
  <2>1. /\ session' \in Sessions
        /\ session'.loaded = Source
        /\ session'.canonical = Source
        /\ session'.draft = Source
    BY <1>4 DEF Loaded, Sessions, Modes, Contents
  <2>2. TypeOK'
    BY <1>1, <1>4, <2>1, IdleFields DEF TypeOK, FilesTyped, Operations
  <2>3. BackupInv'
    BY <1>1, <1>3, <1>4, IdleFields, BackupFields DEF BackupInv
  <2>4. SessionInv' /\ DiskInv'
    BY <1>1, <1>4, <2>1, IdleFields DEF SessionInv, DiskInv, Written, Source
  <2>. QED
    BY <1>2, <2>2, <2>3, <2>4
<1>5. CASE changed' = TRUE /\ UNCHANGED <<session, latest>>
  <2>1. TypeOK'
    BY <1>1, <1>5, IdleFields DEF TypeOK, FilesTyped
  <2>2. BackupInv'
    BY <1>1, <1>5, IdleFields, BackupFields DEF BackupInv
  <2>3. SessionInv' /\ DiskInv'
    BY <1>1, <1>5, IdleFields DEF SessionInv, Broken, DiskInv, Written
  <2>. QED
    BY <1>2, <2>1, <2>2, <2>3
<1>. QED
  BY <1>4, <1>5 DEF RestoreDone, Reloaded

LEMMA OutsideStep == ASSUME Inv, Outside PROVE Inv'
<1>. USE DEF Inv, EditorInv
<1>1. /\ target' \in Contents \cup {None}
      /\ missed' = TRUE /\ changed' = TRUE
      /\ UNCHANGED <<backups, made, temp, op, litter, session, latest, crashes>>
      /\ outside' \in 0..MaxOutside
  BY EditorAssumption
  DEF Outside, OutsideWrites, TypeOK, EditorAssumption
<1>2. TypeOK'
  BY <1>1 DEF TypeOK, FilesTyped
<1>3. OperationInv'
  BY <1>1, Apart DEF OperationInv, Secured
<1>4. BackupInv'
  BY <1>1 DEF BackupInv
<1>5. SessionInv' /\ DiskInv'
  BY <1>1 DEF SessionInv, Broken, DiskInv, Written
<1>. QED
  BY <1>2, <1>3, <1>4, <1>5

LEMMA CrashStep == ASSUME Inv, Crash PROVE Inv'
<1>. USE DEF Inv, EditorInv
<1>1. /\ op' = Idle /\ temp' = None
      /\ litter' \in BOOLEAN
      /\ session' = None /\ latest' = None /\ changed' = FALSE
      /\ UNCHANGED <<target, backups, made, missed, outside>>
      /\ crashes' \in 0..MaxCrashes
  BY EditorAssumption
  DEF Crash, WriterDies, TypeOK, FilesTyped, EditorAssumption
<1>2. TypeOK'
  BY <1>1, IdleFields DEF TypeOK, FilesTyped
<1>3. OperationInv'
  BY <1>1, IdleFields DEF OperationInv
<1>4. BackupInv'
  BY <1>1, IdleFields, BackupFields DEF BackupInv
<1>5. SessionInv' /\ DiskInv'
  BY <1>1, IdleFields DEF SessionInv, DiskInv
<1>. QED
  BY <1>2, <1>3, <1>4, <1>5

LEMMA NextInv == ASSUME Inv, [Next]_vars PROVE Inv'
<1>1. CASE Next
  <2>1. CASE Write
    BY <2>1, CreateBackupStep, CopyBackupStep, PruneStep, CreateTempStep,
       FillTempStep, ReplaceStep DEF Write, WriterStep, Others
  <2>. QED
    BY <1>1, <2>1, OpenStep, SwitchModeStep, ApplyRawStep, SetValueStep,
       RevertStep, SaveStep, RestoreStep, SaveDoneStep, RestoreDoneStep,
       OutsideStep, CrashStep DEF Next
<1>2. CASE UNCHANGED vars
  <2>1. TypeOK'
    BY <1>2 DEF Inv, TypeOK, FilesTyped, vars
  <2>2. EditorInv'
    BY <1>2 DEF Inv, EditorInv, OperationInv, Secured, BackupInv, SessionInv,
       Broken, DiskInv, Written, vars
  <2>. QED
    BY <2>1, <2>2 DEF Inv
<1>. QED
  BY <1>1, <1>2

THEOREM InvCorrect == Spec => []Inv
  BY InitInv, NextInv, PTL DEF Spec

-----------------------------------------------------------------------------
(* Theorems                                                                *)

\* The editor, the operation and the files keep their types (ConfigUiState,
\* ModelsIniEditorSession and the files beside the target).
THEOREM TypeCorrect == Spec => []TypeOK
<1>1. Inv => TypeOK
  BY DEF Inv
<1>. QED
  BY <1>1, InvCorrect, PTL

\* The configuration file is never seen half written, whatever step of
\* write_validated or restore_backup fails or is the program's last.
THEOREM WholeCorrect == Spec => []TargetIsWhole
<1>1. Inv => TargetIsWhole
  BY DEF Inv, EditorInv, OperationInv, TargetIsWhole
<1>. QED
  BY <1>1, InvCorrect, PTL

\* The source a session was loaded from is the file's (save_config and
\* restore_latest load the session anew).
THEOREM DiskCorrect == Spec => []LoadedIsOnDisk
<1>1. Inv => LoadedIsOnDisk
  BY IdleFields
  DEF Inv, EditorInv, OperationInv, DiskInv, Written, LoadedIsOnDisk, Ready
<1>. QED
  BY <1>1, InvCorrect, PTL

\* A save writes the text the user sees.
THEOREM SavedCorrect == Spec => SavedIsShown
<1>1. ASSUME Inv
      PROVE  (Replace /\ target' # target /\ op.kind = "save") =>
                target' = session.draft
  BY <1>1 DEF Inv, EditorInv, OperationInv, SessionInv, Replace, Replaced
<1>. QED
  BY <1>1, InvCorrect, PTL DEF SavedIsShown

\* A restore that has not replaced the target keeps its source.
THEOREM SourceCorrect == Spec => SourceOutlivesRestore
<1>1. ASSUME Inv, [Next]_vars
      PROVE  (op.kind = "restore" /\ (op.step = "temp" \/ temp # None)) =>
                \A b \in backups : b.id = op.source => b \in backups'
  <2>. SUFFICES ASSUME op.kind = "restore", op.step = "temp" \/ temp # None,
                       NEW b \in backups, b.id = op.source
                PROVE  b \in backups'
    OBVIOUS
  <2>1. op.step # "prune" /\ op.kind # "none"
    BY <1>1 DEF Inv, EditorInv, OperationInv
  <2>2. CASE CopyBackup
    <3>1. op.backup # op.source
      <4>1. op.step = "copy"
        BY <2>2 DEF CopyBackup
      <4>. QED
        BY <1>1, <4>1 DEF Inv, EditorInv, BackupInv
    <3>. QED
      BY <1>1, <2>2, <3>1 DEF CopyBackup, Own
  <2>3. op.step # "idle"
    BY <1>1, IdleFields DEF Inv, EditorInv, OperationInv
  <2>4. CASE ~CopyBackup
    BY <1>1, <2>1, <2>3, <2>4
    DEF Next, Open, SwitchMode, ApplyRaw, SetValue, Revert, Edits, Save,
        Restore, SaveBegins, RestoreBegins, Write, WriterStep, CreateBackup,
        Prune, CreateTemp, FillTemp, Replace, SaveDone, RestoreDone, Ended,
        Outside, OutsideWrites, Crash, WriterDies, Ready, fileVars, vars
  <2>. QED
    BY <2>2, <2>4
<1>. QED
  BY <1>1, InvCorrect, PTL DEF Spec, SourceOutlivesRestore

-----------------------------------------------------------------------------
(* What RESTORE BACKUP can bring back                                      *)

\* The newer backups that a failed copy cannot take away again.
Settled(id) == {b \in Newer(id) : op.step = "copy" => b.id # op.backup}

Secure(id) ==
  \/ \E b \in backups : b.id = id /\ b.content # Partial
  \/ Cardinality(Settled(id)) >= Retention

\* A backup is complete and there, or as many newer ones as retention keeps
\* pushed it out: of the latest one, and of the one a running operation made.
RestorableInv ==
  /\ IsFiniteSet(backups)
  /\ latest # None => Secure(latest)
  /\ op.backup # None /\ op.step # "copy" => Secure(op.backup)

\* A finite set of backups that is not empty has a newest one.
LEMMA NewestExists ==
  ASSUME Inv, NEW B \in SUBSET backups, B # {}
  PROVE  \E b \in B : \A x \in B : x.id <= b.id
<1>. DEFINE Ages == {n \in Nat : \E b \in B : n + b.id = made}
<1>1. \A b \in B : b.id \in Nat /\ b.id < made /\ made \in Nat
  BY BackupFields DEF Inv, EditorInv, BackupInv, TypeOK, FilesTyped
<1>2. \A b \in B : made - b.id \in Ages
  BY <1>1
<1>3. Ages # {} /\ Ages \subseteq Nat
  BY <1>2
<1>4. PICK n \in Ages : \A m \in Ages : ~ (<<m, n>> \in OpToRel(<, Nat))
  <2>. HIDE DEF Ages
  <2>. QED
    BY <1>3, NatLessThanWellFounded, WFMin
<1>5. \A m \in Ages : n <= m
  <2>1. ASSUME NEW m \in Ages, m < n PROVE FALSE
    <3>1. <<m, n>> \in OpToRel(<, Nat)
      BY <2>1 DEF OpToRel
    <3>. QED
      BY <1>4, <3>1
  <2>. QED
    BY <2>1
<1>6. PICK b \in B : n + b.id = made
  OBVIOUS
<1>7. ASSUME NEW x \in B PROVE x.id <= b.id
  <2>1. n <= made - x.id
    BY <1>2, <1>5
  <2>. QED
    BY <1>1, <1>6, <2>1
<1>. QED
  BY <1>7

\* As many newer backups as retention keeps stay so many when they are
\* pruned: the newest backup that goes has that many above it that stay.
LEMMA KeptAbove ==
  ASSUME Inv, IsFiniteSet(backups), NEW id \in Nat,
         Cardinality(Newer(id)) >= Retention
  PROVE  Cardinality({b \in Kept : b.id > id}) >= Retention
<1>. DEFINE Above == {b \in Kept : b.id > id}
            Gone == Newer(id) \ Kept
<1>1. IsFiniteSet(Above)
  BY FS_Subset DEF Kept
<1>2. CASE Gone = {}
  <2>1. Newer(id) \subseteq Above
    BY <1>2 DEF Newer
  <2>2. Cardinality(Newer(id)) <= Cardinality(Above)
    BY <1>1, <2>1, FS_Subset
  <2>. QED
    BY <1>1, <2>1, <2>2, FS_Subset, FS_CardinalityType, WriterAssumption
    DEF WriterAssumption
<1>3. CASE Gone # {}
  <2>1. PICK b \in Gone : \A x \in Gone : x.id <= b.id
    BY <1>3, NewestExists DEF Newer
  <2>2. b \in backups /\ b.id > id /\ b \notin Kept
    BY <2>1 DEF Newer
  <2>3. \A x \in backups : x.id \in Nat
    BY BackupFields
  <2>4. Newer(b.id) \subseteq Above
    BY <2>1, <2>2, <2>3 DEF Newer
  <2>5. Cardinality(Newer(b.id)) <= Cardinality(Above)
    BY <1>1, <2>4, FS_Subset
  <2>6. ~(Cardinality(Newer(b.id)) < Retention)
    BY <2>2 DEF Kept
  <2>7. Cardinality(Newer(b.id)) \in Nat /\ Cardinality(Above) \in Nat
    BY <1>1, <2>4, FS_Subset, FS_CardinalityType
  <2>. QED
    BY <2>5, <2>6, <2>7, WriterAssumption DEF WriterAssumption
<1>. QED
  BY <1>2, <1>3

\* A backup that retention removes is newer ones' to replace.
LEMMA GoneIsCovered ==
  ASSUME NEW b \in backups \ Kept, IsFiniteSet(backups)
  PROVE  Cardinality(Newer(b.id)) >= Retention
<1>1. ~(Cardinality(Newer(b.id)) < Retention)
  BY DEF Kept
<1>2. Cardinality(Newer(b.id)) \in Nat
  BY FS_Subset, FS_CardinalityType DEF Newer
<1>. QED
  BY <1>1, <1>2, WriterAssumption DEF WriterAssumption

\* What covers a backup covers it in every larger set of backups.
LEMMA Covers ==
  ASSUME IsFiniteSet(backups'), NEW id, NEW S \in SUBSET Settled(id)',
         Cardinality(S) >= Retention
  PROVE  Secure(id)'
<1>1. IsFiniteSet(Settled(id)')
  BY FS_Subset DEF Settled, Newer
<1>2. Cardinality(S) <= Cardinality(Settled(id)')
  BY <1>1, FS_Subset
<1>3. IsFiniteSet(S)
  BY <1>1, FS_Subset
<1>4. Cardinality(S) \in Nat /\ Cardinality(Settled(id)') \in Nat
  BY <1>1, <1>3, FS_CardinalityType
<1>. QED
  BY <1>2, <1>4, WriterAssumption DEF WriterAssumption, Secure

\* A step that removes no complete backup, and none that counts.
LEMMA SecureKept ==
  ASSUME IsFiniteSet(backups'), NEW id, Secure(id),
         \A b \in backups : b.id = id /\ b.content # Partial => b \in backups',
         Settled(id) \subseteq Settled(id)'
  PROVE  Secure(id)'
<1>1. CASE \E b \in backups : b.id = id /\ b.content # Partial
  BY <1>1 DEF Secure
<1>2. CASE Cardinality(Settled(id)) >= Retention
  BY <1>2, Covers
<1>. QED
  BY <1>1, <1>2 DEF Secure

LEMMA RestorableKept ==
  ASSUME RestorableInv, UNCHANGED backups, op'.step # "copy",
         \/ latest' \in {latest, None}
         \/ latest' = op.backup /\ op.step # "copy",
         \/ op'.backup = None
         \/ op'.backup = op.backup /\ op.step # "copy"
  PROVE  RestorableInv'
<1>1. \A id : Secure(id) => Secure(id)'
  <2>1. ASSUME NEW id, Secure(id) PROVE Secure(id)'
    <3>1. Settled(id) \subseteq Settled(id)'
      BY DEF Settled, Newer
    <3>. QED
      BY <2>1, <3>1, SecureKept DEF RestorableInv
  <2>. QED
    BY <2>1
<1>. QED
  BY <1>1 DEF RestorableInv

LEMMA CreateBackupRestorable ==
  ASSUME Inv, RestorableInv, CreateBackup, UNCHANGED Others
  PROVE  RestorableInv'
<1>1. UNCHANGED latest /\ op.step = "backup" /\ op \in Operations
  BY DEF CreateBackup, Others, editorVars, Inv, TypeOK, FilesTyped
<1>2. CASE Fails /\ UNCHANGED backups
  BY <1>1, <1>2, IdleFields, RestorableKept DEF Fails
<1>3. CASE /\ backups' = backups \cup {[id |-> made, content |-> Partial]}
           /\ op' = [op EXCEPT !.step = "copy", !.backup = made]
  <2>1. op'.step = "copy" /\ op'.backup = made
    BY <1>1, <1>3 DEF Operations
  <2>2. IsFiniteSet(backups')
    BY <1>3, FS_AddElement DEF RestorableInv
  <2>3. ASSUME latest # None PROVE Settled(latest) \subseteq Settled(latest)'
    <3>1. \A b \in backups : b.id # made
      BY BackupFields DEF Inv, EditorInv, BackupInv, TypeOK, FilesTyped
    <3>. QED
      BY <1>1, <1>3, <2>1, <3>1 DEF Settled, Newer
  <2>4. latest # None => Secure(latest)'
    BY <1>1, <1>3, <2>2, <2>3, SecureKept DEF RestorableInv
  <2>. QED
    BY <1>1, <2>1, <2>2, <2>4 DEF RestorableInv, Secure, Settled, Newer
<1>. QED
  BY <1>2, <1>3 DEF CreateBackup

LEMMA CopyBackupRestorable ==
  ASSUME Inv, RestorableInv, CopyBackup, UNCHANGED Others
  PROVE  RestorableInv'
<1>1. /\ UNCHANGED latest /\ op.step = "copy" /\ op \in Operations
      /\ op.backup # None /\ op.backup # latest
  BY DEF CopyBackup, Others, editorVars, Inv, EditorInv, BackupInv, TypeOK,
     FilesTyped
<1>2. CASE Fails /\ UNCHANGED backups
  BY <1>1, <1>2, IdleFields, RestorableKept DEF Fails
<1>3. CASE Fails /\ backups' = backups \ Own
  <2>1. op'.step # "copy" /\ op'.backup = None
    BY <1>3, IdleFields DEF Fails
  <2>2. IsFiniteSet(backups')
    BY <1>3, FS_Subset DEF RestorableInv
  <2>3. ASSUME latest # None PROVE Settled(latest) \subseteq Settled(latest)'
    BY <1>1, <1>3, <2>1 DEF Settled, Newer, Own
  <2>4. latest # None => Secure(latest)'
    BY <1>1, <1>3, <2>2, <2>3, SecureKept DEF RestorableInv, Own
  <2>. QED
    BY <1>1, <2>1, <2>2, <2>4 DEF RestorableInv, Secure, Settled, Newer
<1>4. CASE /\ target # None
           /\ backups' = (backups \ Own) \cup
                           {[id |-> op.backup, content |-> target]}
           /\ Goes(AfterCopy)
  <2>1. op'.step # "copy" /\ op'.backup = op.backup
    BY <1>1, <1>4 DEF Goes, AfterCopy, Operations
  <2>2. IsFiniteSet(backups')
    <3>1. IsFiniteSet(backups \ Own)
      BY FS_Subset DEF RestorableInv
    <3>. QED
      BY <1>4, <3>1, FS_AddElement
  <2>3. ASSUME latest # None PROVE Settled(latest) \subseteq Settled(latest)'
    BY <1>1, <1>4, <2>1 DEF Settled, Newer, Own
  <2>4. latest # None => Secure(latest)'
    BY <1>1, <1>4, <2>2, <2>3, SecureKept DEF RestorableInv, Own
  <2>5. Secure(op.backup)'
    <3>. DEFINE filled == [id |-> op.backup, content |-> target]
    <3>1. filled \in backups' /\ filled.id = op'.backup
      BY <1>4, <2>1
    <3>2. filled.content # Partial
      BY DEF Inv, EditorInv, OperationInv
    <3>. QED
      BY <3>1, <3>2 DEF Secure
  <2>. QED
    BY <1>1, <2>1, <2>2, <2>4, <2>5 DEF RestorableInv, Secure, Settled, Newer
<1>. QED
  BY <1>2, <1>3, <1>4 DEF CopyBackup

\* Pruning, complete or stopped by a removal that failed.
LEMMA PruneSecure ==
  ASSUME Inv, RestorableInv, Prune, NEW id \in Nat, Secure(id)
  PROVE  Secure(id)'
<1>1. /\ op.step = "prune" /\ op \in Operations
      /\ op'.step # "copy"
  BY IdleFields DEF Prune, PruneFails, Fails, Goes, AfterPrune, Inv, TypeOK,
     FilesTyped, Operations
<1>2. IsFiniteSet(backups') /\ backups' \subseteq backups
  BY FS_Subset DEF Prune, PruneFails, Kept, RestorableInv
<1>3. /\ \A k : Settled(k) = Newer(k)
      /\ \A k : Settled(k)' = {b \in backups' : b.id > k}
  BY <1>1 DEF Settled, Newer
<1>4. \A b \in backups : b.id \in Nat
  BY BackupFields
<1>5. CASE UNCHANGED backups
  BY <1>2, <1>3, <1>5, SecureKept DEF Newer
<1>6. CASE backups' = Kept
  <2>1. CASE \E b \in Kept : b.id = id /\ b.content # Partial
    BY <1>6, <2>1 DEF Secure
  <2>2. CASE ~ \E b \in Kept : b.id = id /\ b.content # Partial
    <3>1. Cardinality(Newer(id)) >= Retention
      BY <1>3, <2>2, GoneIsCovered DEF Secure, RestorableInv
    <3>2. Cardinality({b \in Kept : b.id > id}) >= Retention
      BY <3>1, KeptAbove DEF RestorableInv
    <3>. QED
      BY <1>2, <1>3, <1>6, <3>2, Covers
  <2>. QED
    BY <2>1, <2>2
<1>7. CASE PruneFails
  <2>1. PICK b \in backups \ Kept : backups' = {x \in backups : x.id >= b.id}
    BY <1>7 DEF PruneFails
  <2>2. CASE id < b.id
    <3>1. Newer(b.id) \subseteq Settled(id)'
      BY <1>3, <1>4, <2>1, <2>2 DEF Newer
    <3>. QED
      BY <1>2, <2>1, <3>1, GoneIsCovered, Covers DEF RestorableInv
  <2>3. CASE b.id <= id
    <3>1. Newer(id) \subseteq Settled(id)'
      BY <1>3, <1>4, <2>1, <2>3 DEF Newer
    <3>. QED
      BY <1>2, <1>3, <2>1, <2>3, <3>1, SecureKept
  <2>. QED
    BY <1>4, <2>2, <2>3
<1>. QED
  BY <1>5, <1>6, <1>7 DEF Prune

LEMMA PruneRestorable ==
  ASSUME Inv, RestorableInv, Prune, UNCHANGED Others
  PROVE  RestorableInv'
<1>1. /\ op.step = "prune" /\ op \in Operations
      /\ op'.backup \in {op.backup, None}
      /\ latest' = latest
  BY IdleFields DEF Prune, PruneFails, Fails, Goes, AfterPrune, Inv, TypeOK,
     FilesTyped, Operations, Others, editorVars
<1>2. IsFiniteSet(backups')
  BY FS_Subset DEF Prune, PruneFails, Kept, RestorableInv
<1>3. /\ latest # None => latest \in Nat
      /\ op.backup # None => op.backup \in Nat
  BY <1>1 DEF Inv, TypeOK, Operations
<1>4. \A id \in Nat : Secure(id) => Secure(id)'
  BY PruneSecure
<1>5. /\ (latest # None => Secure(latest))'
      /\ (op.backup # None => Secure(op.backup))'
  BY <1>1, <1>3, <1>4 DEF RestorableInv, Secure, Settled, Newer
<1>. QED
  BY <1>1, <1>2, <1>5 DEF RestorableInv, Secure, Settled, Newer

LEMMA NextRestorable ==
  ASSUME Inv, RestorableInv, [Next]_vars PROVE RestorableInv'
<1>1. op \in Operations
  BY DEF Inv, TypeOK, FilesTyped
<1>2. ASSUME Write PROVE RestorableInv'
  <2>1. UNCHANGED Others
    BY <1>2 DEF Write, Others
  <2>2. CASE CreateBackup \/ CopyBackup \/ Prune
    BY <2>1, <2>2, CreateBackupRestorable, CopyBackupRestorable,
       PruneRestorable
  <2>3. CASE CreateTemp \/ FillTemp \/ Replace
    <3>1. UNCHANGED <<backups, latest>> /\ op.step # "copy"
      BY <2>1, <2>3 DEF CreateTemp, FillTemp, Replace, Others, editorVars
    <3>2. op' = Idle \/ \E step \in {"fill", AfterFill, AfterReplace} : Goes(step)
      BY <2>3 DEF CreateTemp, FillTemp, Replace, Fails, Filled, FillFails,
         FlushFails, Replaced
    <3>3. /\ AfterFill # "copy" /\ AfterReplace # "copy"
      BY DEF AfterFill, AfterReplace, BackedUpOr
    <3>4. op'.step # "copy" /\ op'.backup \in {op.backup, None}
      BY <1>1, <3>2, <3>3, IdleFields DEF Goes, Operations
    <3>. QED
      BY <3>1, <3>4, RestorableKept
  <2>. QED
    BY <1>2, <2>2, <2>3 DEF Write, WriterStep
<1>3. CASE Save \/ Restore
  <2>1. UNCHANGED <<backups, latest>>
    BY <1>3 DEF Save, Restore, SaveBegins, RestoreBegins, editorVars
  <2>2. op'.step # "copy" /\ op'.backup = None
    BY <1>3 DEF Save, Restore, SaveBegins, RestoreBegins, BackedUpOr, Idle
  <2>. QED
    BY <2>1, <2>2, RestorableKept
<1>4. CASE SaveDone \/ RestoreDone
  <2>1. UNCHANGED backups /\ op.step = "done" /\ latest' \in {latest, op.backup}
    BY <1>4 DEF SaveDone, RestoreDone, Ended, Reloaded
  <2>2. op'.step # "copy" /\ op'.backup = None
    BY <1>4, IdleFields DEF SaveDone, RestoreDone, Ended
  <2>. QED
    BY <2>1, <2>2, RestorableKept
<1>5. CASE Crash
  BY <1>5, IdleFields, RestorableKept DEF Crash, WriterDies
<1>6. CASE Open
  <2>1. op.step = "idle" /\ UNCHANGED <<backups, op>> /\ latest' = None
    BY <1>6 DEF Open, Ready, fileVars
  <2>. QED
    BY <2>1, RestorableKept
<1>7. CASE UNCHANGED <<backups, op, latest>>
  BY <1>7 DEF RestorableInv, Secure, Settled, Newer
<1>. QED
  BY <1>2, <1>3, <1>4, <1>5, <1>6, <1>7
  DEF Next, SwitchMode, ApplyRaw, SetValue, Revert, Edits, Outside,
      OutsideWrites, fileVars, vars

\* RESTORE BACKUP keeps what it names: for any retention and any run of saves,
\* restores, failed copies, half-done prunings and deaths of the program, the
\* latest backup is there and complete until as many newer ones exist as
\* prune_backups keeps.
THEOREM RestorableCorrect == Spec => []LatestIsRestorable
<1>1. Init => RestorableInv
  BY FS_EmptySet, IdleFields DEF Init, FilesInit, RestorableInv
<1>2. Inv /\ RestorableInv /\ [Next]_vars => RestorableInv'
  BY NextRestorable
<1>3. Inv /\ RestorableInv => LatestIsRestorable
  <2>. SUFFICES ASSUME Inv, RestorableInv, latest # None,
                       Cardinality(Settled(latest)) >= Retention
                PROVE  Cardinality(Newer(latest)) >= Retention
    BY DEF RestorableInv, Secure, LatestIsRestorable
  <2>1. IsFiniteSet(Newer(latest)) /\ Settled(latest) \subseteq Newer(latest)
    BY FS_Subset DEF RestorableInv, Newer, Settled
  <2>2. Cardinality(Settled(latest)) <= Cardinality(Newer(latest))
    BY <2>1, FS_Subset
  <2>3. /\ Cardinality(Settled(latest)) \in Nat
        /\ Cardinality(Newer(latest)) \in Nat
    BY <2>1, FS_Subset, FS_CardinalityType
  <2>. QED
    BY <2>2, <2>3, WriterAssumption DEF WriterAssumption
<1>. QED
  BY <1>1, <1>2, <1>3, InvCorrect, PTL DEF Spec

-----------------------------------------------------------------------------
(* Refinement of SafeFile                                                  *)

kept == {b.content : b \in backups} \ {Partial}

\* Backups that are no more, apart from incomplete ones, keep nothing new.
LEMMA KeptShrinks ==
  ASSUME \A b \in backups' : b \in backups \/ b.content = Partial
  PROVE  kept' \subseteq kept
  BY DEF kept

LEMMA KeepStep ==
  ASSUME Inv, UNCHANGED <<target, missed>>,
         \A b \in backups' : b \in backups \/ b.content = Partial
  PROVE  File!Next
<1>1. kept' \subseteq kept /\ None \notin kept
  BY KeptShrinks, BackupFields, Apart DEF kept
<1>2. missed \in BOOLEAN
  BY DEF Inv, TypeOK, FilesTyped
<1>. QED
  BY <1>1, <1>2 DEF File!Next, File!Keep, kept

\* The lost outside write: all others are backed up when they are replaced.
LEMMA ReplaceRefines ==
  ASSUME Inv, Replace
  PROVE  [File!Next]_(File!vars)
<1>1. CASE Replaced
  <2>1. /\ target' \in Contents /\ missed' = FALSE /\ UNCHANGED backups
        /\ Secured
    BY <1>1 DEF Replace, Replaced, Inv, EditorInv, OperationInv
  <2>2. missed \/ target = None \/ target \in kept
    <3>1. CASE [id |-> op.backup, content |-> target] \in backups
      <4>1. target \in {b.content : b \in backups}
        BY <3>1
      <4>2. target # Partial
        BY DEF Inv, EditorInv, OperationInv
      <4>. QED
        BY <4>1, <4>2 DEF kept
    <3>. QED
      BY <2>1, <3>1 DEF Secured
  <2>. QED
    BY <2>1, <2>2 DEF File!Next, File!Replace, kept
<1>2. CASE Fails /\ UNCHANGED <<target, missed>>
  BY <1>2 DEF Replace, File!vars
<1>. QED
  BY <1>1, <1>2 DEF Replace

LEMMA CopyRefines ==
  ASSUME Inv, CopyBackup
  PROVE  [File!Next]_(File!vars)
<1>1. CASE UNCHANGED missed /\ backups' \subseteq backups
  BY <1>1, KeepStep DEF CopyBackup
<1>2. CASE /\ target # None
           /\ backups' = (backups \ Own) \cup
                           {[id |-> op.backup, content |-> target]}
           /\ missed' = FALSE
  <2>1. kept' \subseteq (kept \cup {target}) \ {None}
    BY <1>2, BackupFields, Apart DEF kept
  <2>2. target \in kept'
    <3>1. target # Partial
      BY DEF Inv, EditorInv, OperationInv
    <3>2. target \in {b.content : b \in backups'}
      <4>. DEFINE saved == [id |-> op.backup, content |-> target]
      <4>1. saved \in backups'
        BY <1>2
      <4>2. saved.content = target
        OBVIOUS
      <4>. QED
        BY <4>1, <4>2
    <3>. QED
      BY <3>1, <3>2 DEF kept
  <2>3. missed \in BOOLEAN /\ UNCHANGED target
    BY DEF CopyBackup, Inv, TypeOK, FilesTyped
  <2>. QED
    BY <1>2, <2>1, <2>2, <2>3 DEF File!Next, File!Keep, kept
<1>. QED
  BY <1>1, <1>2 DEF CopyBackup

\* Every step of the editor and the writer is one of SafeFile: backups are
\* Keep, the replacement is Replace, the writes of others are Outside.
THEOREM Implements == Spec => ImplementsSafeFile
<1>1. Init => File!Init
  BY DEF Init, FilesInit, File!Init
<1>2. ASSUME Inv, [Next]_vars
      PROVE  [File!Next]_(File!vars)
  <2>1. CASE Replace
    BY <1>2, <2>1, ReplaceRefines
  <2>2. CASE CopyBackup
    BY <1>2, <2>2, CopyRefines
  <2>3. CASE Prune
    <3>1. backups' \subseteq backups
      BY <2>3 DEF Prune, PruneFails, Kept
    <3>. QED
      BY <1>2, <2>3, <3>1, KeepStep DEF Prune
  <2>4. CASE CreateBackup
    BY <1>2, <2>4, KeepStep DEF CreateBackup
  <2>5. CASE Outside
    BY <2>5 DEF Outside, OutsideWrites, File!Next, File!Outside
  <2>6. CASE UNCHANGED <<target, backups, missed>>
    BY <2>6 DEF File!vars
  <2>. QED
    BY <1>2, <2>1, <2>2, <2>3, <2>4, <2>5, <2>6
    DEF Next, Open, SwitchMode, ApplyRaw, SetValue, Revert, Edits, Save,
        Restore, SaveBegins, RestoreBegins, Write, WriterStep, CreateTemp,
        FillTemp, SaveDone, RestoreDone, Ended, Crash, WriterDies, fileVars,
        vars
<1>. QED
  BY <1>1, <1>2, InvCorrect, PTL DEF Spec, ImplementsSafeFile, File!Spec
=============================================================================
