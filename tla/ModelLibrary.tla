---------------------------- MODULE ModelLibrary ----------------------------
(***************************************************************************)
(* The model library (model_library.rs, model_library_ui.rs): a page that  *)
(* runs one operation at a time on a thread, and scans that walk a folder  *)
(* and bring the tables of ModelStore up to date while files are written,  *)
(* moved, locked and deleted.  Leaving the page drops its state: a thread  *)
(* that is still running goes on without it, next to the threads of the    *)
(* page that is opened next, until it writes to the dropped state.         *)
(***************************************************************************)
EXTENDS ModelStore

CONSTANTS
    Workers,        \* threads
    Beneath,        \* folder -> the paths that start with it
    Listed,         \* folder -> those of them that a walk of it can list
    Operations,     \* what the user asks for: [kind, arg, target]
    InitialDisk,
    Changing,       \* bound: the paths whose files change
    MaxOperations,  \* bound: operations begun or cancelled, runtimes selected, times the page is left
    MaxIncidents    \* bound: changes of files and locks, statements that fail

(* A walk follows no link and lists files named *.gguf only: what lies     *)
(* behind a link beneath the folder, or has another name, is not listed.   *)
ASSUME LibraryAssumption ==
    /\ None \notin Workers \cup Paths \cup Contents
    /\ None \notin Files \cup LocationRows \cup ProjectorRows
    /\ InitialDisk \in [Paths -> Files \cup {None}] /\ Changing \subseteq Paths
    /\ \A c \in Contents : Info[c].kind \in {"model", "projector", "malformed"}
    /\ \A folder \in DOMAIN Beneath :
        Beneath[folder] \subseteq Paths /\ Listed[folder] \subseteq Beneath[folder]
    /\ \A op \in Operations : op.kind = "Scan" => op.arg \in DOMAIN Beneath
    /\ \A op \in Operations :
        op.kind \in {"AddModel", "AddProjector", "RelinkModel", "RelinkProjector"}
        => op.arg \in Paths

VARIABLES
    disk,       \* path -> a file [content, stamp], or None
    past,       \* history: path -> the files that were there and left
    locked,     \* paths whose file cannot be opened
    db,         \* the tables
    runtime,    \* latest_installation
    page,       \* [mount, activity, token, shown]
    workers,    \* thread -> its state, or None
    spent       \* [operations, incidents]

vars == <<disk, past, locked, db, runtime, page, workers, spent>>

Empty == Snapshot(EmptyStore, None)

Init ==
    /\ disk = InitialDisk /\ locked = {}
    /\ past = [p \in Paths |-> {}]
    /\ db = EmptyStore
    /\ runtime = None
    /\ page = [mount |-> 1, activity |-> "Idle", token |-> None, shown |-> Empty]
    /\ workers = [w \in Workers |-> None]
    /\ spent = [operations |-> 0, incidents |-> 0]

Readable(p) == disk[p] # None /\ p \notin locked
KindAt(p) == Info[disk[p].content].kind
HoldsModel(p) == Readable(p) /\ KindAt(p) = "model"
CameBack(p) == disk[p] \in past[p]

Incident ==
    /\ spent.incidents < MaxIncidents
    /\ spent' = [spent EXCEPT !.incidents = @ + 1]

-----------------------------------------------------------------------------
(* The page.                                                               *)

(* model_location_state: one file that is there is enough.                 *)
LocationLabel(item) ==
    LET states == {location[2] : location \in item.locations} IN
    CASE "present" \in states -> "PRESENT"
      [] "present" \notin states /\ "unreadable" \in states -> "UNREADABLE"
      [] OTHER -> "MISSING"

(* model_card, projector_row, ModelLibraryView: the buttons the page shows *)
(* are those of the snapshot it took when the last operation ended.        *)
OfferedOnModel(op) ==
    LET Item(m) == page.shown.models[m] IN
    /\ op.kind \in {"Associate", "RelinkModel", "RemoveModel"}
    /\ IF op.kind = "Associate"
       THEN /\ op.arg \in DOMAIN page.shown.models
            /\ \E choice \in Item(op.arg).choices :
                  choice[1] = op.target /\ choice[2] # "Incompatible"
       ELSE /\ op.target \in DOMAIN page.shown.models
            /\ op.kind = "RelinkModel" => LocationLabel(Item(op.target)) # "PRESENT"
OfferedOnProjector(op) ==
    /\ op.kind \in {"RelinkProjector", "RemoveProjector"}
    /\ \E row \in page.shown.projectors :
          row[1] = op.target /\ (op.kind = "RelinkProjector" => row[2] # "present")
Offered(op) ==
    \/ op.kind \in {"Scan", "AddModel", "AddProjector", "Refresh"}
    \/ op.kind = "Recheck" /\ page.shown.runtime # None
    \/ OfferedOnModel(op) \/ OfferedOnProjector(op)

FirstStep(kind) ==
    CASE kind = "Scan" -> "walk"
      [] kind \in {"AddModel", "AddProjector", "RelinkModel", "RelinkProjector"} -> "read"
      [] kind = "Recheck" -> "recompute"
      [] OTHER -> "apply"

(* The thread of an operation.  The last two fields are history of a scan: *)
(* the paths that held no readable model at some time since then, and      *)
(* whether nothing but this thread touched files or tables since then.     *)
Thread(op, step) ==
    [pc |-> step, op |-> op, mount |-> page.mount,
     left |-> IF op.kind = "Scan" THEN Listed[op.arg] ELSE {},
     path |-> None, fingerprint |-> None, content |-> None,
     models |-> {}, projectors |-> {},
     runtime |-> None, todo |-> {}, verdict |-> None, shown |-> None,
     cancel |-> FALSE,
     excused |-> IF step = "walk" THEN {p \in Paths : ~HoldsModel(p)} ELSE {},
     clean |-> step = "walk"]

(* begin_scan, begin_add_model, ...: the store may fail to open.           *)
Begin(w) ==
    /\ page.activity = "Idle" /\ workers[w] = None
    /\ spent.operations < MaxOperations
    /\ \E op \in {op \in Operations : Offered(op)} :
        \E step \in {FirstStep(op.kind)} \cup
                    (IF spent.incidents < MaxIncidents THEN {"finish"} ELSE {}) :
            /\ workers' = [workers EXCEPT ![w] = Thread(op, step)]
            /\ page' = [page EXCEPT !.activity = op.kind,
                        !.token = IF op.kind = "Scan" THEN w ELSE @]
            /\ spent' = [spent EXCEPT !.operations = @ + 1,
                         !.incidents = IF step = "finish" THEN @ + 1 ELSE @]
    /\ UNCHANGED <<disk, past, locked, db, runtime>>

CancelScan ==
    /\ spent.operations < MaxOperations
    /\ page.token # None /\ workers[page.token] # None
    /\ ~workers[page.token].cancel
    /\ workers' = [workers EXCEPT ![page.token].cancel = TRUE]
    /\ spent' = [spent EXCEPT !.operations = @ + 1]
    /\ UNCHANGED <<disk, past, locked, db, runtime, page>>

(* The surface is left and opened again: use_signal_sync makes a new state,*)
(* from the tables, or an empty one when they cannot be loaded; the old one*)
(* is dropped with its token.                                              *)
LeaveAndReturn ==
    /\ spent.operations < MaxOperations
    /\ \E loaded \in {TRUE} \cup (IF spent.incidents < MaxIncidents THEN {FALSE} ELSE {}) :
        /\ spent' = [spent EXCEPT !.operations = @ + 1,
                     !.incidents = IF loaded THEN @ ELSE @ + 1]
        /\ page' = [mount |-> page.mount + 1, activity |-> "Idle", token |-> None,
                    shown |-> IF loaded THEN Snapshot(db, runtime) ELSE Empty]
    /\ UNCHANGED <<disk, past, locked, db, runtime, workers>>

Orphan(r) == r.mount # page.mount
Scanning(r) ==
    r.pc \in {"walk", "fingerprint", "mark", "markProjector", "lookup", "touch", "lookupProjector",
              "touchProjector", "inspect", "save", "reconcile", "reconcileProjectors"}

-----------------------------------------------------------------------------
(* The threads: a scan.                                                    *)

At(w, pc) == workers[w] # None /\ workers[w].pc = pc

(* The thread goes on as r.                                                *)
Move(w, r) ==
    /\ workers' = [workers EXCEPT ![w] = r]
    /\ UNCHANGED <<disk, past, locked, db, runtime, page, spent>>

(* The thread goes on as r, the tables become new: the other threads were  *)
(* disturbed when that changed them.                                       *)
Commit(w, r, new) ==
    /\ db' = new
    /\ workers' = [v \in Workers |->
        IF v = w THEN r
        ELSE IF workers[v] = None \/ new = db THEN workers[v]
        ELSE [workers[v] EXCEPT !.clean = FALSE]]
    /\ UNCHANGED <<disk, past, locked, runtime, page, spent>>

(* A statement that fails.                                                 *)
Fail(w, r) ==
    /\ Incident
    /\ workers' = [workers EXCEPT ![w] = r]
    /\ UNCHANGED <<disk, past, locked, db, runtime, page>>

(* on_progress writes the state of the page: the thread of a page that was *)
(* left ends there, by a panic.                                            *)
Progress(r) == IF Orphan(r) THEN None ELSE r

(* What the operation itself worked with is gone.  Whether it succeeded is *)
(* told in the notice of the page, which is left out.                      *)
Over(r, pc) ==
    [r EXCEPT !.pc = pc, !.left = {}, !.path = None, !.fingerprint = None, !.content = None,
              !.models = {}, !.projectors = {}, !.runtime = None, !.todo = {},
              !.verdict = None, !.excused = {}, !.clean = FALSE]
Failed(r) == Over(r, "finish")
Skipped(r) == [r EXCEPT !.excused = @ \cup {r.path}, !.clean = FALSE]
Back(r) == Progress([r EXCEPT !.pc = "walk", !.path = None, !.fingerprint = None,
                              !.content = None])

(* scan_root, the loop: the cancellation is looked at before each entry.   *)
Walk(w) ==
    LET r == workers[w] IN
    /\ At(w, "walk")
    /\ \/ r.cancel /\ Move(w, [r EXCEPT !.pc = "summary"])
       \/ ~r.cancel /\ r.left = {} /\ Move(w, [r EXCEPT !.pc = "reconcile"])
       \/ /\ ~r.cancel
          /\ \E p \in r.left :
              LET rest == [r EXCEPT !.left = @ \ {p}] IN
              Move(w, IF disk[p] = None THEN rest
                      ELSE Progress([rest EXCEPT !.pc = "fingerprint", !.path = p]))

(* An entry of the walk that is an error, a folder that cannot be listed.  *)
WalkError(w) ==
    LET r == workers[w] IN
    /\ At(w, "walk") /\ ~r.cancel
    /\ \E p \in r.left : Fail(w, Progress(
            [r EXCEPT !.left = @ \ {p}, !.excused = @ \cup {p}, !.clean = FALSE]))

(* fingerprint_file reads the file a first time.                           *)
Fingerprint(w) ==
    LET r == workers[w] IN
    /\ At(w, "fingerprint")
    /\ Move(w, IF Readable(r.path)
               THEN [r EXCEPT !.pc = "lookup", !.fingerprint = disk[r.path]]
               ELSE [r EXCEPT !.pc = "mark"])

(* A file that cannot be read or inspected: mark_known_path_unreadable; the*)
(* second statement is not reached when the first fails.                   *)
Mark(w) ==
    LET r == workers[w] IN
    /\ At(w, "mark")
    /\ \/ Commit(w, [r EXCEPT !.pc = "markProjector"], MarkUnreadable(db, r.path))
       \/ Fail(w, Back(r))
MarkProjector(w) ==
    LET r == workers[w] IN
    /\ At(w, "markProjector")
    /\ Commit(w, Back(r), MarkProjectorUnreadable(db, r.path)) \/ Fail(w, Back(r))

(* A row with this fingerprint is not inspected again.  A query that fails *)
(* ends the scan.                                                          *)
KnownModel(r) ==
    db.locations[r.path] # None /\ db.locations[r.path].fingerprint = r.fingerprint
KnownProjector(r) ==
    \E j \in ProjectorsAt(db, r.path) : db.projectors[j].fingerprint = r.fingerprint

Lookup(w) ==
    LET r == workers[w] IN
    /\ At(w, "lookup")
    /\ \/ Move(w, [r EXCEPT !.pc = IF KnownModel(r) THEN "touch" ELSE "lookupProjector"])
       \/ Fail(w, Failed(r))
LookupProjector(w) ==
    LET r == workers[w] IN
    /\ At(w, "lookupProjector")
    /\ \/ Move(w, [r EXCEPT !.pc = IF KnownProjector(r) THEN "touchProjector" ELSE "inspect"])
       \/ Fail(w, Failed(r))

Saw(r) == [r EXCEPT !.models = @ \cup {r.path}]
SawProjector(r) == [r EXCEPT !.projectors = @ \cup {r.path}]

(* A row that cannot be written is skipped: the path is not seen.          *)
TouchRow(w) ==
    LET r == workers[w] IN
    /\ At(w, "touch")
    /\ Commit(w, Back(Saw(r)), Touch(db, r.path)) \/ Fail(w, Back(Skipped(r)))
TouchProjectorRow(w) ==
    LET r == workers[w] IN
    /\ At(w, "touchProjector")
    /\ Commit(w, Back(SawProjector(r)), TouchProjector(db, r.path)) \/ Fail(w, Back(Skipped(r)))

(* inspect_gguf reads the file again.                                      *)
Inspect(w) ==
    LET r == workers[w] IN
    /\ At(w, "inspect")
    /\ Move(w, IF Readable(r.path) /\ KindAt(r.path) # "malformed"
               THEN [r EXCEPT !.pc = "save", !.content = disk[r.path].content]
               ELSE [r EXCEPT !.pc = "mark"])

(* Mutant: what is saved is the fingerprint of the file as it is now.      *)
SaveFingerprintedLate(w) ==
    LET r == workers[w] IN
    /\ At(w, "save")
    /\ disk[r.path] # None /\ Info[r.content].kind = "model"
    /\ Commit(w, Back(Saw(r)), SaveModel(db, disk, r.content, r.path, disk[r.path]))

Save(w) ==
    LET r == workers[w] IN
    /\ At(w, "save")
    /\ \/ /\ Info[r.content].kind = "projector"
          /\ Commit(w, Back(SawProjector(r)), SaveProjector(db, r.content, r.path, r.fingerprint))
       \/ /\ Info[r.content].kind = "model"
          /\ Commit(w, Back(Saw(r)), SaveModel(db, disk, r.content, r.path, r.fingerprint))
       \/ Fail(w, Back(Skipped(r)))

(* The end of a walk that was not cancelled: two transactions, each may    *)
(* fail and the scan goes on.                                              *)
ReconcileModels(w) ==
    LET r == workers[w]
        next == [r EXCEPT !.pc = "reconcileProjectors"]
    IN  /\ At(w, "reconcile")
        /\ \/ Commit(w, next, Reconcile(db, Beneath[r.op.arg], r.models))
           \/ Fail(w, [next EXCEPT !.clean = FALSE])
ReconcileRest(w) ==
    LET r == workers[w]
        next == [r EXCEPT !.pc = "summary"]
    IN  /\ At(w, "reconcileProjectors")
        /\ \/ Commit(w, next, ReconcileProjectors(db, Beneath[r.op.arg], r.projectors))
           \/ Fail(w, [next EXCEPT !.clean = FALSE])

(* save_scan_summary, of a cancelled scan as well: without its summary the *)
(* scan is a failure.                                                      *)
Summary(w) ==
    LET r == workers[w] IN
    /\ At(w, "summary")
    /\ Move(w, Progress(Over(r, "recompute"))) \/ Fail(w, Failed(r))

-----------------------------------------------------------------------------
(* The threads: the other operations, and what all of them end with.       *)

(* manual_add_*, relink_*: what is looked up first, then the fingerprint,  *)
(* then the content.                                                       *)
Known(op) ==
    CASE op.kind = "RelinkModel" -> db.models[op.target] # None
      [] op.kind = "RelinkProjector" -> db.projectors[op.target] # None
      [] OTHER -> TRUE

ReadFile(w) ==
    LET r == workers[w] IN
    /\ At(w, "read")
    /\ Move(w, IF Known(r.op) /\ Readable(r.op.arg)
               THEN [r EXCEPT !.pc = "examine", !.fingerprint = disk[r.op.arg]]
               ELSE Failed(r))
Examine(w) ==
    LET r == workers[w] IN
    /\ At(w, "examine")
    /\ Move(w, IF Readable(r.op.arg)
               THEN [r EXCEPT !.pc = "apply", !.content = disk[r.op.arg].content]
               ELSE Failed(r))

(* What the operation does to the tables, once its file was inspected.     *)
Applies(r, p, target) ==
    LET kind == r.op.kind IN
    CASE kind = "AddModel" -> Info[r.content].kind = "model"
      [] kind = "AddProjector" -> Info[r.content].kind = "projector"
      [] kind = "RelinkModel" ->
            Info[r.content].kind = "model" /\ r.content = target /\ db.models[target] # None
      [] kind = "RelinkProjector" ->
            Info[r.content].kind = "projector" /\ r.content = target
            /\ RelinkableProjector(db, target, p)
      [] kind = "Associate" -> Associable(db, r.op.arg, target)
      [] kind = "RemoveModel" -> LocationsOf(db, target) # {}
      [] kind = "RemoveProjector" -> db.projectors[target] # None
      [] OTHER -> TRUE

Applied(r, p, target) ==
    LET kind == r.op.kind IN
    CASE kind \in {"AddModel", "RelinkModel"} ->
            SaveModel(db, disk, r.content, p, r.fingerprint)
      [] kind = "AddProjector" -> SaveProjector(db, r.content, p, r.fingerprint)
      [] kind = "RelinkProjector" -> RelinkedProjector(db, target, p, r.fingerprint)
      [] kind = "Associate" -> Associate(db, r.op.arg, target)
      [] kind = "RemoveModel" -> RemoveModel(db, target)
      [] kind = "RemoveProjector" -> RemoveProjector(db, target)
      [] kind = "Refresh" -> Refresh(db, disk)

(* The removals end without recomputing compatibility.                     *)
Apply(w) ==
    LET r == workers[w]
        next == IF r.op.kind \in {"RemoveModel", "RemoveProjector"} THEN "finish" ELSE "recompute"
    IN  /\ At(w, "apply")
        /\ \/ /\ Applies(r, r.op.arg, r.op.target)
              /\ Commit(w, Over(r, next), Applied(r, r.op.arg, r.op.target))
           \/ ~Applies(r, r.op.arg, r.op.target) /\ Move(w, Failed(r))
           \/ Fail(w, Failed(r))

(* recompute_if_runtime reads the runtime; RECHECK itself needs one.       *)
Recompute(w) ==
    LET r == workers[w] IN
    /\ At(w, "recompute")
    /\ \/ runtime # None /\ Move(w, [r EXCEPT !.pc = "list", !.runtime = runtime])
       \/ runtime = None /\ Move(w, Failed(r))
       \/ Fail(w, Failed(r))

(* recompute_compatibility: the models that have a location now, then of   *)
(* each the projector associated with it now, then the row of its verdict. *)
ListModels(w) ==
    LET r == workers[w] IN
    /\ At(w, "list")
    /\ Move(w, [r EXCEPT !.pc = "evaluate", !.todo = Listable(db)]) \/ Fail(w, Failed(r))
EvaluateNext(w) ==
    LET r == workers[w] IN
    /\ At(w, "evaluate")
    /\ \/ r.todo = {} /\ Move(w, Over(r, "finish"))
       \/ \E m \in r.todo : Move(w,
            [r EXCEPT !.pc = "store", !.todo = @ \ {m},
                      !.verdict = <<m, Evaluation(m, r.runtime, AssociatedProjector(db, m))>>])
       \/ Fail(w, Failed(r))
StoreVerdict(w) ==
    LET r == workers[w] IN
    /\ At(w, "store")
    /\ \/ Commit(w, [r EXCEPT !.pc = "evaluate", !.verdict = None],
                 SaveCompatibility(db, r.verdict[1], r.verdict[2]))
       \/ Fail(w, Failed(r))

(* finish_operation, load_snapshot: the page's state is read, where the    *)
(* thread of a page that was left panics, then the runtime, then the tables*)
Finish(w) ==
    LET r == workers[w] IN
    /\ At(w, "finish")
    /\ \/ Move(w, Progress([r EXCEPT !.pc = "load", !.runtime = runtime]))
       \/ ~Orphan(r) /\ Fail(w, [r EXCEPT !.pc = "publish"])
Load(w) ==
    LET r == workers[w] IN
    /\ At(w, "load")
    /\ \/ Move(w, [r EXCEPT !.pc = "publish", !.runtime = None, !.shown = Snapshot(db, r.runtime)])
       \/ Fail(w, [r EXCEPT !.pc = "publish", !.runtime = None])

(* Mutant: when nothing could be loaded the page is left as it is.         *)
PublishOnlyLoaded(w) ==
    LET r == workers[w] IN
    /\ At(w, "publish")
    /\ workers' = [workers EXCEPT ![w] = None]
    /\ page' = IF Orphan(r) \/ r.shown = None THEN page
               ELSE [page EXCEPT !.activity = "Idle", !.token = None, !.shown = r.shown]
    /\ UNCHANGED <<disk, past, locked, db, runtime, spent>>

(* finish_operation writes the page, whatever the result: what could not be*)
(* loaded leaves what was shown before.                                    *)
Publish(w) ==
    LET r == workers[w] IN
    /\ At(w, "publish")
    /\ workers' = [workers EXCEPT ![w] = None]
    /\ page' = IF Orphan(r) THEN page
               ELSE [page EXCEPT !.activity = "Idle", !.token = None,
                                 !.shown = IF r.shown = None THEN @ ELSE r.shown]
    /\ UNCHANGED <<disk, past, locked, db, runtime, spent>>

-----------------------------------------------------------------------------
(* The environment.                                                        *)

(* Files or locks changed: no thread is undisturbed any longer.            *)
Disturb(newDisk, newLocked) ==
    /\ Incident
    /\ disk' = newDisk /\ locked' = newLocked
    /\ past' = [p \in Paths |->
        IF newDisk[p] # disk[p] /\ disk[p] # None THEN past[p] \cup {disk[p]} ELSE past[p]]
    /\ <<disk, locked>>' # <<disk, locked>>
    /\ workers' = [w \in Workers |->
        IF workers[w] = None THEN None
        ELSE [workers[w] EXCEPT
                !.clean = FALSE,
                !.excused = IF ~Scanning(workers[w]) THEN @
                            ELSE @ \cup {p \in Paths : disk'[p] # disk[p] \/ p \in locked'}]]
    /\ UNCHANGED <<db, runtime, page>>

WriteFile ==
    \E p \in Changing, c \in Contents :
        /\ ~ (disk[p] # None /\ disk[p].content = c)
        /\ Disturb([disk EXCEPT ![p] = [content |-> c, stamp |-> spent.incidents + 1]], locked)
DeleteFile == \E p \in Changing : Disturb([disk EXCEPT ![p] = None], locked)
MoveFile ==
    \E p, q \in Changing : /\ p # q /\ disk[p] # None
                        /\ Disturb([disk EXCEPT ![q] = disk[p], ![p] = None], locked)
(* Another program opens the file exclusively, or closes it again.         *)
LockFile ==
    \E p \in Changing : disk[p] # None /\ Disturb(disk, IF p \in locked THEN {} ELSE {p})

(* A runtime is selected in the benchmark workspace (save_installation).   *)
SelectRuntime ==
    /\ spent.operations < MaxOperations
    /\ spent' = [spent EXCEPT !.operations = @ + 1]
    /\ \E r \in Runtimes \ {runtime} : runtime' = r
    /\ UNCHANGED <<disk, past, locked, db, page, workers>>

ScanSteps(w) ==
    \/ Walk(w) \/ WalkError(w) \/ Fingerprint(w) \/ Mark(w) \/ MarkProjector(w)
    \/ Lookup(w) \/ LookupProjector(w) \/ TouchRow(w) \/ TouchProjectorRow(w)
    \/ Inspect(w) \/ Save(w) \/ ReconcileModels(w) \/ ReconcileRest(w) \/ Summary(w)
Steps(w) ==
    \/ ScanSteps(w)
    \/ ReadFile(w) \/ Examine(w) \/ Apply(w)
    \/ Recompute(w) \/ ListModels(w) \/ EvaluateNext(w) \/ StoreVerdict(w)
    \/ Finish(w) \/ Load(w) \/ Publish(w)

Next ==
    \/ \E w \in Workers : Begin(w) \/ Steps(w)
    \/ CancelScan \/ LeaveAndReturn \/ SelectRuntime
    \/ WriteFile \/ DeleteFile \/ MoveFile \/ LockFile

Spec == Init /\ [][Next]_vars

(* A thread that was spawned is scheduled.                                 *)
FairSpec == Spec /\ \A w \in Workers : WF_vars(Steps(w))

-----------------------------------------------------------------------------
(* A location turns missing only for a reason.  A refresh found no file.   *)
(* Or a scan that was not cancelled ends beneath whose folder the path is, *)
(* and its walk cannot list the path, or found there, at some time since   *)
(* the scan began, no file, a file it could not read or that is no model,  *)
(* or could not write the row - or the file left its path once and came    *)
(* back, see CompleteScanIsTruth.  So a model that stays where the walk    *)
(* finds it never turns missing, whatever other threads do meanwhile       *)
(* (scan_root, reconcile_model_locations, refresh_location_existence).     *)
MissingHasReason ==
    [][\A p \in Paths :
        /\ db.locations[p] # None /\ db.locations[p].state # "missing"
        /\ db'.locations[p] # None /\ db'.locations[p].state = "missing"
        => \E w \in Workers :
            \/ At(w, "apply") /\ workers[w].op.kind = "Refresh" /\ disk[p] = None
            \/ LET folder == workers[w].op.arg IN
               /\ At(w, "reconcile") /\ p \in Beneath[folder]
               /\ p \notin Listed[folder] \/ p \in workers[w].excused \/ CameBack(p)]_vars

(* docs/evidence/M2_MODEL_LIBRARY_2026-08-18.md:25 of the library's rows:  *)
(* "present/missing/unreadable location evidence".  An undisturbed scan    *)
(* marks as missing only what is not there: not a file it just marked as   *)
(* unreadable, nor one its walk does not list, both of which its           *)
(* reconciliation has not seen (scan_root, reconcile_model_locations).     *)
MissingMeansAbsent ==
    [][\A w \in Workers, p \in Paths :
        /\ At(w, "reconcile") /\ At(w, "reconcileProjectors")' /\ workers[w].clean
        /\ db.locations[p] # None /\ db.locations[p].state # "missing"
        /\ db'.locations[p] # None /\ db'.locations[p].state = "missing"
        => disk[p] = None]_vars

(* What the tables say of a path is true of the file that is there.        *)
RowsAreTrue(tables, p) ==
    LET row == tables.locations[p] IN
    /\ (row # None /\ row.state = "present") <=> HoldsModel(p)
    /\ HoldsModel(p) => row.model = disk[p].content
    /\ \A j \in ProjectorsAt(tables, p) : tables.projectors[j].state = "present" =>
            Readable(p) /\ disk[p].content = j
    /\ Readable(p) /\ KindAt(p) = "projector" =>
            /\ tables.projectors[disk[p].content] # None
            /\ tables.projectors[disk[p].content].state = "present"

(* After a scan that was not cancelled and during which nothing else       *)
(* changed files or tables, the rows of the paths its walk lists are the   *)
(* truth, whatever earlier scans saw, reused or were disturbed by: the     *)
(* fingerprint is read before the inspection, so what was torn is read     *)
(* again.  A file that left its path and came back, size and time          *)
(* unchanged, is left out: a scan between whose two readings another file  *)
(* stood there saved that one's content under this one's fingerprint, and  *)
(* the row is reused (scan_root, model_location_by_path, projector_by_path)*)
CompleteScanIsTruth ==
    [][\A w \in Workers :
        At(w, "reconcileProjectors") /\ At(w, "summary")' /\ workers'[w].clean =>
        \A p \in Listed[workers[w].op.arg] : CameBack(p) \/ RowsAreTrue(db', p)]_vars

(* A verdict that is not marked stale is what the rules say of the runtime *)
(* it is shown with, with some projector or without one: after every       *)
(* operation, successful or not, and on every page that is opened, however *)
(* selections of runtimes, removals and threads of other pages fell between*)
(* the reading of a runtime, the evaluation, its row and the page          *)
(* (recompute_compatibility, is_stale, load_snapshot).                     *)
FreshVerdictsAreOfRuntime ==
    \A m \in DOMAIN page.shown.models :
        LET item == page.shown.models[m] IN
        item.status # None /\ ~item.stale =>
            \E j \in ProjectorIds \cup {None} :
                item.status = Evaluate(m, page.shown.runtime, j)

(* docs/10_COMPLETION_MATRIX.md:107, of the library: "stale entries are    *)
(* represented truthfully".  A verdict that is not marked stale is that of *)
(* the projector it is shown with.  Removing a projector leaves the        *)
(* verdicts that were computed with it, and is_stale looks at the model and*)
(* the runtime only (begin_remove_projector, is_stale).                    *)
StaleEntriesAreMarked ==
    \A m \in DOMAIN page.shown.models :
        LET item == page.shown.models[m] IN
        item.status # None /\ ~item.stale =>
            item.status = Evaluate(m, page.shown.runtime, item.projector)

(* Every operation of the page ends, and its buttons come back: no result, *)
(* no failure and no cancellation leaves the page busy (finish_operation). *)
BusyEnds == page.activity # "Idle" ~> page.activity = "Idle"
=============================================================================
