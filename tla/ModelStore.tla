----------------------------- MODULE ModelStore -----------------------------
(***************************************************************************)
(* The model library's tables (model_store.rs, model_library_actions.rs)   *)
(* and the transactions on them, as functions of the tables:               *)
(*   models     model -> its canonical path                                *)
(*   locations  path -> [model, fingerprint, state]                        *)
(*   projectors projector -> [path, fingerprint, state]                    *)
(*   pairs      <<model, projector>> the user associated, newest first     *)
(*   compat     <<model, runtime id>> -> a stored evaluation               *)
(* None stands for no row.                                                 *)
(***************************************************************************)
EXTENDS Compatibility, Sequences, SequencesExt

CONSTANTS Paths, Runtimes

LocationStates == {"present", "missing", "unreadable"}
RuntimeIds == {r.id : r \in Runtimes}

(* A file, and the rows of a location and of a projector.                  *)
Files == [content : Contents, stamp : Nat]
LocationRows == [model : ModelIds, fingerprint : Files, state : LocationStates]
ProjectorRows == [path : Paths, fingerprint : Files, state : LocationStates]

EmptyStore ==
    [models     |-> [m \in ModelIds |-> None],
     locations  |-> [p \in Paths |-> None],
     projectors |-> [j \in ProjectorIds |-> None],
     pairs      |-> <<>>,
     compat     |-> [mr \in ModelIds \X RuntimeIds |-> None]]

LocationsOf(db, m) == {p \in Paths : db.locations[p] # None /\ db.locations[p].model = m}
ProjectorsAt(db, p) == {j \in ProjectorIds : db.projectors[j] # None /\ db.projectors[j].path = p}

(* save_model_with_location: the canonical path stays while a file exists  *)
(* there, whatever file it is; the row of the path changes its model.      *)
SaveModel(db, disk, m, p, fingerprint) ==
    [db EXCEPT
        !.models[m] = IF @ # None /\ disk[@] # None THEN @ ELSE p,
        !.locations[p] = [model |-> m, fingerprint |-> fingerprint, state |-> "present"]]

(* save_projector: another projector of the path is deleted, and its       *)
(* associations with it (ON DELETE CASCADE).                               *)
SaveProjector(db, j, p, fingerprint) ==
    LET gone == ProjectorsAt(db, p) \ {j} IN
    [db EXCEPT
        !.projectors = [k \in ProjectorIds |->
            IF k = j THEN [path |-> p, fingerprint |-> fingerprint, state |-> "present"]
            ELSE IF k \in gone THEN None ELSE @[k]],
        !.pairs = SelectSeq(@, LAMBDA pair : pair[2] \notin gone)]

(* relink_projector updates the row by its id and fails on the unique path *)
(* of another row.                                                         *)
RelinkableProjector(db, j, p) == db.projectors[j] # None /\ ProjectorsAt(db, p) \subseteq {j}
RelinkedProjector(db, j, p, fingerprint) ==
    [db EXCEPT !.projectors[j] = [path |-> p, fingerprint |-> fingerprint, state |-> "present"]]

(* Sets the state of the locations, or of the projectors, of some paths.   *)
SetLocations(db, ps, state) ==
    [db EXCEPT !.locations = [p \in Paths |->
        IF p \in ps /\ @[p] # None THEN [@[p] EXCEPT !.state = state] ELSE @[p]]]
SetProjectors(db, ps, state) ==
    [db EXCEPT !.projectors = [j \in ProjectorIds |->
        IF @[j] # None /\ @[j].path \in ps THEN [@[j] EXCEPT !.state = state] ELSE @[j]]]

(* touch_model_location, touch_projector, and the two statements of         *)
(* mark_known_path_unreadable: each commits on its own, and does nothing   *)
(* when the row is gone.                                                   *)
Touch(db, p) == SetLocations(db, {p}, "present")
TouchProjector(db, p) == SetProjectors(db, {p}, "present")
MarkUnreadable(db, p) == SetLocations(db, {p}, "unreadable")
MarkProjectorUnreadable(db, p) == SetProjectors(db, {p}, "unreadable")

(* Mutant: what was not seen is missing, beneath the scanned root or not.  *)
ReconcileEverything(db, beneath, seen) == SetLocations(db, Paths \ seen, "missing")

(* reconcile_model_locations, reconcile_projectors: every stored path that *)
(* starts with the root, whether a walk of the root would list it or not.  *)
Reconcile(db, beneath, seen) == SetLocations(db, beneath \ seen, "missing")
ReconcileProjectors(db, beneath, seen) == SetProjectors(db, beneath \ seen, "missing")

(* refresh_location_existence: whether a file is there, not which one.     *)
Refresh(db, disk) ==
    LET there == {p \in Paths : disk[p] # None}
        locations == SetLocations(SetLocations(db, there, "present"), Paths \ there, "missing")
    IN  SetProjectors(SetProjectors(locations, there, "present"), Paths \ there, "missing")

PresentProjectors(db) ==
    {j \in ProjectorIds : db.projectors[j] # None /\ db.projectors[j].state = "present"}

Associable(db, m, j) ==
    db.models[m] # None /\ j \in PresentProjectors(db) /\ Pairing(m, j) # "Incompatible"
Associate(db, m, j) ==
    [db EXCEPT !.pairs = <<<<m, j>>>> \o SelectSeq(@, LAMBDA pair : pair # <<m, j>>)]

(* projector_candidates: what the view offers to associate, with the       *)
(* pairing's verdict.                                                      *)
Candidates(db, m) == {<<j, Pairing(m, j)>> : j \in PresentProjectors(db)}

(* associated_projector: the newest association with a projector that is   *)
(* present.                                                                *)
AssociatedProjector(db, m) ==
    LET mine == {i \in DOMAIN db.pairs :
                    db.pairs[i][1] = m /\ db.pairs[i][2] \in PresentProjectors(db)}
        newest == {j \in PresentProjectors(db) :
                    \E i \in mine : j = db.pairs[i][2] /\ \A k \in mine : i <= k}
    IN  IF newest = {} THEN None ELSE CHOOSE j \in newest : TRUE

(* The canonical row of a model stays, for the history of benchmarks.      *)
RemoveModel(db, m) ==
    [db EXCEPT
        !.locations = [p \in Paths |-> IF p \in LocationsOf(db, m) THEN None ELSE @[p]],
        !.pairs = SelectSeq(@, LAMBDA pair : pair[1] # m),
        !.compat = [mr \in DOMAIN @ |-> IF mr[1] = m THEN None ELSE @[mr]]]
RemoveProjector(db, j) ==
    [db EXCEPT !.projectors[j] = None, !.pairs = SelectSeq(@, LAMBDA pair : pair[2] # j)]

(* save_compatibility, keyed by the model and the runtime's id.            *)
SaveCompatibility(db, m, evaluation) ==
    [db EXCEPT !.compat[<<m, evaluation.runtime.id>>] = evaluation]

Listable(db) == {m \in ModelIds : LocationsOf(db, m) # {}}

(* load_snapshot: what the view shows of every model with a location.      *)
Snapshot(db, runtime) ==
    [models |-> [m \in Listable(db) |->
        LET saved == IF runtime = None THEN None ELSE db.compat[<<m, runtime.id>>] IN
        [locations |-> {<<p, db.locations[p].state>> : p \in LocationsOf(db, m)},
         status    |-> IF saved = None THEN None ELSE saved.status,
         stale     |-> saved # None /\ IsStale(saved, runtime),
         projector |-> AssociatedProjector(db, m),
         choices   |-> Candidates(db, m)]],
     runtime |-> runtime,
     projectors |-> {<<j, db.projectors[j].state>> :
                        j \in {k \in ProjectorIds : db.projectors[k] # None}}]
=============================================================================
