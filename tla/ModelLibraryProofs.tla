------------------------- MODULE ModelLibraryProofs -------------------------
(***************************************************************************)
(* Proofs about ModelLibrary, for any number of threads, folders, files,   *)
(* runtimes, operations, changes of files and failures.                    *)
(***************************************************************************)
EXTENDS ModelLibrary, TLAPS

-----------------------------------------------------------------------------
(* The tables                                                              *)

StoreFields == {"models", "locations", "projectors", "pairs", "compat"}

\* The types of the tables, as far as the proofs need them.
Store(d) ==
  /\ DOMAIN d = StoreFields
  /\ d.locations \in [Paths -> LocationRows \cup {None}]
  /\ d.projectors \in [ProjectorIds -> ProjectorRows \cup {None}]
  /\ DOMAIN d.compat = ModelIds \X RuntimeIds

\* A row has the content of the file it has the fingerprint of, or that file
\* left the path meanwhile; gone is what left each path.
TrueRows(d, gone) ==
  /\ \A p \in Paths : d.locations[p] # None =>
        \/ d.locations[p].fingerprint \in gone[p]
        \/ d.locations[p].model = d.locations[p].fingerprint.content
  /\ \A j \in ProjectorIds : d.projectors[j] # None =>
        \/ d.projectors[j].fingerprint \in gone[d.projectors[j].path]
        \/ j = d.projectors[j].fingerprint.content

\* The path of a projector is unique.
UniquePaths(d) ==
  \A j, k \in ProjectorIds :
    d.projectors[j] # None /\ d.projectors[k] # None /\ d.projectors[j].path = d.projectors[k].path
    => j = k

Tables(d, gone) == Store(d) /\ TrueRows(d, gone) /\ UniquePaths(d)

\* No location of d turns missing in new.
NoneMissed(d, new) ==
  \A p \in Paths : new.locations[p] # None /\ new.locations[p].state = "missing"
                   => new.locations[p] = d.locations[p]

\* What a transaction leaves as it was.
Keeps(d, new, gone) == Tables(new, gone) /\ NoneMissed(d, new) /\ new.compat = d.compat

LEMMA RowsAreRecords ==
  /\ \A row \in LocationRows \cup ProjectorRows : row # None
  /\ \A row \in LocationRows, s \in LocationStates :
        [row EXCEPT !.state = s] = [model |-> row.model, fingerprint |-> row.fingerprint, state |-> s]
        /\ [row EXCEPT !.state = s] \in LocationRows
  /\ \A row \in ProjectorRows, s \in LocationStates :
        [row EXCEPT !.state = s] = [path |-> row.path, fingerprint |-> row.fingerprint, state |-> s]
        /\ [row EXCEPT !.state = s] \in ProjectorRows
<1>1. \A row \in LocationRows \cup ProjectorRows : row # None
  BY LibraryAssumption DEF LibraryAssumption
<1> QED BY <1>1 DEF LocationRows, ProjectorRows

LEMMA SetLocationsFields ==
  ASSUME NEW d, Store(d), NEW ps, NEW s \in LocationStates
  PROVE  LET new == SetLocations(d, ps, s) IN
         /\ new.locations = [p \in Paths |->
              IF p \in ps /\ d.locations[p] # None THEN [d.locations[p] EXCEPT !.state = s]
              ELSE d.locations[p]]
         /\ new.projectors = d.projectors /\ new.compat = d.compat /\ Store(new)
<1>1. \A p \in Paths : d.locations[p] # None => [d.locations[p] EXCEPT !.state = s] \in LocationRows
  BY RowsAreRecords DEF Store
<1> QED BY <1>1 DEF SetLocations, Store, StoreFields

LEMMA SetProjectorsFields ==
  ASSUME NEW d, Store(d), NEW ps, NEW s \in LocationStates
  PROVE  LET new == SetProjectors(d, ps, s) IN
         /\ new.projectors = [j \in ProjectorIds |->
              IF d.projectors[j] # None /\ d.projectors[j].path \in ps
              THEN [d.projectors[j] EXCEPT !.state = s] ELSE d.projectors[j]]
         /\ new.locations = d.locations /\ new.compat = d.compat /\ Store(new)
<1>1. \A j \in ProjectorIds :
        d.projectors[j] # None => [d.projectors[j] EXCEPT !.state = s] \in ProjectorRows
  BY RowsAreRecords DEF Store
<1> QED BY <1>1 DEF SetProjectors, Store, StoreFields

\* The same, of one row.
LEMMA SetLocationsAt ==
  ASSUME NEW d, Store(d), NEW ps, NEW s \in LocationStates, NEW p \in Paths
  PROVE  LET new == SetLocations(d, ps, s).locations[p] IN
         IF p \in ps /\ d.locations[p] # None THEN new # None /\ new.state = s
         ELSE new = d.locations[p]
<1>1. CASE p \in ps /\ d.locations[p] # None
  <2>1. SetLocations(d, ps, s).locations[p] = [d.locations[p] EXCEPT !.state = s]
    BY <1>1 DEF SetLocations, Store, StoreFields
  <2>2. PICK row \in LocationRows : row = d.locations[p]
    BY <1>1 DEF Store
  <2>3. [row EXCEPT !.state = s].state = s /\ [row EXCEPT !.state = s] # None
    BY <2>2, RowsAreRecords DEF LocationRows
  <2> QED BY <1>1, <2>1, <2>2, <2>3
<1>2. CASE ~(p \in ps /\ d.locations[p] # None)
  BY <1>2 DEF SetLocations, Store, StoreFields
<1> QED BY <1>1, <1>2

LEMMA SetProjectorsAt ==
  ASSUME NEW d, Store(d), NEW ps, NEW s \in LocationStates, NEW j \in ProjectorIds
  PROVE  LET new == SetProjectors(d, ps, s).projectors[j] IN
         IF d.projectors[j] # None /\ d.projectors[j].path \in ps
         THEN new # None /\ new.state = s /\ new.path = d.projectors[j].path
         ELSE new = d.projectors[j]
<1>1. CASE d.projectors[j] # None /\ d.projectors[j].path \in ps
  <2>1. SetProjectors(d, ps, s).projectors[j] = [d.projectors[j] EXCEPT !.state = s]
    BY <1>1 DEF SetProjectors, Store, StoreFields
  <2>2. PICK row \in ProjectorRows : row = d.projectors[j]
    BY <1>1 DEF Store
  <2>3. /\ [row EXCEPT !.state = s].state = s /\ [row EXCEPT !.state = s] # None
        /\ [row EXCEPT !.state = s].path = row.path
    BY <2>2, RowsAreRecords DEF ProjectorRows
  <2> QED BY <1>1, <2>1, <2>2, <2>3
<1>2. CASE ~(d.projectors[j] # None /\ d.projectors[j].path \in ps)
  BY <1>2 DEF SetProjectors, Store, StoreFields
<1> QED BY <1>1, <1>2

LEMMA SetLocationsRest ==
  ASSUME NEW d, Store(d), NEW ps, NEW s
  PROVE  SetLocations(d, ps, s).projectors = d.projectors
BY DEF SetLocations, Store, StoreFields

LEMMA SetProjectorsRest ==
  ASSUME NEW d, Store(d), NEW ps, NEW s
  PROVE  /\ SetProjectors(d, ps, s).locations = d.locations
         /\ SetProjectors(d, ps, s).compat = d.compat
BY DEF SetProjectors, Store, StoreFields

\* States of rows say nothing of what was read.
LEMMA SetLocationsTables ==
  ASSUME NEW d, NEW gone, Tables(d, gone), NEW ps, NEW s \in LocationStates
  PROVE  Tables(SetLocations(d, ps, s), gone)
<1> DEFINE new == SetLocations(d, ps, s)
<1>1. Store(d) BY DEF Tables
<1>2. /\ new.locations = [p \in Paths |->
            IF p \in ps /\ d.locations[p] # None THEN [d.locations[p] EXCEPT !.state = s]
            ELSE d.locations[p]]
      /\ new.projectors = d.projectors /\ Store(new)
  BY <1>1, SetLocationsFields
<1> HIDE DEF new
<1>3. \A p \in Paths : new.locations[p] # None =>
        /\ d.locations[p] # None
        /\ new.locations[p].fingerprint = d.locations[p].fingerprint
        /\ new.locations[p].model = d.locations[p].model
  BY <1>1, <1>2, RowsAreRecords DEF Store
<1>4. TrueRows(new, gone)
  BY <1>2, <1>3 DEF Tables, TrueRows
<1>5. UniquePaths(new)
  BY <1>2 DEF Tables, UniquePaths
<1> QED BY <1>2, <1>4, <1>5 DEF Tables, new

LEMMA SetProjectorsTables ==
  ASSUME NEW d, NEW gone, Tables(d, gone), NEW ps, NEW s \in LocationStates
  PROVE  Tables(SetProjectors(d, ps, s), gone)
<1> DEFINE new == SetProjectors(d, ps, s)
<1>1. Store(d) BY DEF Tables
<1>2. /\ new.projectors = [j \in ProjectorIds |->
            IF d.projectors[j] # None /\ d.projectors[j].path \in ps
            THEN [d.projectors[j] EXCEPT !.state = s] ELSE d.projectors[j]]
      /\ new.locations = d.locations /\ Store(new)
  BY <1>1, SetProjectorsFields
<1> HIDE DEF new
<1>3. \A j \in ProjectorIds : new.projectors[j] # None =>
        /\ d.projectors[j] # None
        /\ new.projectors[j].fingerprint = d.projectors[j].fingerprint
        /\ new.projectors[j].path = d.projectors[j].path
  BY <1>1, <1>2, RowsAreRecords DEF Store
<1>4. TrueRows(new, gone)
  BY <1>2, <1>3 DEF Tables, TrueRows
<1>5. UniquePaths(new)
  BY <1>3 DEF Tables, UniquePaths
<1> QED BY <1>2, <1>4, <1>5 DEF Tables, new

LEMMA SaveModelFields ==
  ASSUME NEW d, Store(d), NEW files, NEW m \in ModelIds, NEW p \in Paths, NEW f \in Files
  PROVE  LET new == SaveModel(d, files, m, p, f) IN
         /\ new.locations = [d.locations EXCEPT ![p] =
              [model |-> m, fingerprint |-> f, state |-> "present"]]
         /\ new.projectors = d.projectors /\ new.compat = d.compat /\ Store(new)
<1>1. [model |-> m, fingerprint |-> f, state |-> "present"] \in LocationRows
  BY DEF LocationRows, LocationStates
<1> QED BY <1>1 DEF SaveModel, Store, StoreFields

LEMMA SaveModelKeeps ==
  ASSUME NEW d, NEW gone, Tables(d, gone), NEW files, NEW m \in ModelIds, NEW p \in Paths,
         NEW f \in Files, f \in gone[p] \/ f.content = m
  PROVE  Keeps(d, SaveModel(d, files, m, p, f), gone)
<1> DEFINE new == SaveModel(d, files, m, p, f)
<1>1. Store(d) BY DEF Tables
<1>2. /\ new.locations = [d.locations EXCEPT ![p] =
            [model |-> m, fingerprint |-> f, state |-> "present"]]
      /\ new.projectors = d.projectors /\ new.compat = d.compat /\ Store(new)
  BY <1>1, SaveModelFields
<1> HIDE DEF new
<1>3. \A q \in Paths : new.locations[q] =
        IF q = p THEN [model |-> m, fingerprint |-> f, state |-> "present"] ELSE d.locations[q]
  BY <1>1, <1>2 DEF Store
<1>4. TrueRows(new, gone)
  BY <1>2, <1>3 DEF Tables, TrueRows
<1>5. UniquePaths(new)
  BY <1>2 DEF Tables, UniquePaths
<1>6. NoneMissed(d, new)
  BY <1>3 DEF NoneMissed
<1> QED BY <1>2, <1>4, <1>5, <1>6 DEF Tables, Keeps, new

LEMMA SaveProjectorFields ==
  ASSUME NEW d, Store(d), NEW j \in ProjectorIds, NEW p \in Paths, NEW f \in Files
  PROVE  LET new == SaveProjector(d, j, p, f) IN
         /\ new.projectors = [k \in ProjectorIds |->
              IF k = j THEN [path |-> p, fingerprint |-> f, state |-> "present"]
              ELSE IF k \in ProjectorsAt(d, p) THEN None ELSE d.projectors[k]]
         /\ new.locations = d.locations /\ new.compat = d.compat /\ Store(new)
<1>1. [path |-> p, fingerprint |-> f, state |-> "present"] \in ProjectorRows
  BY DEF ProjectorRows, LocationStates
<1> DEFINE projectors == [k \in ProjectorIds |->
             IF k = j THEN [path |-> p, fingerprint |-> f, state |-> "present"]
             ELSE IF k \in ProjectorsAt(d, p) \ {j} THEN None ELSE d.projectors[k]]
           pairs == SelectSeq(d.pairs, LAMBDA pair : pair[2] \notin ProjectorsAt(d, p) \ {j})
           new == SaveProjector(d, j, p, f)
<1>2. new = [d EXCEPT !.projectors = projectors, !.pairs = pairs]
  BY DEF SaveProjector
<1>3. projectors \in [ProjectorIds -> ProjectorRows \cup {None}]
  BY <1>1 DEF Store
<1>4. projectors = [k \in ProjectorIds |->
              IF k = j THEN [path |-> p, fingerprint |-> f, state |-> "present"]
              ELSE IF k \in ProjectorsAt(d, p) THEN None ELSE d.projectors[k]]
  OBVIOUS
<1> HIDE DEF projectors, pairs, new
<1>5. new.projectors = projectors /\ new.locations = d.locations /\ new.compat = d.compat
      /\ Store(new)
  BY <1>2, <1>3 DEF Store, StoreFields
<1> QED BY <1>4, <1>5 DEF new

LEMMA SaveProjectorKeeps ==
  ASSUME NEW d, NEW gone, Tables(d, gone), NEW j \in ProjectorIds, NEW p \in Paths,
         NEW f \in Files, f \in gone[p] \/ f.content = j
  PROVE  Keeps(d, SaveProjector(d, j, p, f), gone)
<1> DEFINE new == SaveProjector(d, j, p, f)
<1>1. Store(d) BY DEF Tables
<1>2. /\ new.projectors = [k \in ProjectorIds |->
            IF k = j THEN [path |-> p, fingerprint |-> f, state |-> "present"]
            ELSE IF k \in ProjectorsAt(d, p) THEN None ELSE d.projectors[k]]
      /\ new.locations = d.locations /\ new.compat = d.compat /\ Store(new)
  BY <1>1, SaveProjectorFields
<1> HIDE DEF new
<1>3. TrueRows(new, gone)
  BY <1>2 DEF Tables, TrueRows
<1>4. UniquePaths(new)
  BY <1>2 DEF Tables, UniquePaths, ProjectorsAt
<1>5. NoneMissed(d, new)
  BY <1>2 DEF NoneMissed
<1> QED BY <1>2, <1>3, <1>4, <1>5 DEF Tables, Keeps, new

LEMMA RelinkedProjectorKeeps ==
  ASSUME NEW d, NEW gone, Tables(d, gone), NEW j \in ProjectorIds, NEW p \in Paths,
         NEW f \in Files, f \in gone[p] \/ f.content = j, RelinkableProjector(d, j, p)
  PROVE  Keeps(d, RelinkedProjector(d, j, p, f), gone)
<1> DEFINE row == [path |-> p, fingerprint |-> f, state |-> "present"]
           new == RelinkedProjector(d, j, p, f)
<1>1. row \in ProjectorRows
  BY DEF ProjectorRows, LocationStates
<1>2. row.path = p /\ row.fingerprint = f
  OBVIOUS
<1>3. new = [d EXCEPT !.projectors[j] = row]
  BY DEF RelinkedProjector
<1>4. Store(d) BY DEF Tables
<1> HIDE DEF row, new
<1>5. [d.projectors EXCEPT ![j] = row] \in [ProjectorIds -> ProjectorRows \cup {None}]
  BY <1>1, <1>4 DEF Store
<1>6. new.projectors = [d.projectors EXCEPT ![j] = row] /\ new.locations = d.locations
      /\ new.compat = d.compat /\ Store(new)
  BY <1>3, <1>4, <1>5 DEF Store, StoreFields
<1>7. \A k \in ProjectorIds : new.projectors[k] = IF k = j THEN row ELSE d.projectors[k]
  BY <1>4, <1>6 DEF Store
<1>8. TrueRows(new, gone)
  BY <1>2, <1>6, <1>7 DEF Tables, TrueRows
<1>9. UniquePaths(new)
  BY <1>2, <1>7 DEF Tables, UniquePaths, ProjectorsAt, RelinkableProjector
<1>10. NoneMissed(d, new)
  BY <1>6 DEF NoneMissed
<1> QED BY <1>6, <1>8, <1>9, <1>10 DEF Tables, Keeps, new

LEMMA SetLocationsKeeps ==
  ASSUME NEW d, NEW gone, Tables(d, gone), NEW ps, NEW s \in {"present", "unreadable"}
  PROVE  Keeps(d, SetLocations(d, ps, s), gone)
<1> DEFINE new == SetLocations(d, ps, s)
<1>1. Store(d) /\ s \in LocationStates BY DEF Tables, LocationStates
<1>2. /\ new.locations = [p \in Paths |->
            IF p \in ps /\ d.locations[p] # None THEN [d.locations[p] EXCEPT !.state = s]
            ELSE d.locations[p]]
      /\ new.compat = d.compat
  BY <1>1, SetLocationsFields
<1>3. Tables(new, gone)
  BY <1>1, SetLocationsTables
<1> HIDE DEF new
<1>4. \A p \in Paths : d.locations[p] # None => [d.locations[p] EXCEPT !.state = s].state = s
  BY <1>1, RowsAreRecords DEF Store
<1>5. NoneMissed(d, new)
  BY <1>2, <1>4 DEF NoneMissed
<1> QED BY <1>2, <1>3, <1>5 DEF Keeps, new

LEMMA SetProjectorsKeeps ==
  ASSUME NEW d, NEW gone, Tables(d, gone), NEW ps, NEW s \in LocationStates
  PROVE  Keeps(d, SetProjectors(d, ps, s), gone)
<1> DEFINE new == SetProjectors(d, ps, s)
<1>a. Store(d) BY DEF Tables
<1>1. new.locations = d.locations /\ new.compat = d.compat
  BY <1>a, SetProjectorsRest
<1>2. Tables(new, gone)
  BY SetProjectorsTables
<1> HIDE DEF new
<1> QED BY <1>1, <1>2 DEF Keeps, NoneMissed, new

LEMMA AssociateKeeps ==
  ASSUME NEW d, NEW gone, Tables(d, gone), NEW m, NEW j
  PROVE  Keeps(d, Associate(d, m, j), gone)
<1> DEFINE pairs == <<<<m, j>>>> \o SelectSeq(d.pairs, LAMBDA pair : pair # <<m, j>>)
           new == Associate(d, m, j)
<1>1. new = [d EXCEPT !.pairs = pairs] BY DEF Associate
<1>2. Store(d) BY DEF Tables
<1> HIDE DEF pairs, new
<1>3. new.locations = d.locations /\ new.projectors = d.projectors /\ new.compat = d.compat
      /\ Store(new)
  BY <1>1, <1>2 DEF Store, StoreFields
<1> QED BY <1>3 DEF Keeps, Tables, TrueRows, UniquePaths, NoneMissed, new

LEMMA RemoveProjectorKeeps ==
  ASSUME NEW d, NEW gone, Tables(d, gone), NEW j
  PROVE  Keeps(d, RemoveProjector(d, j), gone)
<1> DEFINE pairs == SelectSeq(d.pairs, LAMBDA pair : pair[2] # j)
           projectors == [d.projectors EXCEPT ![j] = None]
           new == RemoveProjector(d, j)
<1>1. new = [d EXCEPT !.projectors = projectors, !.pairs = pairs] BY DEF RemoveProjector
<1>2. Store(d) BY DEF Tables
<1>3. projectors \in [ProjectorIds -> ProjectorRows \cup {None}]
      /\ \A k \in ProjectorIds : projectors[k] \in {d.projectors[k], None}
  BY <1>2 DEF Store
<1> HIDE DEF pairs, projectors, new
<1>4. new.locations = d.locations /\ new.projectors = projectors /\ new.compat = d.compat
      /\ Store(new)
  BY <1>1, <1>2, <1>3 DEF Store, StoreFields
<1>5. TrueRows(new, gone)
  BY <1>3, <1>4 DEF Tables, TrueRows
<1>6. UniquePaths(new)
  BY <1>3, <1>4 DEF Tables, UniquePaths
<1>7. NoneMissed(d, new)
  BY <1>4 DEF NoneMissed
<1> QED BY <1>4, <1>5, <1>6, <1>7 DEF Keeps, Tables, new

LEMMA RemoveModelTables ==
  ASSUME NEW d, NEW gone, Tables(d, gone), NEW m
  PROVE  LET new == RemoveModel(d, m) IN
         /\ Tables(new, gone) /\ NoneMissed(d, new)
         /\ \A n \in ModelIds, id \in RuntimeIds :
               new.compat[<<n, id>>] \in {d.compat[<<n, id>>], None}
<1> DEFINE pairs == SelectSeq(d.pairs, LAMBDA pair : pair[1] # m)
           locations == [p \in Paths |-> IF p \in LocationsOf(d, m) THEN None ELSE d.locations[p]]
           compat == [mr \in DOMAIN d.compat |-> IF mr[1] = m THEN None ELSE d.compat[mr]]
           new == RemoveModel(d, m)
<1>1. new = [d EXCEPT !.locations = locations, !.pairs = pairs, !.compat = compat]
  BY DEF RemoveModel
<1>2. Store(d) BY DEF Tables
<1>3. /\ locations \in [Paths -> LocationRows \cup {None}]
      /\ \A p \in Paths : locations[p] \in {d.locations[p], None}
      /\ DOMAIN compat = ModelIds \X RuntimeIds
      /\ \A n \in ModelIds, id \in RuntimeIds : compat[<<n, id>>] \in {d.compat[<<n, id>>], None}
  BY <1>2 DEF Store
<1> HIDE DEF pairs, locations, compat, new
<1>4. /\ new.locations = locations /\ new.projectors = d.projectors /\ Store(new)
      /\ new.compat = compat
  BY <1>1, <1>2, <1>3 DEF Store, StoreFields
<1>5. TrueRows(new, gone)
  BY <1>3, <1>4 DEF Tables, TrueRows
<1>6. UniquePaths(new)
  BY <1>4 DEF Tables, UniquePaths
<1>7. NoneMissed(d, new)
  BY <1>3, <1>4 DEF NoneMissed
<1> QED BY <1>3, <1>4, <1>5, <1>6, <1>7 DEF Tables, new

LEMMA RefreshTables ==
  ASSUME NEW d, NEW gone, Tables(d, gone), NEW files
  PROVE  LET new == Refresh(d, files) IN
         /\ Tables(new, gone) /\ new.compat = d.compat
         /\ \A p \in Paths : new.locations[p] # None /\ new.locations[p].state = "missing"
                             => files[p] = None
<1> DEFINE there == {p \in Paths : files[p] # None}
           one == SetLocations(d, there, "present")
           two == SetLocations(one, Paths \ there, "missing")
           three == SetProjectors(two, there, "present")
           new == SetProjectors(three, Paths \ there, "missing")
<1>1. "missing" \in LocationStates /\ "present" \in LocationStates BY DEF LocationStates
<1>2. Tables(one, gone) BY <1>1, SetLocationsTables
<1>3. Tables(two, gone) BY <1>1, <1>2, SetLocationsTables
<1>4. Tables(three, gone) BY <1>1, <1>3, SetProjectorsTables
<1>5. Tables(new, gone) BY <1>1, <1>4, SetProjectorsTables
<1>a. Store(two) /\ Store(three) BY <1>3, <1>4 DEF Tables
<1>6. /\ one.locations = [p \in Paths |->
            IF p \in there /\ d.locations[p] # None
            THEN [d.locations[p] EXCEPT !.state = "present"] ELSE d.locations[p]]
      /\ one.compat = d.compat
  BY <1>1, SetLocationsFields DEF Tables
<1>7. /\ two.locations = [p \in Paths |->
            IF p \in Paths \ there /\ one.locations[p] # None
            THEN [one.locations[p] EXCEPT !.state = "missing"] ELSE one.locations[p]]
      /\ two.compat = one.compat
  BY <1>1, <1>2, SetLocationsFields DEF Tables
<1>8. three.locations = two.locations /\ three.compat = two.compat
  BY <1>a, SetProjectorsRest
<1>9. new.locations = three.locations /\ new.compat = three.compat
  BY <1>a, SetProjectorsRest
<1>10. Refresh(d, files) = new BY DEF Refresh
<1> HIDE DEF one, two, three, new
<1>11. \A p \in there : d.locations[p] # None =>
          [d.locations[p] EXCEPT !.state = "present"].state = "present"
  BY <1>1, RowsAreRecords DEF Tables, Store
<1>12. \A p \in Paths : new.locations[p] # None /\ new.locations[p].state = "missing" => p \notin there
  BY <1>6, <1>7, <1>8, <1>9, <1>11, SMTT(30)
<1> QED BY <1>5, <1>6, <1>7, <1>8, <1>9, <1>10, <1>12


\* A row of compatibility is written, of an evaluation for a runtime.
LEMMA SaveCompatibilityFields ==
  ASSUME NEW d, NEW gone, Tables(d, gone), NEW m \in ModelIds, NEW rt \in Runtimes, NEW j,
         NEW new, new = SaveCompatibility(d, m, Evaluation(m, rt, j))
  PROVE  /\ Tables(new, gone) /\ NoneMissed(d, new)
         /\ new.locations = d.locations /\ new.projectors = d.projectors
         /\ \A n \in ModelIds, id \in RuntimeIds :
               \/ new.compat[<<n, id>>] = d.compat[<<n, id>>]
               \/ n = m /\ new.compat[<<n, id>>] = Evaluation(m, rt, j)
<1> DEFINE saved == Evaluation(m, rt, j)
<1>1. PICK key : key = <<m, rt.id>> OBVIOUS
<1>2. new = [d EXCEPT !.compat[key] = saved]
  BY <1>1 DEF SaveCompatibility, Evaluation
<1>3. Store(d) BY DEF Tables
<1> HIDE DEF saved
<1>4. /\ new.locations = d.locations /\ new.projectors = d.projectors /\ Store(new)
      /\ new.compat = [d.compat EXCEPT ![key] = saved]
  BY <1>2, <1>3 DEF Store, StoreFields
<1>5. Tables(new, gone) /\ NoneMissed(d, new)
  BY <1>4 DEF Tables, TrueRows, UniquePaths, NoneMissed
<1>6. ASSUME NEW n \in ModelIds, NEW id \in RuntimeIds
      PROVE  \/ new.compat[<<n, id>>] = d.compat[<<n, id>>]
             \/ n = m /\ new.compat[<<n, id>>] = saved
  <2>1. <<n, id>> \in DOMAIN d.compat
    BY <1>3 DEF Store
  <2>2. CASE <<n, id>> = key
    BY <1>1, <1>4, <2>1, <2>2
  <2>3. CASE <<n, id>> # key
    BY <1>4, <2>1, <2>3
  <2> QED BY <2>2, <2>3
<1> QED BY <1>4, <1>5, <1>6 DEF saved

\* The projector of a model is one, if any.
LEMMA AssociatedIsProjector ==
  ASSUME NEW d, NEW m
  PROVE  AssociatedProjector(d, m) \in ProjectorIds \cup {None}
BY DEF AssociatedProjector, PresentProjectors

-----------------------------------------------------------------------------
(* The verdicts                                                            *)

\* Every stored verdict is what the rules say of a runtime and of a projector.
Verdicts(d) ==
  \A m \in ModelIds, id \in RuntimeIds : d.compat[<<m, id>>] # None =>
    \E rt \in Runtimes, j \in ProjectorIds \cup {None} : d.compat[<<m, id>>] = Evaluation(m, rt, j)

\* A verdict of a page that is not marked stale is that of its runtime.
Fresh(shown) ==
  \A m \in DOMAIN shown.models :
    LET item == shown.models[m] IN
    item.status # None /\ ~item.stale =>
      \E j \in ProjectorIds \cup {None} : item.status = Evaluate(m, shown.runtime, j)

LEMMA VerdictsKept ==
  ASSUME NEW d, Verdicts(d), NEW new,
         \A n \in ModelIds, id \in RuntimeIds : new.compat[<<n, id>>] \in {d.compat[<<n, id>>], None}
  PROVE  Verdicts(new)
BY DEF Verdicts

LEMMA SnapshotIsFresh ==
  ASSUME NEW d, Verdicts(d), NEW rt \in Runtimes \cup {None}
  PROVE  Fresh(Snapshot(d, rt))
<1> DEFINE shown == Snapshot(d, rt)
<1> SUFFICES ASSUME NEW m \in DOMAIN shown.models,
                    shown.models[m].status # None, ~shown.models[m].stale
             PROVE  \E j \in ProjectorIds \cup {None} :
                      shown.models[m].status = Evaluate(m, shown.runtime, j)
  BY ZenonT(30) DEF Fresh
<1> DEFINE saved == IF rt = None THEN None ELSE d.compat[<<m, rt.id>>]
<1>1. /\ m \in ModelIds /\ shown.runtime = rt
      /\ shown.models[m].status = IF saved = None THEN None ELSE saved.status
      /\ shown.models[m].stale = (saved # None /\ IsStale(saved, rt))
  BY DEF Snapshot, Listable
<1>2. saved # None /\ rt # None /\ saved = d.compat[<<m, rt.id>>]
  BY <1>1
<1>3. saved.runtime = rt
  BY <1>1, <1>2 DEF IsStale
<1>4. rt.id \in RuntimeIds
  BY <1>2 DEF RuntimeIds
<1>5. PICK q \in Runtimes, j \in ProjectorIds \cup {None} : saved = Evaluation(m, q, j)
  BY <1>1, <1>2, <1>4 DEF Verdicts
<1>6. q = rt /\ saved.status = Evaluate(m, q, j)
  BY <1>3, <1>5 DEF Evaluation
<1> QED BY <1>1, <1>2, <1>6

LEMMA EmptyIsFresh == Fresh(Empty)
BY DEF Fresh, Empty, Snapshot, EmptyStore, Listable, LocationsOf

-----------------------------------------------------------------------------
(* The inductive invariant                                                 *)

ThreadFields == {"pc", "op", "mount", "left", "path", "fingerprint", "content", "models",
                 "projectors", "runtime", "todo", "verdict", "shown", "cancel", "excused", "clean"}
PageFields == {"mount", "activity", "token", "shown"}
ReadKinds == {"AddModel", "AddProjector", "RelinkModel", "RelinkProjector"}
RemoveKinds == {"RemoveModel", "RemoveProjector"}
ApplyKinds == ReadKinds \cup RemoveKinds \cup {"Associate", "Refresh"}

\* A scan that is at a path, and one that has read the file there once.
Compared(r) == r.pc \in {"lookup", "touch", "lookupProjector", "touchProjector", "inspect", "save"}
Marking(r) == r.pc \in {"mark", "markProjector"}
Visiting(r) == Compared(r) \/ Marking(r) \/ r.pc = "fingerprint"
Reconciling(r) == r.pc \in {"reconcile", "reconcileProjectors"}

\* What is on the disk and what was, and the runtime.
WorldInv ==
  /\ disk \in [Paths -> Files \cup {None}]
  /\ past \in [Paths -> SUBSET Files]
  /\ runtime \in Runtimes \cup {None}
  /\ spent \in [operations : Nat, incidents : Nat]
  /\ workers = [w \in Workers |-> workers[w]]
  /\ DOMAIN page = PageFields

\* Where a thread is in its operation, and the verdict it has.
ThreadType(r) ==
  /\ DOMAIN r = ThreadFields
  /\ r.op \in Operations
  /\ Scanning(r) => /\ r.op.kind = "Scan" /\ r.left \subseteq Listed[r.op.arg] /\ r.path \notin r.left
                    /\ IF Visiting(r) THEN r.path \in Listed[r.op.arg] ELSE r.path = None
                    /\ Reconciling(r) => r.left = {}
  /\ r.pc \in {"read", "examine"} => r.op.kind \in ReadKinds
  /\ r.pc = "apply" => r.op.kind \in ApplyKinds
  /\ Scanning(r) \/ r.pc \in {"summary", "read", "examine", "apply", "recompute", "list", "evaluate",
                              "store", "finish", "load", "publish"}
  /\ r.todo \subseteq ModelIds
  /\ r.pc \in {"list", "evaluate", "store"} => r.runtime \in Runtimes
  /\ r.pc = "load" => r.runtime \in Runtimes \cup {None}
  /\ r.pc = "store" => \E m \in ModelIds, j \in ProjectorIds \cup {None} :
                          r.verdict = <<m, Evaluation(m, r.runtime, j)>>
  /\ r.shown # None => Fresh(r.shown)

\* f is the fingerprint of a file that is at p, or was.
ReadAt(f, p) == f \in Files /\ (f = disk[p] \/ f \in past[p])

\* The content c was read at p after the fingerprint f.
ContentAt(c, f, p) ==
  /\ c \in Contents /\ f \in Files
  /\ f \in past[p] \/ f.content = c

\* What a thread goes on with was read at its path.
ReadInv(r) ==
  /\ Compared(r) => ReadAt(r.fingerprint, r.path)
  /\ r.pc = "save" => ContentAt(r.content, r.fingerprint, r.path)
                      /\ Info[r.content].kind \in {"model", "projector"}
  /\ r.pc = "examine" => ReadAt(r.fingerprint, r.op.arg)
  /\ r.pc = "apply" /\ r.op.kind \in ReadKinds => ContentAt(r.content, r.fingerprint, r.op.arg)

\* The paths a scan is done with.
Settled(r) == Listed[r.op.arg] \ (r.left \cup {r.path})

\* What a scan knows of the path it is at, unless there is a reason.
ExcusedAt(r) ==
  /\ Compared(r) => r.path \in r.excused \/ r.fingerprint = disk[r.path]
  /\ Marking(r) => r.path \in r.excused
  /\ r.pc = "touchProjector" => r.path \in r.excused \/ CameBack(r.path)
  /\ r.pc = "save" /\ Info[r.content].kind = "projector" => r.path \in r.excused

\* A path a scan is done with was seen as a model, unless there is a reason.
ExcusedInv(r) ==
  Scanning(r) =>
    /\ \A p \in Paths : HoldsModel(p) \/ p \in r.excused
    /\ ExcusedAt(r)
    /\ \A p \in Settled(r) : p \in r.models \/ p \in r.excused \/ CameBack(p)

HoldsProjector(p) == Readable(p) /\ KindAt(p) = "projector"

\* What an undisturbed scan knows of a path it is done with.
SettledTruly(r, d, p) ==
  /\ p \in r.models <=> HoldsModel(p)
  /\ HoldsModel(p) => /\ d.locations[p] # None
                      /\ d.locations[p].state = "present"
                      /\ d.locations[p].model = disk[p].content
  /\ p \in r.projectors =>
        HoldsProjector(p) /\ \A j \in ProjectorsAt(d, p) : j = disk[p].content
  /\ HoldsProjector(p) =>
        LET row == d.projectors[disk[p].content] IN
        row # None /\ row.state = "present" /\ row.path \in r.projectors

\* What an undisturbed scan knows of the path it is at.
CleanAt(r) ==
  /\ Compared(r) => Readable(r.path) /\ r.fingerprint = disk[r.path]
  /\ Marking(r) => ~HoldsModel(r.path) /\ ~HoldsProjector(r.path)
  /\ r.pc = "touch" => KnownModel(r)
  /\ r.pc = "touchProjector" => KnownProjector(r)
  /\ r.pc = "save" => r.content = disk[r.path].content

\* An undisturbed scan.
CleanScan(r) ==
  Scanning(r) =>
    /\ CleanAt(r)
    /\ r.models \cup r.projectors \subseteq Settled(r)
    /\ \A p \in Settled(r) : CameBack(p) \/ SettledTruly(r, db, p)
    /\ r.pc = "reconcileProjectors" => \A p \in Settled(r) :
          db.locations[p] # None /\ db.locations[p].state = "present" => p \in r.models

ThreadInv(r) ==
  /\ ThreadType(r) /\ ReadInv(r) /\ ExcusedInv(r)
  /\ r.clean => CleanScan(r)

LibraryInv ==
  /\ WorldInv
  /\ Tables(db, past) /\ Verdicts(db)
  /\ Fresh(page.shown)
  /\ \A w \in Workers : workers[w] # None => ThreadInv(workers[w])

-----------------------------------------------------------------------------
(* The steps and the tables                                                *)

\* The files, the locks and the runtime stay as they are.
Still == UNCHANGED <<disk, past, locked, runtime>>

\* The thread becomes next, the tables new.
Becomes(w, next, new) ==
  /\ workers' = [v \in Workers |-> workers'[v]]
  /\ workers'[w] = next
  /\ db' = new
  /\ \A v \in Workers \ {w} :
        \/ workers'[v] = workers[v] /\ (workers[v] # None => new = db \/ ~workers[v].clean)
        \/ workers[v] # None /\ workers'[v] = [workers[v] EXCEPT !.clean = FALSE]
  /\ page' = page
  /\ Still
  /\ spent' = spent \/ spent' = [spent EXCEPT !.incidents = @ + 1]

LEMMA Moved ==
  ASSUME WorldInv, NEW w \in Workers, NEW next, Move(w, next) \/ Fail(w, next)
  PROVE  Becomes(w, next, db)
BY DEF Move, Fail, Incident, Becomes, Still, WorldInv

LEMMA Committed ==
  ASSUME WorldInv, NEW w \in Workers, NEW next, NEW new, Commit(w, next, new)
  PROVE  Becomes(w, next, new)
BY DEF Commit, Becomes, Still

\* The thread of a step.
LEMMA ThreadOf ==
  ASSUME LibraryInv, NEW w \in Workers, workers[w] # None
  PROVE  /\ ThreadInv(workers[w]) /\ DOMAIN workers[w] = ThreadFields /\ WorldInv
         /\ Tables(db, past) /\ Store(db) /\ Verdicts(db)
BY DEF LibraryInv, ThreadInv, ThreadType, Tables

\* A scan that visits a path of its folder.
LEMMA Visited ==
  ASSUME LibraryInv, NEW w \in Workers, NEW r, r = workers[w], r # None, Visiting(r)
  PROVE  /\ ThreadInv(r) /\ DOMAIN r = ThreadFields /\ Scanning(r)
         /\ r.path \in Paths /\ r.path \notin Settled(r)
         /\ r.clean => r.path \notin r.models \cup r.projectors
<1>1. ThreadInv(r) /\ DOMAIN r = ThreadFields
  BY ThreadOf
<1>2. Scanning(r)
  BY DEF Visiting, Scanning, Compared, Marking
<1>3. r.path \in Listed[r.op.arg] /\ r.op \in Operations /\ r.op.kind = "Scan"
  BY <1>1, <1>2 DEF ThreadInv, ThreadType
<1>4. r.path \in Paths
  BY <1>3, LibraryAssumption DEF LibraryAssumption
<1> QED BY <1>1, <1>2, <1>4 DEF ThreadInv, CleanScan, Settled

LEMMA ContentKinds ==
  ASSUME WorldInv, NEW p \in Paths, disk[p] # None
  PROVE  /\ disk[p] \in Files /\ disk[p].content \in Contents
         /\ KindAt(p) = "model" => disk[p].content \in ModelIds
         /\ KindAt(p) = "projector" => disk[p].content \in ProjectorIds
         /\ KindAt(p) \in {"model", "projector", "malformed"}
BY LibraryAssumption DEF LibraryAssumption, WorldInv, Files, KindAt, ModelIds, ProjectorIds

\* A content is read at a path after the fingerprint.
LEMMA ContentRead ==
  ASSUME WorldInv, NEW p \in Paths, disk[p] # None, NEW f, ReadAt(f, p)
  PROVE  ContentAt(disk[p].content, f, p)
BY ContentKinds DEF ReadAt, ContentAt

\* The states of rows, set to what is not missing.
LEMMA StatesKept ==
  ASSUME LibraryInv, NEW p \in Paths,
         NEW new \in {Touch(db, p), TouchProjector(db, p), MarkUnreadable(db, p),
                      MarkProjectorUnreadable(db, p)}
  PROVE  Keeps(db, new, past)
<1>1. Tables(db, past) /\ "present" \in LocationStates /\ "unreadable" \in LocationStates
  BY DEF LibraryInv, LocationStates
<1>2. Keeps(db, SetLocations(db, {p}, "present"), past)
  BY <1>1, SetLocationsKeeps
<1>3. Keeps(db, SetLocations(db, {p}, "unreadable"), past)
  BY <1>1, SetLocationsKeeps
<1>4. Keeps(db, SetProjectors(db, {p}, "present"), past)
  BY <1>1, SetProjectorsKeeps
<1>5. Keeps(db, SetProjectors(db, {p}, "unreadable"), past)
  BY <1>1, SetProjectorsKeeps
<1> QED
  BY <1>2, <1>3, <1>4, <1>5 DEF Touch, TouchProjector, MarkUnreadable, MarkProjectorUnreadable

\* What a transaction leaves sound.
Sound(new) == Tables(new, past) /\ Verdicts(new)

LEMMA KeepsSound ==
  ASSUME LibraryInv, NEW new, Keeps(db, new, past)
  PROVE  Sound(new) /\ NoneMissed(db, new)
<1>1. \A n \in ModelIds, id \in RuntimeIds : new.compat[<<n, id>>] \in {db.compat[<<n, id>>], None}
  BY DEF Keeps
<1> QED BY <1>1, VerdictsKept DEF LibraryInv, Keeps, Sound

LEMMA SaveTables ==
  ASSUME LibraryInv, NEW w \in Workers, Save(w)
  PROVE  Sound(db') /\ NoneMissed(db, db')
<1>1. PICK r : r = workers[w] OBVIOUS
<1>2. r # None /\ r.pc = "save"
  BY <1>1 DEF Save, At
<1>3. r.path \in Paths /\ ContentAt(r.content, r.fingerprint, r.path) /\ Tables(db, past)
  BY <1>1, <1>2, Visited DEF Visiting, Compared, ThreadInv, ReadInv, LibraryInv
<1>4. CASE db' = db
  BY <1>4 DEF LibraryInv, Sound, NoneMissed
<1>5. CASE Info[r.content].kind = "projector" /\ db' = SaveProjector(db, r.content, r.path, r.fingerprint)
  <2>1. r.content \in ProjectorIds
    BY <1>3, <1>5 DEF ContentAt, ProjectorIds
  <2> QED BY <1>3, <1>5, <2>1, SaveProjectorKeeps, KeepsSound DEF ContentAt
<1>6. CASE Info[r.content].kind = "model" /\ db' = SaveModel(db, disk, r.content, r.path, r.fingerprint)
  <2>1. r.content \in ModelIds
    BY <1>3, <1>6 DEF ContentAt, ModelIds
  <2> QED BY <1>3, <1>6, <2>1, SaveModelKeeps, KeepsSound DEF ContentAt
<1> QED BY <1>1, <1>4, <1>5, <1>6 DEF Save, Commit, Fail

LEMMA ApplyTables ==
  ASSUME LibraryInv, NEW w \in Workers, Apply(w)
  PROVE  /\ Sound(db')
         /\ \/ NoneMissed(db, db')
            \/ workers[w].op.kind = "Refresh" /\ db' = Refresh(db, disk)
<1> DEFINE r == workers[w]
           p == r.op.arg
           kind == r.op.kind
<1>1. /\ Tables(db, past) /\ Verdicts(db) /\ kind \in ApplyKinds
      /\ kind \in ReadKinds => p \in Paths /\ ContentAt(r.content, r.fingerprint, p)
  BY LibraryAssumption
     DEF LibraryAssumption, LibraryInv, Apply, At, ThreadInv, ThreadType, ReadInv, ReadKinds
<1>2. CASE db' = db
  BY <1>1, <1>2 DEF NoneMissed, Sound
<1>3. CASE Applies(r, p, r.op.target) /\ db' = Applied(r, p, r.op.target)
  <2>1. CASE kind = "AddModel" \/ kind = "RelinkModel"
    <3>1. /\ Info[r.content].kind = "model"
          /\ db' = SaveModel(db, disk, r.content, p, r.fingerprint)
      BY <1>3, <2>1 DEF Applies, Applied
    <3>2. p \in Paths /\ ContentAt(r.content, r.fingerprint, p)
      BY <1>1, <2>1 DEF ReadKinds
    <3>3. r.content \in ModelIds
      BY <3>1, <3>2 DEF ContentAt, ModelIds
    <3> QED BY <1>1, <3>1, <3>2, <3>3, SaveModelKeeps, KeepsSound DEF ContentAt
  <2>2. CASE kind = "AddProjector" \/ kind = "RelinkProjector"
    <3>1. /\ Info[r.content].kind = "projector"
          /\ \/ db' = SaveProjector(db, r.content, p, r.fingerprint)
             \/ /\ r.content = r.op.target /\ RelinkableProjector(db, r.op.target, p)
                /\ db' = RelinkedProjector(db, r.op.target, p, r.fingerprint)
      BY <1>3, <2>2 DEF Applies, Applied
    <3>2. p \in Paths /\ ContentAt(r.content, r.fingerprint, p)
      BY <1>1, <2>2 DEF ReadKinds
    <3>3. r.content \in ProjectorIds
      BY <3>1, <3>2 DEF ContentAt, ProjectorIds
    <3> QED BY <1>1, <3>1, <3>2, <3>3, SaveProjectorKeeps, RelinkedProjectorKeeps, KeepsSound
            DEF ContentAt
  <2>3. CASE kind = "Associate"
    BY <1>1, <1>3, <2>3, AssociateKeeps, KeepsSound DEF Applied
  <2>4. CASE kind = "RemoveModel"
    <3>1. db' = RemoveModel(db, r.op.target)
      BY <1>3, <2>4 DEF Applied
    <3> QED BY <1>1, <3>1, RemoveModelTables, VerdictsKept DEF Sound
  <2>5. CASE kind = "RemoveProjector"
    BY <1>1, <1>3, <2>5, RemoveProjectorKeeps, KeepsSound DEF Applied
  <2>6. CASE kind = "Refresh"
    <3>1. db' = Refresh(db, disk)
      BY <1>3, <2>6 DEF Applied
    <3>2. Tables(db', past) /\ db'.compat = db.compat
      BY <1>1, <3>1, RefreshTables
    <3> QED BY <1>1, <2>6, <3>1, <3>2, VerdictsKept DEF Sound
  <2> QED BY <1>1, <2>1, <2>2, <2>3, <2>4, <2>5, <2>6 DEF ApplyKinds, ReadKinds, RemoveKinds
<1> QED
  BY <1>2, <1>3 DEF Apply, Commit, Move, Fail

LEMMA StoreTables ==
  ASSUME LibraryInv, NEW w \in Workers, StoreVerdict(w)
  PROVE  Sound(db') /\ NoneMissed(db, db')
<1>1. PICK r : r = workers[w] OBVIOUS
<1>2. Tables(db, past) /\ Verdicts(db)
  BY DEF LibraryInv
<1>3. CASE db' = db
  BY <1>2, <1>3 DEF Sound, NoneMissed
<1>4. CASE db' = SaveCompatibility(db, r.verdict[1], r.verdict[2])
  <2>1. /\ r.runtime \in Runtimes
        /\ \E m \in ModelIds, j \in ProjectorIds \cup {None} :
              r.verdict = <<m, Evaluation(m, r.runtime, j)>>
    BY <1>1 DEF StoreVerdict, At, LibraryInv, ThreadInv, ThreadType
  <2>2. PICK m \in ModelIds, j \in ProjectorIds \cup {None} :
          db' = SaveCompatibility(db, m, Evaluation(m, r.runtime, j))
    BY <1>4, <2>1
  <2>3. /\ Tables(db', past) /\ NoneMissed(db, db')
        /\ \A n \in ModelIds, id \in RuntimeIds :
              \/ db'.compat[<<n, id>>] = db.compat[<<n, id>>]
              \/ n = m /\ db'.compat[<<n, id>>] = Evaluation(m, r.runtime, j)
    BY <1>2, <2>1, <2>2, SaveCompatibilityFields
  <2>4. Verdicts(db')
    BY <1>2, <2>1, <2>3 DEF Verdicts
  <2> QED BY <2>3, <2>4 DEF Sound
<1> QED BY <1>1, <1>3, <1>4 DEF StoreVerdict, Commit, Fail

\* Only a reconciliation and a refresh make locations missing.
LEMMA StepsTables ==
  ASSUME LibraryInv, NEW w \in Workers, Steps(w)
  PROVE  /\ Sound(db')
         /\ \/ NoneMissed(db, db')
            \/ /\ ReconcileModels(w)
               /\ db' = Reconcile(db, Beneath[workers[w].op.arg], workers[w].models)
            \/ Apply(w) /\ workers[w].op.kind = "Refresh" /\ db' = Refresh(db, disk)
<1>1. Tables(db, past) /\ Verdicts(db) /\ Store(db) /\ "missing" \in LocationStates
  BY DEF LibraryInv, Tables, LocationStates
<1>2. CASE db' = db
  BY <1>1, <1>2 DEF NoneMissed, Sound
<1>3. CASE Mark(w) \/ MarkProjector(w) \/ TouchRow(w) \/ TouchProjectorRow(w)
  <2>1. Visiting(workers[w]) /\ workers[w] # None
    BY <1>3 DEF Mark, MarkProjector, TouchRow, TouchProjectorRow, At, Visiting, Compared, Marking
  <2>2. workers[w].path \in Paths
    BY <2>1, Visited
  <2>3. \/ db' = db
        \/ db' \in {Touch(db, workers[w].path), TouchProjector(db, workers[w].path),
                    MarkUnreadable(db, workers[w].path), MarkProjectorUnreadable(db, workers[w].path)}
    BY <1>3 DEF Mark, MarkProjector, TouchRow, TouchProjectorRow, Commit, Fail
  <2> QED BY <1>2, <2>2, <2>3, StatesKept, KeepsSound
<1>4. CASE ReconcileModels(w)
  <2>1. db' = db \/ db' = Reconcile(db, Beneath[workers[w].op.arg], workers[w].models)
    BY <1>4 DEF ReconcileModels, Commit, Fail
  <2>2. ASSUME NEW seen, db' = SetLocations(db, seen, "missing") PROVE Sound(db')
    <3>1. Tables(db', past)
      BY <1>1, <2>2, SetLocationsTables
    <3>a. SetLocations(db, seen, "missing").compat = db.compat
      BY <1>1, SetLocationsFields, ZenonT(30)
    <3>2. db'.compat = db.compat
      BY <2>2, <3>a
    <3>3. Verdicts(db')
      BY <1>1, <3>2, VerdictsKept
    <3> QED BY <3>1, <3>3 DEF Sound
  <2>3. PICK seen : seen = Beneath[workers[w].op.arg] \ workers[w].models OBVIOUS
  <2>4. CASE db' = Reconcile(db, Beneath[workers[w].op.arg], workers[w].models)
    <3>1. db' = SetLocations(db, seen, "missing")
      BY <2>3, <2>4 DEF Reconcile
    <3> QED BY <1>4, <2>2, <2>4, <3>1
  <2> QED BY <1>2, <2>1, <2>4
<1>5. CASE ReconcileRest(w)
  <2>1. db' = db \/ \E seen : db' = SetProjectors(db, seen, "missing")
    BY <1>5 DEF ReconcileRest, ReconcileProjectors, Commit, Fail
  <2>2. ASSUME NEW seen, db' = SetProjectors(db, seen, "missing") PROVE Sound(db') /\ NoneMissed(db, db')
    BY <1>1, <2>2, SetProjectorsKeeps, KeepsSound
  <2> QED BY <1>2, <2>1, <2>2
<1>6. CASE Save(w) BY <1>6, SaveTables
<1>7. CASE Apply(w) BY <1>7, ApplyTables
<1>8. CASE StoreVerdict(w) BY <1>8, StoreTables
<1>9. CASE \/ Walk(w) \/ WalkError(w) \/ Fingerprint(w) \/ Lookup(w) \/ LookupProjector(w)
           \/ Inspect(w) \/ Summary(w) \/ ReadFile(w) \/ Examine(w) \/ Recompute(w)
           \/ ListModels(w) \/ EvaluateNext(w) \/ Finish(w) \/ Load(w) \/ Publish(w)
  <2>1. db' = db
    BY <1>9 DEF Walk, WalkError, Fingerprint, Lookup, LookupProjector, Inspect, Summary, ReadFile,
                Examine, Recompute, ListModels, EvaluateNext, Finish, Load, Publish, Move, Fail
  <2> QED BY <1>2, <2>1
<1> QED BY <1>3, <1>4, <1>5, <1>6, <1>7, <1>8, <1>9 DEF Steps, ScanSteps

-----------------------------------------------------------------------------
(* The steps and the threads                                               *)

\* next has the operation, the models to evaluate and the page of r.
SameData(next, r) ==
  /\ DOMAIN next = ThreadFields
  /\ next.op = r.op /\ next.shown = r.shown /\ next.todo = r.todo

\* next has what the invariant says of r.
SameThread(next, r) ==
  /\ SameData(next, r)
  /\ next.pc = r.pc /\ next.left = r.left /\ next.path = r.path
  /\ next.fingerprint = r.fingerprint /\ next.content = r.content
  /\ next.models = r.models /\ next.projectors = r.projectors
  /\ next.runtime = r.runtime /\ next.verdict = r.verdict /\ next.excused = r.excused

\* The type of a thread says nothing of the state.
LEMMA TypeStays ==
  ASSUME NEW r, ThreadType(r)
  PROVE  ThreadType(r)'
BY DEF ThreadType, Scanning, Visiting, Compared, Marking, Reconciling

\* A thread that does not move, while no file changes.
LEMMA Carried ==
  ASSUME NEW r, ThreadInv(r), NEW next, SameThread(next, r), UNCHANGED <<disk, past, locked>>,
         next.clean => r.clean /\ db' = db
  PROVE  ThreadInv(next)'
<1>1. ThreadType(next)
  BY DEF SameThread, SameData, ThreadInv, ThreadType, Scanning, Visiting, Compared, Marking,
         Reconciling
<1>2. ReadInv(next)'
  BY DEF SameThread, SameData, ThreadInv, ReadInv, ReadAt, ContentAt, Compared
<1>3. ExcusedInv(next)'
  BY DEF SameThread, SameData, ThreadInv, ExcusedInv, ExcusedAt, Settled, Scanning, Compared,
         Marking, HoldsModel, Readable, KindAt, CameBack
<1>4. ASSUME next.clean PROVE CleanScan(next)'
  BY <1>4 DEF SameThread, SameData, ThreadInv, CleanScan, CleanAt, SettledTruly, Settled, Scanning,
              Compared, Marking, HoldsModel, HoldsProjector, Readable, KindAt, CameBack, KnownModel,
              KnownProjector, ProjectorsAt
<1> QED BY <1>1, <1>2, <1>3, <1>4, TypeStays DEF ThreadInv

\* The threads beside the one that moves.
LEMMA OthersCarried ==
  ASSUME LibraryInv, NEW w \in Workers, NEW next, NEW new, Becomes(w, next, new),
         NEW v \in Workers \ {w}, workers'[v] # None
  PROVE  ThreadInv(workers[v])'
<1>1. PICK r : r = workers[v] OBVIOUS
<1>2. PICK s : s = workers'[v] OBVIOUS
<1>3. /\ r # None /\ UNCHANGED <<disk, past, locked>>
      /\ \/ s = r /\ (db' = db \/ ~r.clean)
         \/ s = [r EXCEPT !.clean = FALSE]
  BY <1>1, <1>2 DEF Becomes, Still
<1>4. ThreadInv(r) /\ DOMAIN r = ThreadFields
  BY <1>1, <1>3, ThreadOf
<1>5. SameThread(s, r) /\ (s.clean => r.clean /\ db' = db)
  BY <1>3, <1>4 DEF SameThread, SameData, ThreadFields
<1>6. ThreadInv(s)'
  BY <1>3, <1>4, <1>5, Carried
<1> QED BY <1>2, <1>6

\* A thread past its scan or its reading.
LEMMA Late ==
  ASSUME NEW next, ThreadType(next), ~Scanning(next), next.pc \notin {"examine", "apply"}
  PROVE  ThreadInv(next)'
<1>1. ~Compared(next) /\ next.pc # "save"
  BY DEF Compared, Scanning
<1>2. ReadInv(next)'
  BY <1>1 DEF ReadInv, Compared
<1>3. ExcusedInv(next)' /\ CleanScan(next)'
  BY DEF ExcusedInv, CleanScan, Scanning
<1> QED BY <1>2, <1>3, TypeStays DEF ThreadInv

\* An operation whose work is done, or failed.
LEMMA Ended ==
  ASSUME NEW r, ThreadInv(r), NEW pc \in {"finish", "recompute"}, NEW next, next = Over(r, pc)
  PROVE  ThreadInv(next)'
<1>1. SUFFICES ASSUME TRUE PROVE ThreadInv(next)' OBVIOUS
<1>2. DOMAIN r = ThreadFields /\ ThreadType(r)
  BY DEF ThreadInv, ThreadType
<1>3. /\ DOMAIN next = ThreadFields /\ next.pc = pc /\ next.op = r.op /\ next.shown = r.shown
      /\ next.todo = {}
  BY <1>2 DEF Over, ThreadFields
<1>4. ~Scanning(next) /\ ThreadType(next)
  BY <1>2, <1>3 DEF ThreadType, Scanning
<1> QED BY <1>3, <1>4, Late

\* What a transaction about the path p leaves of the other paths: it takes no
\* projector that was seen, or takes it to p.
Spares(d, new, p, seen, next) ==
  /\ \A q \in Paths \ {p} : new.locations[q] = d.locations[q]
  /\ \A q \in Paths \ {p} : ProjectorsAt(new, q) \subseteq ProjectorsAt(d, q)
  /\ \A j \in ProjectorIds :
        d.projectors[j] # None /\ d.projectors[j].state = "present" /\ d.projectors[j].path \in seen
        => /\ new.projectors[j] # None
           /\ new.projectors[j].state = "present" /\ new.projectors[j].path \in next

LEMMA SettledKept ==
  ASSUME WorldInv, Still, NEW r, NEW next, NEW p, NEW q \in Paths, q # p, SettledTruly(r, db, q),
         Spares(db, db', p, r.projectors, next.projectors),
         q \in next.models => q \in r.models, r.models \subseteq next.models,
         q \in next.projectors => q \in r.projectors
  PROVE  SettledTruly(next, db, q)'
<1> USE DEF Still
<1>1. HoldsProjector(q) => disk[q].content \in ProjectorIds
  BY ContentKinds DEF HoldsProjector, Readable
<1>2. /\ HoldsModel(q)' <=> HoldsModel(q)
      /\ HoldsProjector(q)' <=> HoldsProjector(q)
  BY DEF HoldsModel, HoldsProjector, Readable, KindAt
<1>3. (q \in next.models <=> HoldsModel(q))'
  BY <1>2 DEF SettledTruly
<1>4. HoldsModel(q) => /\ db'.locations[q] # None /\ db'.locations[q].state = "present"
                       /\ db'.locations[q].model = disk[q].content
  BY DEF SettledTruly, Spares
<1>5. q \in next.projectors => HoldsProjector(q) /\ \A j \in ProjectorsAt(db', q) : j = disk[q].content
  BY DEF SettledTruly, Spares
<1>6. HoldsProjector(q) => /\ db'.projectors[disk[q].content] # None
                           /\ db'.projectors[disk[q].content].state = "present"
                           /\ db'.projectors[disk[q].content].path \in next.projectors
  BY <1>1 DEF SettledTruly, Spares
<1> QED BY <1>2, <1>3, <1>4, <1>5, <1>6 DEF SettledTruly

\* What an undisturbed scan goes on knowing of the paths it is done with, while
\* it works on the path it is at.
LEMMA SettledOn ==
  ASSUME LibraryInv, Still, NEW w \in Workers, NEW r, workers[w] = r, r # None, Visiting(r),
         r.clean, NEW next,
         r.models \subseteq next.models, next.models \subseteq r.models \cup {r.path},
         next.projectors \subseteq r.projectors \cup {r.path},
         Spares(db, db', r.path, r.projectors, next.projectors),
         NEW p \in Settled(r)
  PROVE  CameBack(p)' \/ SettledTruly(next, db, p)'
<1>1. ThreadInv(r) /\ Scanning(r) /\ WorldInv /\ r.path \notin Settled(r)
  BY Visited DEF LibraryInv
<1>2. p \in Paths /\ p # r.path
  BY <1>1, LibraryAssumption DEF LibraryAssumption, ThreadInv, ThreadType, Settled
<1>3. CameBack(p) \/ SettledTruly(r, db, p)
  BY <1>1 DEF ThreadInv, CleanScan
<1>4. CASE SettledTruly(r, db, p)
  BY <1>1, <1>2, <1>4, SettledKept
<1> QED BY <1>3, <1>4 DEF CameBack, Still

\* The scan goes on after the path it visited.
LEMMA Onward ==
  ASSUME LibraryInv, Still, NEW w \in Workers, NEW r, workers[w] = r, r # None, Visiting(r),
         NEW next, SameData(next, r), next.pc = "walk", next.path = None,
         next.left = r.left, r.excused \subseteq next.excused,
         r.models \subseteq next.models, next.models \subseteq r.models \cup {r.path},
         next.projectors \subseteq r.projectors \cup {r.path},
         r.path \in next.models \/ r.path \in next.excused \/ CameBack(r.path),
         next.clean => /\ r.clean
                       /\ Spares(db, db', r.path, r.projectors, next.projectors)
                       /\ CameBack(r.path) \/ SettledTruly(next, db', r.path)
  PROVE  ThreadInv(next)'
<1> USE DEF Still
<1>1. /\ ThreadInv(r) /\ ThreadType(r) /\ WorldInv /\ Scanning(r)
      /\ r.path \in Paths /\ r.path \notin r.left /\ r.path \in Listed[r.op.arg]
      /\ r.left \subseteq Listed[r.op.arg]
      /\ r.op.kind = "Scan" /\ r.op \in Operations
  BY Visited DEF LibraryInv, ThreadInv, ThreadType
<1>2. None \notin Paths /\ Listed[r.op.arg] \subseteq Paths
  BY <1>1, LibraryAssumption DEF LibraryAssumption
<1>3. Scanning(next) /\ ~Visiting(next) /\ ~Compared(next) /\ ~Marking(next) /\ ~Reconciling(next)
  BY DEF Scanning, Visiting, Compared, Marking, Reconciling
<1>4. ThreadType(next)
  BY <1>1, <1>2, <1>3 DEF ThreadType, SameData
<1>5. ReadInv(next)'
  BY <1>3 DEF ReadInv, Compared
<1>6. Settled(next) = Settled(r) \cup {r.path}
  BY <1>1, <1>2 DEF Settled, SameData
<1>7. ExcusedInv(next)'
  <2>1. \A p \in Paths : HoldsModel(p)' \/ p \in next.excused
    BY <1>1 DEF ThreadInv, ExcusedInv, HoldsModel, Readable, KindAt
  <2>2. \A p \in Settled(r) : p \in next.models \/ p \in next.excused \/ CameBack(p)
    BY <1>1 DEF ThreadInv, ExcusedInv
  <2>3. ExcusedAt(next)'
    BY <1>3 DEF ExcusedAt, Compared, Marking
  <2> QED BY <1>6, <2>1, <2>2, <2>3 DEF ExcusedInv, Settled, CameBack
<1>8. ASSUME next.clean PROVE CleanScan(next)'
  <2>1. CleanScan(r)
    BY <1>1, <1>8 DEF ThreadInv
  <2>2. next.models \cup next.projectors \subseteq Settled(next)
    BY <1>1, <1>6, <2>1 DEF CleanScan
  <2>3. \A p \in Settled(r) : CameBack(p)' \/ SettledTruly(next, db, p)'
    BY <1>8, SettledOn
  <2>4. CameBack(r.path)' \/ SettledTruly(next, db, r.path)'
    BY <1>8 DEF SettledTruly, HoldsModel, HoldsProjector, Readable, KindAt, CameBack
  <2>5. \A p \in Settled(next) : CameBack(p)' \/ SettledTruly(next, db, p)'
    BY <1>6, <2>3, <2>4
  <2>6. CleanAt(next)'
    BY <1>3 DEF CleanAt, Compared, Marking
  <2> QED BY <2>2, <2>5, <2>6 DEF CleanScan, Settled
<1> QED BY <1>4, <1>5, <1>7, <1>8, TypeStays DEF ThreadInv

\* The scan goes on with the path it visits.
LEMMA Staying ==
  ASSUME LibraryInv, Still, NEW w \in Workers, NEW r, workers[w] = r, r # None, Visiting(r),
         NEW next, SameData(next, r), Visiting(next), next.path = r.path, next.left = r.left,
         next.excused = r.excused, next.models = r.models, next.projectors = r.projectors,
         ReadInv(next)', ExcusedAt(next)',
         next.clean => r.clean /\ Spares(db, db', r.path, r.projectors, r.projectors) /\ CleanAt(next)'
  PROVE  ThreadInv(next)'
<1> USE DEF Still
<1>1. /\ ThreadInv(r) /\ ThreadType(r) /\ Scanning(r)
  BY Visited DEF ThreadInv
<1>2. Scanning(next) /\ ~Reconciling(next) /\ next.pc \notin {"reconcileProjectors"}
  BY DEF Scanning, Visiting, Compared, Marking, Reconciling
<1>3. ThreadType(next)
  BY <1>1, <1>2 DEF ThreadType, SameData, Visiting, Compared, Marking
<1>4. Settled(next) = Settled(r)
  BY DEF Settled, SameData
<1>5. ExcusedInv(next)'
  <2>1. \A p \in Paths : HoldsModel(p)' \/ p \in next.excused
    BY <1>1 DEF ThreadInv, ExcusedInv, HoldsModel, Readable, KindAt
  <2>2. \A p \in Settled(r) : p \in next.models \/ p \in next.excused \/ CameBack(p)
    BY <1>1 DEF ThreadInv, ExcusedInv
  <2> QED BY <1>4, <2>1, <2>2 DEF ExcusedInv, Settled, CameBack
<1>6. ASSUME next.clean PROVE CleanScan(next)'
  <2>1. CleanScan(r)
    BY <1>1, <1>6 DEF ThreadInv
  <2>2. next.models \cup next.projectors \subseteq Settled(next)
    BY <1>1, <1>4, <2>1 DEF CleanScan
  <2>3. Spares(db, db', r.path, r.projectors, next.projectors)
    BY <1>6
  <2>4. \A p \in Settled(next) : CameBack(p)' \/ SettledTruly(next, db, p)'
    BY <1>4, <1>6, <2>3, SettledOn
  <2> QED BY <1>2, <1>6, <2>2, <2>4 DEF CleanScan, Settled
<1> QED BY <1>3, <1>5, <1>6, TypeStays DEF ThreadInv

\* The walk, at its next entry or at its end.
LEMMA Walking ==
  ASSUME LibraryInv, Still, db' = db, NEW w \in Workers, NEW r, workers[w] = r, r # None,
         r.pc = "walk", NEW next, SameData(next, r),
         next.models = r.models, next.projectors = r.projectors,
         r.excused \subseteq next.excused, next.clean => r.clean,
         next.left \subseteq r.left, next.path \notin next.left,
         \/ next.pc = "walk" /\ next.path = None
         \/ next.pc = "reconcile" /\ next.path = None /\ next.left = {}
         \/ next.pc = "fingerprint" /\ next.path \in r.left,
         \A p \in r.left \ (next.left \cup {next.path}) :
            p \in next.excused /\ (next.clean => disk[p] = None)
  PROVE  ThreadInv(next)'
<1> USE DEF Still
<1>1. Scanning(r) /\ Scanning(next) /\ ~Visiting(r) /\ ~Compared(next) /\ ~Marking(next)
  BY DEF Scanning, Visiting, Compared, Marking
<1>2. /\ ThreadInv(r) /\ ThreadType(r) /\ WorldInv
      /\ r.path = None /\ r.left \subseteq Listed[r.op.arg]
      /\ r.op.kind = "Scan" /\ r.op \in Operations
  BY <1>1 DEF LibraryInv, ThreadInv, ThreadType
<1>3. None \notin Paths /\ Listed[r.op.arg] \subseteq Paths
  BY <1>2, LibraryAssumption DEF LibraryAssumption
<1>4. ThreadType(next)
  BY <1>1, <1>2, <1>3 DEF ThreadType, SameData, Visiting, Reconciling
<1>5. ReadInv(next)'
  BY <1>1 DEF ReadInv, Compared
<1>6. /\ Settled(r) \subseteq Settled(next)
      /\ Settled(next) \subseteq Settled(r) \cup (r.left \ (next.left \cup {next.path}))
  BY <1>2, <1>3 DEF Settled, SameData
<1>7. ExcusedInv(next)'
  <2>1. \A p \in Paths : HoldsModel(p)' \/ p \in next.excused
    BY <1>1, <1>2 DEF ThreadInv, ExcusedInv, HoldsModel, Readable, KindAt
  <2>2. \A p \in Settled(r) : p \in r.models \/ p \in r.excused \/ CameBack(p)
    BY <1>1, <1>2 DEF ThreadInv, ExcusedInv
  <2>3. ExcusedAt(next)'
    BY <1>1 DEF ExcusedAt, Compared, Marking
  <2> QED BY <1>6, <2>1, <2>2, <2>3 DEF ExcusedInv, Settled, CameBack
<1>8. ASSUME next.clean PROVE CleanScan(next)'
  <2>1. CleanScan(r)
    BY <1>2, <1>8 DEF ThreadInv
  <2>2. next.models \cup next.projectors \subseteq Settled(next)
    BY <1>1, <1>6, <2>1 DEF CleanScan
  <2>3. \A p \in Settled(r) : CameBack(p)' \/ SettledTruly(next, db, p)'
    BY <1>1, <2>1 DEF CleanScan, SettledTruly, CameBack, HoldsModel, HoldsProjector, Readable, KindAt
  <2>4. ASSUME NEW p \in r.left \ (next.left \cup {next.path}) PROVE SettledTruly(next, db, p)'
    <3>1. p \notin r.models \cup r.projectors
      BY <1>1, <2>1 DEF CleanScan, Settled
    <3>2. disk[p] = None
      BY <1>8
    <3> QED BY <3>1, <3>2 DEF SettledTruly, HoldsModel, HoldsProjector, Readable
  <2>5. \A p \in Settled(next) : CameBack(p)' \/ SettledTruly(next, db, p)'
    BY <1>6, <2>3, <2>4
  <2>6. CleanAt(next)' /\ next.pc # "reconcileProjectors"
    BY <1>1 DEF CleanAt, Compared, Marking
  <2> QED BY <2>2, <2>5, <2>6 DEF CleanScan, Settled
<1> QED BY <1>4, <1>5, <1>7, <1>8, TypeStays DEF ThreadInv

\* A scan that goes back to its walk.
LEMMA BackFields ==
  ASSUME NEW s, DOMAIN s = ThreadFields, NEW next, next = Back(s), next # None
  PROVE  /\ SameData(next, s) /\ next.pc = "walk" /\ next.path = None
         /\ next.left = s.left /\ next.models = s.models /\ next.projectors = s.projectors
         /\ next.excused = s.excused /\ next.clean = s.clean
<1>1. next = [s EXCEPT !.pc = "walk", !.path = None, !.fingerprint = None, !.content = None]
  BY DEF Back, Progress
<1> QED BY <1>1 DEF SameData, ThreadFields

LEMMA WalkThread ==
  ASSUME LibraryInv, NEW w \in Workers, Walk(w), NEW next, next = workers'[w], next # None
  PROVE  ThreadInv(next)'
<1>1. PICK r : r = workers[w] OBVIOUS
<1>2. r # None /\ r.pc = "walk" /\ Still /\ db' = db
  BY <1>1 DEF Walk, At, Still, Move
<1>3. ThreadInv(r) /\ DOMAIN r = ThreadFields /\ WorldInv /\ Scanning(r) /\ ~Visiting(r)
  BY <1>1, <1>2, ThreadOf DEF Scanning, Visiting, Compared, Marking
<1>4. r.path = None /\ r.left \subseteq Paths /\ None \notin Paths
  BY <1>3, LibraryAssumption DEF LibraryAssumption, ThreadInv, ThreadType
<1>5. CASE next = [r EXCEPT !.pc = "summary"]
  <2>1. /\ DOMAIN next = ThreadFields /\ next.pc = "summary" /\ next.op = r.op
        /\ next.shown = r.shown /\ next.todo = r.todo
    BY <1>3, <1>5 DEF ThreadFields
  <2>2. ThreadType(next) /\ ~Scanning(next)
    BY <1>3, <2>1 DEF ThreadInv, ThreadType, Scanning
  <2> QED BY <2>1, <2>2, Late
<1>6. CASE next = [r EXCEPT !.pc = "reconcile"] /\ r.left = {}
  <2>1. /\ SameData(next, r) /\ next.pc = "reconcile"
        /\ next.models = r.models /\ next.projectors = r.projectors /\ next.excused = r.excused
        /\ (next.clean => r.clean) /\ next.left = r.left /\ next.path = r.path
    BY <1>3, <1>6 DEF SameData, ThreadFields
  <2>2. r.left \ (next.left \cup {next.path}) = {} /\ next.path \notin next.left
    BY <1>6, <2>1
  <2> QED BY <1>1, <1>2, <1>4, <1>6, <2>1, <2>2, Walking
<1>7. ASSUME NEW p \in r.left, disk[p] = None, next = [r EXCEPT !.left = @ \ {p}]
      PROVE  ThreadInv(next)'
  <2>1. /\ SameData(next, r) /\ next.pc = "walk"
        /\ next.models = r.models /\ next.projectors = r.projectors /\ next.excused = r.excused
        /\ (next.clean => r.clean) /\ next.left = r.left \ {p} /\ next.path = r.path
    BY <1>2, <1>3, <1>7 DEF SameData, ThreadFields
  <2>2. p \in r.excused
    BY <1>3, <1>4, <1>7 DEF ThreadInv, ExcusedInv, HoldsModel, Readable
  <2>3. r.left \ (next.left \cup {next.path}) \subseteq {p} /\ next.path \notin next.left
    BY <1>4, <2>1
  <2> QED BY <1>1, <1>2, <1>4, <1>7, <2>1, <2>2, <2>3, Walking
<1>8. ASSUME NEW p \in r.left,
             next = [[r EXCEPT !.left = @ \ {p}] EXCEPT !.pc = "fingerprint", !.path = p]
      PROVE  ThreadInv(next)'
  <2>1. /\ SameData(next, r) /\ next.pc = "fingerprint"
        /\ next.models = r.models /\ next.projectors = r.projectors /\ next.excused = r.excused
        /\ (next.clean => r.clean) /\ next.left = r.left \ {p} /\ next.path = p
    BY <1>3, <1>8 DEF SameData, ThreadFields
  <2>2. r.left \ (next.left \cup {next.path}) = {} /\ next.path \notin next.left
    BY <2>1
  <2>3. next.path \in r.left /\ r.excused \subseteq next.excused
    BY <1>8, <2>1
  <2> QED BY <1>1, <1>2, <2>1, <2>2, <2>3, Walking
<1>9. \/ next = [r EXCEPT !.pc = "summary"]
      \/ next = [r EXCEPT !.pc = "reconcile"] /\ r.left = {}
      \/ \E p \in r.left :
           next = IF disk[p] = None THEN [r EXCEPT !.left = @ \ {p}]
                  ELSE Progress([[r EXCEPT !.left = @ \ {p}] EXCEPT !.pc = "fingerprint", !.path = p])
  BY <1>1, <1>3 DEF Walk, Move, WorldInv
<1> QED BY <1>5, <1>6, <1>7, <1>8, <1>9 DEF Progress

LEMMA WalkErrorThread ==
  ASSUME LibraryInv, NEW w \in Workers, WalkError(w), NEW next, next = workers'[w], next # None
  PROVE  ThreadInv(next)'
<1>1. PICK r : r = workers[w] OBVIOUS
<1>2. r # None /\ r.pc = "walk" /\ Still /\ db' = db
  BY <1>1 DEF WalkError, At, Still, Fail
<1>3. ThreadInv(r) /\ DOMAIN r = ThreadFields /\ WorldInv /\ Scanning(r) /\ ~Visiting(r)
  BY <1>1, <1>2, ThreadOf DEF Scanning, Visiting, Compared, Marking
<1>4. r.path = None /\ r.left \subseteq Paths /\ None \notin Paths
  BY <1>3, LibraryAssumption DEF LibraryAssumption, ThreadInv, ThreadType
<1>5. PICK p \in r.left : next = [r EXCEPT !.left = @ \ {p}, !.excused = @ \cup {p}, !.clean = FALSE]
  BY <1>1, <1>3 DEF WalkError, Fail, Progress, WorldInv
<1>6. /\ SameData(next, r) /\ next.pc = "walk"
      /\ next.models = r.models /\ next.projectors = r.projectors
      /\ next.excused = r.excused \cup {p}
      /\ next.clean = FALSE /\ next.left = r.left \ {p} /\ next.path = r.path
  BY <1>2, <1>3, <1>5 DEF SameData, ThreadFields
<1>7. r.left \ (next.left \cup {next.path}) \subseteq {p} /\ next.path \notin next.left
  BY <1>4, <1>6
<1> QED BY <1>1, <1>2, <1>4, <1>6, <1>7, Walking

LEMMA LocationsSpare ==
  ASSUME NEW d, NEW new, NEW p, NEW seen, NEW next, seen \subseteq next,
         \A q \in Paths \ {p} : new.locations[q] = d.locations[q], new.projectors = d.projectors
  PROVE  Spares(d, new, p, seen, next)
BY DEF Spares, ProjectorsAt

LEMMA SetLocationsSpares ==
  ASSUME NEW d, Store(d), NEW p \in Paths, NEW s \in LocationStates, NEW seen, NEW next,
         seen \subseteq next
  PROVE  Spares(d, SetLocations(d, {p}, s), p, seen, next)
<1> DEFINE new == SetLocations(d, {p}, s)
<1>1. \A q \in Paths \ {p} : new.locations[q] = d.locations[q]
  BY SetLocationsAt
<1>2. new.projectors = d.projectors
  BY SetLocationsRest
<1> HIDE DEF new
<1> QED BY <1>1, <1>2, LocationsSpare DEF new

LEMMA SetProjectorsSpares ==
  ASSUME NEW d, Store(d), NEW p \in Paths, NEW s \in LocationStates, NEW seen, NEW next,
         seen \subseteq next, p \notin seen
  PROVE  Spares(d, SetProjectors(d, {p}, s), p, seen, next)
<1> DEFINE new == SetProjectors(d, {p}, s)
<1>1. new.projectors = [j \in ProjectorIds |->
              IF d.projectors[j] # None /\ d.projectors[j].path \in {p}
              THEN [d.projectors[j] EXCEPT !.state = s] ELSE d.projectors[j]]
  BY SetProjectorsFields
<1>2. new.locations = d.locations
  BY SetProjectorsRest
<1> HIDE DEF new
<1>3. \A j \in ProjectorIds :
        \/ new.projectors[j] = d.projectors[j]
        \/ /\ d.projectors[j] # None /\ d.projectors[j].path = p
           /\ new.projectors[j].path = p
  BY <1>1, RowsAreRecords DEF Store
<1> QED BY <1>2, <1>3 DEF Spares, ProjectorsAt, new

LEMMA SaveProjectorSpares ==
  ASSUME NEW d, Store(d), NEW j \in ProjectorIds, NEW p \in Paths, NEW f \in Files, NEW seen,
         p \notin seen
  PROVE  Spares(d, SaveProjector(d, j, p, f), p, seen, seen \cup {p})
<1> DEFINE new == SaveProjector(d, j, p, f)
<1>1. /\ new.projectors = [k \in ProjectorIds |->
            IF k = j THEN [path |-> p, fingerprint |-> f, state |-> "present"]
            ELSE IF k \in ProjectorsAt(d, p) THEN None ELSE d.projectors[k]]
      /\ new.locations = d.locations
  BY SaveProjectorFields
<1>2. [path |-> p, fingerprint |-> f, state |-> "present"] # None
  BY RowsAreRecords DEF ProjectorRows, LocationStates
<1> HIDE DEF new
<1> QED BY <1>1, <1>2 DEF Spares, ProjectorsAt, new

\* A step of a scan that leaves the tables spares everything.
LEMMA NothingSpares ==
  ASSUME db' = db, NEW p, NEW seen, NEW next, seen \subseteq next
  PROVE  Spares(db, db', p, seen, next)
BY LocationsSpare

LEMMA FingerprintThread ==
  ASSUME LibraryInv, NEW w \in Workers, Fingerprint(w), NEW next, next = workers'[w], next # None
  PROVE  ThreadInv(next)'
<1>1. PICK r : r = workers[w] OBVIOUS
<1>2. r # None /\ r.pc = "fingerprint" /\ Still /\ db' = db /\ Visiting(r)
  BY <1>1 DEF Fingerprint, At, Still, Move, Visiting
<1>3. /\ ThreadInv(r) /\ DOMAIN r = ThreadFields /\ Scanning(r) /\ r.path \in Paths /\ WorldInv
      /\ HoldsModel(r.path) \/ r.path \in r.excused
  BY <1>1, <1>2, Visited DEF LibraryInv, ThreadInv, ExcusedInv
<1>4. Spares(db, db', r.path, r.projectors, r.projectors)
  BY <1>2, NothingSpares
<1>5. CASE Readable(r.path) /\ next = [r EXCEPT !.pc = "lookup", !.fingerprint = disk[r.path]]
  <2>1. /\ SameData(next, r) /\ next.pc = "lookup" /\ next.path = r.path /\ next.left = r.left
        /\ next.excused = r.excused /\ next.models = r.models /\ next.projectors = r.projectors
        /\ (next.clean => r.clean) /\ next.fingerprint = disk[r.path]
    BY <1>3, <1>5 DEF SameData, ThreadFields
  <2>2. Visiting(next) /\ Compared(next) /\ ~Marking(next)
    BY <2>1 DEF Visiting, Compared, Marking
  <2>3. ReadAt(disk[r.path], r.path)
    BY <1>3, <1>5, ContentKinds DEF ReadAt, Readable
  <2>4. ReadInv(next)' /\ ExcusedAt(next)' /\ CleanAt(next)'
    BY <1>2, <1>5, <2>1, <2>2, <2>3 DEF ReadInv, ReadAt, ExcusedAt, CleanAt, Compared, Marking,
                                        Readable, Still
  <2> QED BY <1>1, <1>2, <1>4, <2>1, <2>2, <2>4, Staying
<1>6. CASE ~Readable(r.path) /\ next = [r EXCEPT !.pc = "mark"]
  <2>1. /\ SameData(next, r) /\ next.pc = "mark" /\ next.path = r.path /\ next.left = r.left
        /\ next.excused = r.excused /\ next.models = r.models /\ next.projectors = r.projectors
        /\ (next.clean => r.clean)
    BY <1>3, <1>6 DEF SameData, ThreadFields
  <2>2. Visiting(next) /\ ~Compared(next) /\ Marking(next)
    BY <2>1 DEF Visiting, Compared, Marking
  <2>3. ReadInv(next)' /\ ExcusedAt(next)' /\ CleanAt(next)'
    BY <1>2, <1>3, <1>6, <2>1, <2>2
       DEF ReadInv, ExcusedAt, CleanAt, Compared, Marking, HoldsModel, HoldsProjector, Readable, Still
  <2> QED BY <1>1, <1>2, <1>4, <2>1, <2>2, <2>3, Staying
<1> QED BY <1>1, <1>3, <1>5, <1>6 DEF Fingerprint, Move, WorldInv

LEMMA MarkThread ==
  ASSUME LibraryInv, NEW w \in Workers, Mark(w) \/ MarkProjector(w),
         NEW next, next = workers'[w], next # None
  PROVE  ThreadInv(next)'
<1>1. PICK r : r = workers[w] OBVIOUS
<1>2. r # None /\ r.pc \in {"mark", "markProjector"} /\ Still /\ Visiting(r) /\ Marking(r)
  BY <1>1 DEF Mark, MarkProjector, At, Still, Commit, Fail, Visiting, Marking
<1>3. /\ ThreadInv(r) /\ DOMAIN r = ThreadFields /\ Scanning(r) /\ r.path \in Paths
      /\ DOMAIN workers = Workers /\ r.path \in r.excused /\ Store(db)
  BY <1>1, <1>2, Visited DEF LibraryInv, WorldInv, ThreadInv, ExcusedInv, ExcusedAt, Tables
<1>4. r.clean => /\ ~HoldsModel(r.path) /\ ~HoldsProjector(r.path)
                 /\ r.path \notin r.models \cup r.projectors
  BY <1>1, <1>2, <1>3, Visited DEF ThreadInv, CleanScan, CleanAt
<1>5. ASSUME r.clean,
             db' \in {db, MarkUnreadable(db, r.path), MarkProjectorUnreadable(db, r.path)}
      PROVE  Spares(db, db', r.path, r.projectors, r.projectors)
  <2>1. "unreadable" \in LocationStates BY DEF LocationStates
  <2>2. Spares(db, MarkUnreadable(db, r.path), r.path, r.projectors, r.projectors)
    BY <1>3, <2>1, SetLocationsSpares DEF MarkUnreadable
  <2>3. Spares(db, MarkProjectorUnreadable(db, r.path), r.path, r.projectors, r.projectors)
    BY <1>3, <1>4, <1>5, <2>1, SetProjectorsSpares DEF MarkProjectorUnreadable
  <2>4. CASE db' = db
    BY <2>4, NothingSpares
  <2> QED BY <1>5, <2>2, <2>3, <2>4
<1>6. CASE next = [r EXCEPT !.pc = "markProjector"] /\ db' = MarkUnreadable(db, r.path)
  <2>1. /\ SameData(next, r) /\ next.pc = "markProjector" /\ next.path = r.path
        /\ next.left = r.left /\ next.excused = r.excused
        /\ next.models = r.models /\ next.projectors = r.projectors /\ (next.clean => r.clean)
    BY <1>3, <1>6 DEF SameData, ThreadFields
  <2>2. Visiting(next) /\ ~Compared(next) /\ Marking(next)
    BY <2>1 DEF Visiting, Compared, Marking
  <2>3. ReadInv(next)' /\ ExcusedAt(next)'
    BY <1>3, <2>1, <2>2 DEF ReadInv, ExcusedAt, Compared, Marking
  <2>4. next.clean => CleanAt(next)'
    BY <1>2, <1>4, <2>1, <2>2 DEF CleanAt, Compared, Marking, HoldsModel, HoldsProjector, Readable,
                                  KindAt, Still
  <2>5. next.clean => r.clean /\ Spares(db, db', r.path, r.projectors, r.projectors)
    BY <1>5, <1>6, <2>1
  <2> QED BY <1>1, <1>2, <2>1, <2>2, <2>3, <2>4, <2>5, Staying
<1>7. CASE next = Back(r) /\ db' \in {db, MarkProjectorUnreadable(db, r.path)}
  <2>1. /\ SameData(next, r) /\ next.pc = "walk" /\ next.path = None /\ next.left = r.left
        /\ next.excused = r.excused /\ next.models = r.models /\ next.projectors = r.projectors
        /\ next.clean = r.clean
    BY <1>3, <1>7, BackFields
  <2>2. next.clean => SettledTruly(next, db', r.path)
    BY <1>4, <2>1 DEF SettledTruly
  <2>3. next.clean => r.clean /\ Spares(db, db', r.path, r.projectors, next.projectors)
    BY <1>5, <1>7, <2>1
  <2>4. r.path \in next.excused
    BY <1>3, <2>1
  <2> QED BY <1>1, <1>2, <2>1, <2>2, <2>3, <2>4, Onward
<1> QED BY <1>1, <1>3, <1>6, <1>7 DEF Mark, MarkProjector, Commit, Fail

\* A row with the fingerprint of the file that is there has its content.
LEMMA ReusedIsTrue ==
  ASSUME LibraryInv, NEW p \in Paths, disk[p] # None, ~CameBack(p)
  PROVE  /\ db.locations[p] # None /\ db.locations[p].fingerprint = disk[p]
            => KindAt(p) = "model" /\ db.locations[p].model = disk[p].content
         /\ \A j \in ProjectorsAt(db, p) : db.projectors[j].fingerprint = disk[p]
            => KindAt(p) = "projector" /\ j = disk[p].content
<1>1. Store(db) /\ TrueRows(db, past)
  BY DEF LibraryInv, Tables
<1>2. ASSUME db.locations[p] # None, db.locations[p].fingerprint = disk[p]
      PROVE  KindAt(p) = "model" /\ db.locations[p].model = disk[p].content
  BY <1>1, <1>2 DEF Store, TrueRows, CameBack, LocationRows, ModelIds, KindAt
<1>3. ASSUME NEW j \in ProjectorsAt(db, p), db.projectors[j].fingerprint = disk[p]
      PROVE  KindAt(p) = "projector" /\ j = disk[p].content
  BY <1>1, <1>3 DEF TrueRows, CameBack, ProjectorsAt, ProjectorIds, KindAt
<1> QED BY <1>2, <1>3

LEMMA LookupThread ==
  ASSUME LibraryInv, NEW w \in Workers, Lookup(w) \/ LookupProjector(w),
         NEW next, next = workers'[w], next # None
  PROVE  ThreadInv(next)'
<1>1. PICK r : r = workers[w] OBVIOUS
<1>2. /\ r # None /\ r.pc \in {"lookup", "lookupProjector"} /\ Still /\ db' = db
      /\ Visiting(r) /\ Compared(r)
  BY <1>1 DEF Lookup, LookupProjector, At, Still, Move, Fail, Visiting, Compared
<1>3. /\ ThreadInv(r) /\ DOMAIN r = ThreadFields /\ Scanning(r) /\ r.path \in Paths
      /\ DOMAIN workers = Workers /\ WorldInv
      /\ HoldsModel(r.path) \/ r.path \in r.excused
      /\ r.path \in r.excused \/ r.fingerprint = disk[r.path]
      /\ ReadAt(r.fingerprint, r.path)
  BY <1>1, <1>2, Visited DEF LibraryInv, WorldInv, ThreadInv, ReadInv, ExcusedInv, ExcusedAt
<1>4. r.clean => Readable(r.path) /\ r.fingerprint = disk[r.path]
  BY <1>2, <1>3 DEF ThreadInv, CleanScan, CleanAt
<1>5. Spares(db, db', r.path, r.projectors, r.projectors)
  BY <1>2, NothingSpares
<1>6. CASE next = Failed(r)
  BY <1>3, <1>6, Ended DEF Failed
<1>7. ASSUME NEW pc \in {"touch", "lookupProjector", "touchProjector", "inspect"},
             next = [r EXCEPT !.pc = pc],
             pc = "touch" => KnownModel(r), pc = "touchProjector" => KnownProjector(r)
      PROVE  ThreadInv(next)'
  <2>1. /\ SameData(next, r) /\ next.pc = pc /\ next.path = r.path /\ next.left = r.left
        /\ next.excused = r.excused /\ next.models = r.models /\ next.projectors = r.projectors
        /\ (next.clean => r.clean) /\ next.fingerprint = r.fingerprint
    BY <1>3, <1>7 DEF SameData, ThreadFields
  <2>2. Visiting(next) /\ Compared(next) /\ ~Marking(next) /\ next.pc # "save"
    BY <1>7, <2>1 DEF Visiting, Compared, Marking
  <2>3. ReadInv(next)'
    BY <1>2, <1>3, <2>1, <2>2 DEF ReadInv, ReadAt, Compared, Still
  <2>4. pc = "touchProjector" => r.path \in r.excused \/ CameBack(r.path)
    <3>1. ASSUME KnownProjector(r), r.fingerprint = disk[r.path], ~CameBack(r.path), Readable(r.path)
          PROVE  KindAt(r.path) = "projector"
      BY <1>3, <3>1, ReusedIsTrue DEF KnownProjector, Readable
    <3>2. ASSUME KnownProjector(r), r.fingerprint = disk[r.path], ~CameBack(r.path)
          PROVE  ~HoldsModel(r.path)
      BY <3>1, <3>2 DEF HoldsModel
    <3> QED BY <1>3, <1>7, <3>2
  <2>5. ExcusedAt(next)'
    BY <1>2, <1>3, <2>1, <2>2, <2>4 DEF ExcusedAt, Compared, Marking, CameBack, Still
  <2>6. next.clean => CleanAt(next)'
    BY <1>2, <1>4, <1>7, <2>1, <2>2
       DEF CleanAt, Compared, Marking, KnownModel, KnownProjector, ProjectorsAt, Readable, Still
  <2> QED BY <1>1, <1>2, <1>5, <2>1, <2>2, <2>3, <2>5, <2>6, Staying
<1> QED BY <1>1, <1>3, <1>6, <1>7 DEF Lookup, LookupProjector, Move, Fail

LEMMA InspectThread ==
  ASSUME LibraryInv, NEW w \in Workers, Inspect(w), NEW next, next = workers'[w], next # None
  PROVE  ThreadInv(next)'
<1>1. PICK r : r = workers[w] OBVIOUS
<1>2. r # None /\ r.pc = "inspect" /\ Still /\ db' = db /\ Visiting(r) /\ Compared(r)
  BY <1>1 DEF Inspect, At, Still, Move, Visiting, Compared
<1>3. /\ ThreadInv(r) /\ DOMAIN r = ThreadFields /\ Scanning(r) /\ r.path \in Paths
      /\ DOMAIN workers = Workers /\ WorldInv
      /\ HoldsModel(r.path) \/ r.path \in r.excused
      /\ r.path \in r.excused \/ r.fingerprint = disk[r.path]
      /\ ReadAt(r.fingerprint, r.path)
  BY <1>1, <1>2, Visited DEF LibraryInv, WorldInv, ThreadInv, ReadInv, ExcusedInv, ExcusedAt
<1>4. r.clean => r.fingerprint = disk[r.path]
  BY <1>2, <1>3 DEF ThreadInv, CleanScan, CleanAt
<1>5. Spares(db, db', r.path, r.projectors, r.projectors)
  BY <1>2, NothingSpares
<1>6. CASE /\ Readable(r.path) /\ KindAt(r.path) # "malformed"
           /\ next = [r EXCEPT !.pc = "save", !.content = disk[r.path].content]
  <2>1. /\ SameData(next, r) /\ next.pc = "save" /\ next.path = r.path /\ next.left = r.left
        /\ next.excused = r.excused /\ next.models = r.models /\ next.projectors = r.projectors
        /\ (next.clean => r.clean) /\ next.fingerprint = r.fingerprint
        /\ next.content = disk[r.path].content
    BY <1>3, <1>6 DEF SameData, ThreadFields
  <2>2. Visiting(next) /\ Compared(next) /\ ~Marking(next)
    BY <2>1 DEF Visiting, Compared, Marking
  <2>3. /\ ContentAt(next.content, r.fingerprint, r.path)
        /\ Info[next.content].kind \in {"model", "projector"}
        /\ Info[next.content].kind = KindAt(r.path)
    BY <1>3, <1>6, <2>1, ContentKinds, ContentRead DEF Readable, KindAt
  <2>4. ReadInv(next)'
    BY <1>2, <1>3, <2>1, <2>2, <2>3 DEF ReadInv, ReadAt, ContentAt, Compared, Still
  <2>5. ExcusedAt(next)'
    BY <1>2, <1>3, <2>1, <2>2, <2>3 DEF ExcusedAt, Compared, Marking, HoldsModel, Still
  <2>6. next.clean => CleanAt(next)'
    BY <1>2, <1>4, <1>6, <2>1, <2>2 DEF CleanAt, Compared, Marking, Readable, Still
  <2> QED BY <1>1, <1>2, <1>5, <2>1, <2>2, <2>4, <2>5, <2>6, Staying
<1>7. CASE ~(Readable(r.path) /\ KindAt(r.path) # "malformed") /\ next = [r EXCEPT !.pc = "mark"]
  <2>1. /\ SameData(next, r) /\ next.pc = "mark" /\ next.path = r.path /\ next.left = r.left
        /\ next.excused = r.excused /\ next.models = r.models /\ next.projectors = r.projectors
        /\ (next.clean => r.clean)
    BY <1>3, <1>7 DEF SameData, ThreadFields
  <2>2. Visiting(next) /\ ~Compared(next) /\ Marking(next)
    BY <2>1 DEF Visiting, Compared, Marking
  <2>3. ~HoldsModel(r.path) /\ ~HoldsProjector(r.path)
    BY <1>7 DEF HoldsModel, HoldsProjector
  <2>4. ReadInv(next)' /\ ExcusedAt(next)'
    BY <1>3, <2>1, <2>2, <2>3 DEF ReadInv, ExcusedAt, Compared, Marking
  <2>5. CleanAt(next)'
    BY <1>2, <2>1, <2>2, <2>3 DEF CleanAt, Compared, Marking, HoldsModel, HoldsProjector, Readable,
                                  KindAt, Still
  <2> QED BY <1>1, <1>2, <1>5, <2>1, <2>2, <2>4, <2>5, Staying
<1> QED BY <1>1, <1>3, <1>6, <1>7 DEF Inspect, Move

\* What a scan knows when it is about to write the row of its path.
LEMMA Writing ==
  ASSUME LibraryInv, NEW w \in Workers, NEW r, r = workers[w], r # None, Visiting(r), Compared(r)
  PROVE  /\ ThreadInv(r) /\ DOMAIN r = ThreadFields /\ DOMAIN workers = Workers
         /\ r.path \in Paths /\ WorldInv /\ Store(db) /\ UniquePaths(db)
         /\ ReadInv(r) /\ ExcusedAt(r)
         /\ r.clean => /\ Readable(r.path) /\ r.fingerprint = disk[r.path] /\ CleanAt(r)
                       /\ r.path \notin r.models \cup r.projectors
<1>1. ThreadInv(r) /\ DOMAIN r = ThreadFields /\ Scanning(r) /\ r.path \in Paths
  BY Visited
<1>2. r.clean => r.path \notin r.models \cup r.projectors
  BY Visited
<1> QED BY <1>1, <1>2 DEF LibraryInv, WorldInv, Tables, ThreadInv, ExcusedInv, CleanScan, CleanAt

\* A row that was skipped, or the path of which was seen by another operation.
LEMMA SkippedThread ==
  ASSUME LibraryInv, NEW w \in Workers, NEW r, r = workers[w], r # None, Visiting(r), Still,
         NEW next, next = Back(Skipped(r)), next # None
  PROVE  ThreadInv(next)'
<1>1. DOMAIN r = ThreadFields
  BY Visited
<1>2. PICK s : s = Skipped(r) OBVIOUS
<1>3. /\ SameData(s, r) /\ s.left = r.left /\ s.models = r.models /\ s.projectors = r.projectors
      /\ s.excused = r.excused \cup {r.path} /\ s.clean = FALSE
  BY <1>1, <1>2 DEF Skipped, SameData, ThreadFields
<1>4. /\ SameData(next, s) /\ next.pc = "walk" /\ next.path = None /\ next.left = s.left
      /\ next.models = s.models /\ next.projectors = s.projectors /\ next.excused = s.excused
      /\ next.clean = s.clean
  BY <1>2, <1>3, BackFields DEF SameData
<1>5. SameData(next, r)
  BY <1>3, <1>4 DEF SameData
<1> QED BY <1>3, <1>4, <1>5, Onward

LEMMA SawFields ==
  ASSUME NEW r, DOMAIN r = ThreadFields, NEW next, next = Back(Saw(r)), next # None
  PROVE  /\ SameData(next, r) /\ next.pc = "walk" /\ next.path = None /\ next.left = r.left
         /\ next.models = r.models \cup {r.path} /\ next.projectors = r.projectors
         /\ next.excused = r.excused /\ next.clean = r.clean
<1>1. PICK s : s = Saw(r) OBVIOUS
<1>2. /\ SameData(s, r) /\ s.left = r.left /\ s.models = r.models \cup {r.path}
      /\ s.projectors = r.projectors /\ s.excused = r.excused /\ s.clean = r.clean
  BY <1>1 DEF Saw, SameData, ThreadFields
<1> QED BY <1>1, <1>2, BackFields DEF SameData

LEMMA SawProjectorFields ==
  ASSUME NEW r, DOMAIN r = ThreadFields, NEW next, next = Back(SawProjector(r)), next # None
  PROVE  /\ SameData(next, r) /\ next.pc = "walk" /\ next.path = None /\ next.left = r.left
         /\ next.models = r.models /\ next.projectors = r.projectors \cup {r.path}
         /\ next.excused = r.excused /\ next.clean = r.clean
<1>1. PICK s : s = SawProjector(r) OBVIOUS
<1>2. /\ SameData(s, r) /\ s.left = r.left /\ s.models = r.models
      /\ s.projectors = r.projectors \cup {r.path} /\ s.excused = r.excused /\ s.clean = r.clean
  BY <1>1 DEF SawProjector, SameData, ThreadFields
<1> QED BY <1>1, <1>2, BackFields DEF SameData

LEMMA TouchModelThread ==
  ASSUME LibraryInv, NEW w \in Workers, NEW r, r = workers[w], r # None, r.pc = "touch", Still,
         db' = Touch(db, r.path), NEW next, next = Back(Saw(r)), next # None
  PROVE  ThreadInv(next)'
<1> DEFINE p == r.path
<1>1. Visiting(r) /\ Compared(r)
  BY DEF Visiting, Compared
<1>2. /\ ThreadInv(r) /\ DOMAIN r = ThreadFields /\ p \in Paths /\ WorldInv /\ Store(db)
      /\ r.clean => /\ Readable(p) /\ r.fingerprint = disk[p] /\ KnownModel(r)
                    /\ p \notin r.models \cup r.projectors
  BY <1>1, Writing DEF CleanAt
<1>3. /\ SameData(next, r) /\ next.pc = "walk" /\ next.path = None /\ next.left = r.left
      /\ next.models = r.models \cup {p} /\ next.projectors = r.projectors
      /\ next.excused = r.excused /\ next.clean = r.clean
  BY <1>2, SawFields
<1>4. "present" \in LocationStates
  BY DEF LocationStates
<1>5. Spares(db, db', p, r.projectors, next.projectors)
  BY <1>2, <1>3, <1>4, SetLocationsSpares DEF Touch
<1>6. ASSUME next.clean, ~CameBack(p) PROVE SettledTruly(next, db', p)
  <2>1. /\ Readable(p) /\ db.locations[p] # None /\ db.locations[p].fingerprint = disk[p]
        /\ p \notin r.projectors
    BY <1>2, <1>3, <1>6 DEF KnownModel
  <2>2. KindAt(p) = "model" /\ db.locations[p].model = disk[p].content
    BY <1>2, <1>6, <2>1, ReusedIsTrue DEF Readable
  <2>3. db'.locations = [q \in Paths |->
            IF q \in {p} /\ db.locations[q] # None
            THEN [db.locations[q] EXCEPT !.state = "present"] ELSE db.locations[q]]
    <3>1. SetLocations(db, {p}, "present").locations = [q \in Paths |->
            IF q \in {p} /\ db.locations[q] # None
            THEN [db.locations[q] EXCEPT !.state = "present"] ELSE db.locations[q]]
      BY <1>2, <1>4, SetLocationsFields
    <3> QED BY <3>1 DEF Touch
  <2>4. db'.locations[p] = [db.locations[p] EXCEPT !.state = "present"]
    BY <1>2, <2>1, <2>3
  <2>5. db.locations[p] \in LocationRows
    BY <1>2, <2>1 DEF Store
  <2>6. /\ [db.locations[p] EXCEPT !.state = "present"] \in LocationRows
        /\ [db.locations[p] EXCEPT !.state = "present"].state = "present"
        /\ [db.locations[p] EXCEPT !.state = "present"].model = db.locations[p].model
    BY <2>5 DEF LocationRows, LocationStates
  <2>7. /\ db'.locations[p] # None /\ db'.locations[p].state = "present"
        /\ db'.locations[p].model = disk[p].content
    BY <2>2, <2>4, <2>6, RowsAreRecords
  <2> QED BY <1>3, <2>1, <2>2, <2>7 DEF SettledTruly, HoldsModel, HoldsProjector
<1> HIDE DEF p
<1> QED BY <1>1, <1>3, <1>5, <1>6, Onward, ZenonT(60) DEF p

LEMMA TouchProjectorThread ==
  ASSUME LibraryInv, NEW w \in Workers, NEW r, r = workers[w], r # None,
         r.pc = "touchProjector", Still,
         db' = TouchProjector(db, r.path), NEW next, next = Back(SawProjector(r)), next # None
  PROVE  ThreadInv(next)'
<1> DEFINE p == r.path
<1>1. Visiting(r) /\ Compared(r)
  BY DEF Visiting, Compared
<1>2. /\ ThreadInv(r) /\ DOMAIN r = ThreadFields /\ p \in Paths /\ WorldInv /\ Store(db)
      /\ UniquePaths(db) /\ (p \in r.excused \/ CameBack(p))
      /\ r.clean => /\ Readable(p) /\ r.fingerprint = disk[p] /\ KnownProjector(r)
                    /\ p \notin r.models \cup r.projectors
  BY <1>1, Writing DEF CleanAt, ExcusedAt
<1>3. /\ SameData(next, r) /\ next.pc = "walk" /\ next.path = None /\ next.left = r.left
      /\ next.models = r.models /\ next.projectors = r.projectors \cup {p}
      /\ next.excused = r.excused /\ next.clean = r.clean
  BY <1>2, SawProjectorFields
<1>4. "present" \in LocationStates
  BY DEF LocationStates
<1>5. next.clean => Spares(db, db', p, r.projectors, next.projectors)
  BY <1>2, <1>3, <1>4, SetProjectorsSpares DEF TouchProjector
<1>6. ASSUME next.clean, ~CameBack(p) PROVE SettledTruly(next, db', p)
  <2>1. PICK j \in ProjectorsAt(db, p) : db.projectors[j].fingerprint = disk[p]
    BY <1>2, <1>3, <1>6 DEF KnownProjector
  <2>2. Readable(p) /\ KindAt(p) = "projector" /\ j = disk[p].content /\ p \notin r.models
    BY <1>2, <1>3, <1>6, <2>1, ReusedIsTrue DEF Readable
  <2>3. db'.projectors = [k \in ProjectorIds |->
              IF db.projectors[k] # None /\ db.projectors[k].path \in {p}
              THEN [db.projectors[k] EXCEPT !.state = "present"] ELSE db.projectors[k]]
    <3>1. SetProjectors(db, {p}, "present").projectors = [k \in ProjectorIds |->
              IF db.projectors[k] # None /\ db.projectors[k].path \in {p}
              THEN [db.projectors[k] EXCEPT !.state = "present"] ELSE db.projectors[k]]
      BY <1>2, <1>4, SetProjectorsFields
    <3> QED BY <3>1 DEF TouchProjector
  <2>4. /\ db'.projectors[j] # None /\ db'.projectors[j].state = "present"
        /\ db'.projectors[j].path = p
    <3>1. db.projectors[j] \in ProjectorRows /\ db.projectors[j].path = p /\ j \in ProjectorIds
      BY <1>2, <2>1 DEF Store, ProjectorsAt
    <3>2. /\ [db.projectors[j] EXCEPT !.state = "present"] \in ProjectorRows
          /\ [db.projectors[j] EXCEPT !.state = "present"].state = "present"
          /\ [db.projectors[j] EXCEPT !.state = "present"].path = p
      BY <3>1 DEF ProjectorRows, LocationStates
    <3>3. db'.projectors[j] = [db.projectors[j] EXCEPT !.state = "present"]
      BY <2>1, <2>3, <3>1 DEF ProjectorsAt
    <3> QED BY <3>2, <3>3, RowsAreRecords
  <2>5. ProjectorsAt(db', p) \subseteq ProjectorsAt(db, p)
    BY <2>3 DEF ProjectorsAt
  <2>6. ASSUME NEW k \in ProjectorsAt(db', p) PROVE k = j
    <3>1. k \in ProjectorsAt(db, p)
      BY <2>5
    <3> HIDE DEF p
    <3>2. /\ k \in ProjectorIds /\ db.projectors[k] # None /\ db.projectors[k].path = p
          /\ j \in ProjectorIds /\ db.projectors[j] # None /\ db.projectors[j].path = p
      BY <2>1, <3>1, ZenonT(30) DEF ProjectorsAt
    <3> QED BY <1>2, <3>2 DEF UniquePaths
  <2> QED BY <1>3, <2>2, <2>4, <2>6 DEF SettledTruly, HoldsModel, HoldsProjector
<1>7. r.path \in next.excused \/ CameBack(r.path)
  BY <1>2, <1>3
<1> HIDE DEF p
<1> QED BY <1>1, <1>3, <1>5, <1>6, <1>7, Onward, ZenonT(60) DEF p

LEMMA SaveProjectorThread ==
  ASSUME LibraryInv, NEW w \in Workers, NEW r, r = workers[w], r # None, r.pc = "save", Still,
         Info[r.content].kind = "projector",
         db' = SaveProjector(db, r.content, r.path, r.fingerprint),
         NEW next, next = Back(SawProjector(r)), next # None
  PROVE  ThreadInv(next)'
<1> DEFINE p == r.path
           j == r.content
<1>1. Visiting(r) /\ Compared(r)
  BY DEF Visiting, Compared
<1>2. /\ ThreadInv(r) /\ DOMAIN r = ThreadFields /\ p \in Paths /\ WorldInv /\ Store(db)
      /\ p \in r.excused /\ j \in ProjectorIds /\ r.fingerprint \in Files
      /\ r.clean => /\ Readable(p) /\ j = disk[p].content
                    /\ p \notin r.models \cup r.projectors
  BY <1>1, Writing DEF CleanAt, ExcusedAt, ReadInv, ContentAt, ProjectorIds
<1>3. /\ SameData(next, r) /\ next.pc = "walk" /\ next.path = None /\ next.left = r.left
      /\ next.models = r.models /\ next.projectors = r.projectors \cup {p}
      /\ next.excused = r.excused /\ next.clean = r.clean
  BY <1>2, SawProjectorFields
<1>4. next.clean => Spares(db, db', p, r.projectors, next.projectors)
  BY <1>2, <1>3, SaveProjectorSpares
<1>5. ASSUME next.clean PROVE SettledTruly(next, db', p)
  <2>1. db'.projectors = [k \in ProjectorIds |->
            IF k = j THEN [path |-> p, fingerprint |-> r.fingerprint, state |-> "present"]
            ELSE IF k \in ProjectorsAt(db, p) THEN None ELSE db.projectors[k]]
    BY <1>2, SaveProjectorFields
  <2>2. [path |-> p, fingerprint |-> r.fingerprint, state |-> "present"] # None
    BY <1>2, RowsAreRecords, SMTT(30) DEF ProjectorRows, LocationStates
  <2>3. /\ db'.projectors[j] # None /\ db'.projectors[j].state = "present"
        /\ db'.projectors[j].path = p
    BY <1>2, <2>1, <2>2
  <2>4. \A k \in ProjectorsAt(db', p) : k = j
    BY <2>1 DEF ProjectorsAt
  <2>5. j = disk[p].content /\ HoldsProjector(p) /\ ~HoldsModel(p) /\ p \notin r.models
    BY <1>2, <1>3, <1>5 DEF HoldsProjector, HoldsModel, KindAt
  <2> QED BY <1>3, <2>3, <2>4, <2>5 DEF SettledTruly
<1>6. r.path \in next.excused
  BY <1>2, <1>3
<1> HIDE DEF p, j
<1> QED BY <1>1, <1>3, <1>4, <1>5, <1>6, Onward, ZenonT(60) DEF p

LEMMA SaveModelThread ==
  ASSUME LibraryInv, NEW w \in Workers, NEW r, r = workers[w], r # None, r.pc = "save", Still,
         Info[r.content].kind = "model",
         db' = SaveModel(db, disk, r.content, r.path, r.fingerprint),
         NEW next, next = Back(Saw(r)), next # None
  PROVE  ThreadInv(next)'
<1> DEFINE p == r.path
           m == r.content
<1>1. Visiting(r) /\ Compared(r)
  BY DEF Visiting, Compared
<1>2. /\ ThreadInv(r) /\ DOMAIN r = ThreadFields /\ p \in Paths /\ WorldInv /\ Store(db)
      /\ m \in ModelIds /\ r.fingerprint \in Files
      /\ r.clean => /\ Readable(p) /\ m = disk[p].content
                    /\ p \notin r.models \cup r.projectors
  BY <1>1, Writing DEF CleanAt, ReadInv, ContentAt, ModelIds
<1>3. /\ SameData(next, r) /\ next.pc = "walk" /\ next.path = None /\ next.left = r.left
      /\ next.models = r.models \cup {p} /\ next.projectors = r.projectors
      /\ next.excused = r.excused /\ next.clean = r.clean
  BY <1>2, SawFields
<1>4. /\ db'.locations = [db.locations EXCEPT ![p] =
            [model |-> m, fingerprint |-> r.fingerprint, state |-> "present"]]
      /\ db'.projectors = db.projectors
  BY <1>2, SaveModelFields
<1>5. \A q \in Paths : db'.locations[q] =
        IF q = p THEN [model |-> m, fingerprint |-> r.fingerprint, state |-> "present"]
        ELSE db.locations[q]
  BY <1>2, <1>4 DEF Store
<1>6. Spares(db, db', p, r.projectors, next.projectors)
  <2>1. \A q \in Paths \ {p} : db'.locations[q] = db.locations[q]
    BY <1>5
  <2> QED BY <1>3, <1>4, <2>1, LocationsSpare
<1>7. ASSUME next.clean PROVE SettledTruly(next, db', p)
  <2>1. [model |-> m, fingerprint |-> r.fingerprint, state |-> "present"] # None
    BY <1>2, RowsAreRecords, SMTT(30) DEF LocationRows, LocationStates
  <2>2. /\ db'.locations[p] # None /\ db'.locations[p].state = "present"
        /\ db'.locations[p].model = m
    BY <1>2, <1>5, <2>1
  <2>3. m = disk[p].content /\ HoldsModel(p) /\ ~HoldsProjector(p) /\ p \notin r.projectors
    BY <1>2, <1>3, <1>7 DEF HoldsProjector, HoldsModel, KindAt
  <2> QED BY <1>3, <2>2, <2>3 DEF SettledTruly
<1> HIDE DEF p, m
<1> QED BY <1>1, <1>3, <1>6, <1>7, Onward, ZenonT(60) DEF p

LEMMA WriteThread ==
  ASSUME LibraryInv, NEW w \in Workers, TouchRow(w) \/ TouchProjectorRow(w) \/ Save(w),
         NEW next, next = workers'[w], next # None
  PROVE  ThreadInv(next)'
<1>1. PICK r : r = workers[w] OBVIOUS
<1>2. r # None /\ r.pc \in {"touch", "touchProjector", "save"} /\ Still /\ Visiting(r) /\ Compared(r)
  BY <1>1 DEF TouchRow, TouchProjectorRow, Save, At, Still, Commit, Fail, Visiting, Compared
<1>3. DOMAIN workers = Workers
  BY DEF LibraryInv, WorldInv
<1>4. \/ r.pc = "touch" /\ next = Back(Saw(r)) /\ db' = Touch(db, r.path)
      \/ /\ r.pc = "touchProjector"
         /\ next = Back(SawProjector(r)) /\ db' = TouchProjector(db, r.path)
      \/ /\ r.pc = "save" /\ Info[r.content].kind = "projector"
         /\ next = Back(SawProjector(r)) /\ db' = SaveProjector(db, r.content, r.path, r.fingerprint)
      \/ /\ r.pc = "save" /\ Info[r.content].kind = "model"
         /\ next = Back(Saw(r)) /\ db' = SaveModel(db, disk, r.content, r.path, r.fingerprint)
      \/ next = Back(Skipped(r))
  BY <1>1, <1>3 DEF TouchRow, TouchProjectorRow, Save, At, Commit, Fail
<1> QED BY <1>1, <1>2, <1>4, TouchModelThread, TouchProjectorThread, SaveProjectorThread,
           SaveModelThread, SkippedThread


\* The first reconciliation: what was not seen is missing, what was seen stays.
LEMMA ReconcileModelsThread ==
  ASSUME LibraryInv, NEW w \in Workers, ReconcileModels(w),
         NEW next, next = workers'[w], next # None
  PROVE  ThreadInv(next)'
<1>1. PICK r : r = workers[w] OBVIOUS
<1>2. r # None /\ r.pc = "reconcile" /\ Still
  BY <1>1 DEF ReconcileModels, At, Still, Commit, Fail
<1>3. /\ ThreadInv(r) /\ ThreadType(r) /\ DOMAIN r = ThreadFields /\ WorldInv /\ Store(db)
      /\ Scanning(r) /\ ~Visiting(r) /\ Reconciling(r)
  BY <1>1, <1>2, ThreadOf DEF ThreadInv, Scanning, Visiting, Compared, Marking, Reconciling
<1>4. r.path = None /\ r.left = {} /\ r.op.kind = "Scan" /\ r.op \in Operations
  BY <1>3 DEF ThreadType
<1> DEFINE beneath == Beneath[r.op.arg]
           listed == Listed[r.op.arg]
<1>5. listed \subseteq beneath /\ beneath \subseteq Paths /\ None \notin Paths
  BY <1>4, LibraryAssumption DEF LibraryAssumption
<1>6. Settled(r) = listed
  BY <1>4, <1>5 DEF Settled
<1>7. \/ next = [r EXCEPT !.pc = "reconcileProjectors"] /\ db' = Reconcile(db, beneath, r.models)
      \/ next = [[r EXCEPT !.pc = "reconcileProjectors"] EXCEPT !.clean = FALSE]
  BY <1>1, <1>3 DEF ReconcileModels, Commit, Fail, WorldInv
<1>8. /\ SameData(next, r) /\ next.pc = "reconcileProjectors" /\ next.path = None /\ next.left = {}
      /\ next.models = r.models /\ next.projectors = r.projectors /\ next.excused = r.excused
      /\ (next.clean => r.clean /\ db' = Reconcile(db, beneath, r.models))
  BY <1>3, <1>4, <1>7 DEF SameData, ThreadFields
<1>9. Scanning(next) /\ ~Visiting(next) /\ ~Compared(next) /\ ~Marking(next)
  BY <1>8 DEF Scanning, Visiting, Compared, Marking
<1>10. Settled(next) = listed
  BY <1>4, <1>5, <1>8 DEF Settled, SameData
<1>11. ThreadType(next)
  BY <1>3, <1>4, <1>5, <1>8, <1>9 DEF ThreadType, SameData
<1>12. ReadInv(next)' /\ ExcusedAt(next)'
  BY <1>8, <1>9 DEF ReadInv, ExcusedAt, Compared, Marking
<1>13. ExcusedInv(next)'
  <2>1. \A p \in Paths : HoldsModel(p)' \/ p \in next.excused
    BY <1>2, <1>3, <1>8 DEF ThreadInv, ExcusedInv, HoldsModel, Readable, KindAt, Still
  <2>2. \A p \in listed : p \in next.models \/ p \in next.excused \/ CameBack(p)'
    BY <1>2, <1>3, <1>6, <1>8 DEF ThreadInv, ExcusedInv, CameBack, Still
  <2> QED BY <1>10, <1>12, <2>1, <2>2 DEF ExcusedInv, Settled
<1>14. ASSUME next.clean PROVE CleanScan(next)'
  <2>1. CleanScan(r) /\ db' = Reconcile(db, beneath, r.models)
    BY <1>3, <1>8, <1>14 DEF ThreadInv
  <2>2. next.models \cup next.projectors \subseteq Settled(next)
    BY <1>3, <1>6, <1>8, <1>10, <2>1 DEF CleanScan
  <2>3. PICK gone : gone = beneath \ r.models OBVIOUS
  <2>4. "missing" \in LocationStates /\ db' = SetLocations(db, gone, "missing")
    BY <2>1, <2>3 DEF LocationStates, Reconcile
  <2>5. /\ \A q \in Paths : IF q \in gone /\ db.locations[q] # None
                            THEN db'.locations[q] # None /\ db'.locations[q].state = "missing"
                            ELSE db'.locations[q] = db.locations[q]
        /\ db'.projectors = db.projectors
    BY <1>3, <2>4, SetLocationsAt, SetLocationsRest
  <2>6. ASSUME NEW p \in listed PROVE CameBack(p)' \/ SettledTruly(next, db, p)'
    <3>1. CameBack(p) \/ SettledTruly(r, db, p)
      BY <1>3, <1>6, <2>1 DEF CleanScan
    <3>2. CASE SettledTruly(r, db, p)
      <4>1. HoldsModel(p) => db'.locations[p] = db.locations[p]
        BY <1>5, <2>3, <2>5, <3>2 DEF SettledTruly
      <4>2. SettledTruly(next, db', p)
        BY <1>8, <2>5, <3>2, <4>1 DEF SettledTruly, ProjectorsAt
      <4> QED BY <1>2, <4>2 DEF Still, SettledTruly, HoldsModel, HoldsProjector, Readable, KindAt
    <3> QED BY <1>2, <3>1, <3>2 DEF CameBack, Still
  <2>7. ASSUME NEW p \in listed, db'.locations[p] # None, db'.locations[p].state = "present"
        PROVE  p \in next.models
    BY <1>5, <1>8, <2>3, <2>5, <2>7
  <2>8. CleanAt(next)'
    BY <1>8, <1>9 DEF CleanAt, Compared, Marking
  <2> QED BY <1>10, <2>2, <2>6, <2>7, <2>8 DEF CleanScan, Settled
<1> QED BY <1>11, <1>12, <1>13, <1>14, TypeStays DEF ThreadInv

\* The second reconciliation, and the summary.
LEMMA ClosingThread ==
  ASSUME LibraryInv, NEW w \in Workers, ReconcileRest(w) \/ Summary(w),
         NEW next, next = workers'[w], next # None
  PROVE  ThreadInv(next)'
<1>1. PICK r : r = workers[w] OBVIOUS
<1>2. r # None
  BY <1>1 DEF ReconcileRest, Summary, At
<1>3. ThreadInv(r) /\ ThreadType(r) /\ DOMAIN r = ThreadFields /\ DOMAIN workers = Workers
  BY <1>1, <1>2, ThreadOf DEF ThreadInv, WorldInv
<1>4. ASSUME NEW c, next = [r EXCEPT !.pc = "summary", !.clean = c] PROVE ThreadInv(next)'
  <2>1. /\ DOMAIN next = ThreadFields /\ next.pc = "summary" /\ next.op = r.op
        /\ next.shown = r.shown /\ next.todo = r.todo
    BY <1>3, <1>4 DEF ThreadFields
  <2>2. ThreadType(next) /\ ~Scanning(next)
    BY <1>3, <2>1 DEF ThreadType, Scanning
  <2> QED BY <2>1, <2>2, Late
<1>5. CASE ReconcileRest(w)
  <2>1. \/ next = [r EXCEPT !.pc = "summary"]
        \/ next = [[r EXCEPT !.pc = "summary"] EXCEPT !.clean = FALSE]
    BY <1>1, <1>3, <1>5 DEF ReconcileRest, Commit, Fail
  <2>2. \E c : next = [r EXCEPT !.pc = "summary", !.clean = c]
    <3>1. [r EXCEPT !.pc = "summary"] = [r EXCEPT !.pc = "summary", !.clean = r.clean]
      BY <1>3 DEF ThreadFields
    <3> QED BY <2>1, <3>1
  <2> QED BY <1>4, <2>2
<1>6. CASE Summary(w)
  <2>1. next = Over(r, "recompute") \/ next = Failed(r)
    BY <1>1, <1>3, <1>6 DEF Summary, Move, Fail, Progress
  <2> QED BY <1>3, <2>1, Ended DEF Failed
<1> QED BY <1>5, <1>6

\* The reading of the file of an operation.
LEMMA ReadThread ==
  ASSUME LibraryInv, NEW w \in Workers, ReadFile(w) \/ Examine(w),
         NEW next, next = workers'[w], next # None
  PROVE  ThreadInv(next)'
<1>1. PICK r : r = workers[w] OBVIOUS
<1>2. r # None /\ Still /\ r.pc \in {"read", "examine"}
  BY <1>1 DEF ReadFile, Examine, At, Still, Move
<1>3. /\ ThreadInv(r) /\ ThreadType(r) /\ DOMAIN r = ThreadFields /\ WorldInv
      /\ DOMAIN workers = Workers
  BY <1>1, <1>2, ThreadOf DEF ThreadInv, WorldInv
<1> DEFINE p == r.op.arg
<1>4. r.op.kind \in ReadKinds /\ p \in Paths
  BY <1>2, <1>3, LibraryAssumption DEF LibraryAssumption, ThreadType, ReadKinds
<1>5. CASE next = Failed(r)
  BY <1>3, <1>5, Ended DEF Failed
<1>6. CASE Readable(p) /\ next = [r EXCEPT !.pc = "examine", !.fingerprint = disk[p]]
  <2>1. /\ DOMAIN next = ThreadFields /\ next.pc = "examine" /\ next.op = r.op
        /\ next.shown = r.shown /\ next.todo = r.todo /\ next.fingerprint = disk[p]
    BY <1>3, <1>6 DEF ThreadFields
  <2>2. ThreadType(next) /\ ~Scanning(next) /\ ~Compared(next)
    BY <1>3, <1>4, <2>1 DEF ThreadType, Scanning, Compared
  <2>3. ReadAt(disk[p], p)
    BY <1>3, <1>4, <1>6, ContentKinds DEF ReadAt, Readable
  <2>4. ReadInv(next)'
    BY <1>2, <2>1, <2>2, <2>3 DEF ReadInv, ReadAt, Compared, Still
  <2> QED BY <2>1, <2>2, <2>4, TypeStays DEF ThreadInv, ExcusedInv, CleanScan, Scanning
<1>7. CASE /\ r.pc = "examine" /\ Readable(p)
           /\ next = [r EXCEPT !.pc = "apply", !.content = disk[p].content]
  <2>1. /\ DOMAIN next = ThreadFields /\ next.pc = "apply" /\ next.op = r.op
        /\ next.shown = r.shown /\ next.todo = r.todo /\ next.fingerprint = r.fingerprint
        /\ next.content = disk[p].content
    BY <1>3, <1>7 DEF ThreadFields
  <2>2. ThreadType(next) /\ ~Scanning(next) /\ ~Compared(next)
    BY <1>3, <1>4, <2>1 DEF ThreadType, Scanning, Compared, ApplyKinds
  <2>3. ContentAt(disk[p].content, r.fingerprint, p)
    BY <1>3, <1>4, <1>7, ContentRead DEF ThreadInv, ReadInv, Readable
  <2>4. ReadInv(next)'
    BY <1>2, <2>1, <2>2, <2>3 DEF ReadInv, ContentAt, Compared, Still
  <2> QED BY <2>1, <2>2, <2>4, TypeStays DEF ThreadInv, ExcusedInv, CleanScan, Scanning
<1> QED BY <1>1, <1>3, <1>5, <1>6, <1>7 DEF ReadFile, Examine, Move, At

\* The transaction of an operation, and the first steps of what follows it.
LEMMA ApplyThread ==
  ASSUME LibraryInv, NEW w \in Workers, Apply(w) \/ Recompute(w) \/ ListModels(w),
         NEW next, next = workers'[w], next # None
  PROVE  ThreadInv(next)'
<1>1. PICK r : r = workers[w] OBVIOUS
<1>2. r # None
  BY <1>1 DEF Apply, Recompute, ListModels, At
<1>3. /\ ThreadInv(r) /\ ThreadType(r) /\ DOMAIN r = ThreadFields /\ WorldInv
      /\ DOMAIN workers = Workers
  BY <1>1, <1>2, ThreadOf DEF ThreadInv, WorldInv
<1>4. CASE \E pc \in {"finish", "recompute"} : next = Over(r, pc)
  BY <1>3, <1>4, Ended
<1>5. CASE next = [r EXCEPT !.pc = "list", !.runtime = runtime] /\ runtime # None
  <2>1. /\ DOMAIN next = ThreadFields /\ next.pc = "list" /\ next.op = r.op
        /\ next.shown = r.shown /\ next.todo = r.todo /\ next.runtime = runtime
    BY <1>3, <1>5 DEF ThreadFields
  <2>2. ThreadType(next) /\ ~Scanning(next)
    BY <1>3, <1>5, <2>1 DEF ThreadType, Scanning, WorldInv
  <2> QED BY <2>1, <2>2, Late
<1>6. CASE r.pc = "list" /\ next = [r EXCEPT !.pc = "evaluate", !.todo = Listable(db)]
  <2>1. /\ DOMAIN next = ThreadFields /\ next.pc = "evaluate" /\ next.op = r.op
        /\ next.shown = r.shown /\ next.todo = Listable(db) /\ next.runtime = r.runtime
    BY <1>3, <1>6 DEF ThreadFields
  <2>2. next.todo \subseteq ModelIds
    BY <2>1 DEF Listable
  <2>3. ThreadType(next) /\ ~Scanning(next)
    BY <1>3, <1>6, <2>1, <2>2 DEF ThreadType, Scanning
  <2> QED BY <2>1, <2>3, Late
<1>7. CASE Apply(w)
  BY <1>1, <1>3, <1>4, <1>7 DEF Apply, Commit, Move, Fail, Failed
<1>8. CASE Recompute(w)
  BY <1>1, <1>3, <1>4, <1>5, <1>8 DEF Recompute, Move, Fail, Failed
<1>9. CASE ListModels(w)
  BY <1>1, <1>3, <1>4, <1>6, <1>9 DEF ListModels, At, Move, Fail, Failed
<1> QED BY <1>7, <1>8, <1>9

\* The recomputation of the verdicts.
LEMMA VerdictThread ==
  ASSUME LibraryInv, NEW w \in Workers, EvaluateNext(w) \/ StoreVerdict(w),
         NEW next, next = workers'[w], next # None
  PROVE  ThreadInv(next)'
<1>1. PICK r : r = workers[w] OBVIOUS
<1>2. r # None /\ r.pc \in {"evaluate", "store"}
  BY <1>1 DEF EvaluateNext, StoreVerdict, At
<1>3. /\ ThreadInv(r) /\ ThreadType(r) /\ DOMAIN r = ThreadFields /\ DOMAIN workers = Workers
      /\ r.runtime \in Runtimes
  BY <1>1, <1>2, ThreadOf DEF ThreadInv, ThreadType, WorldInv
<1>4. CASE next = Over(r, "finish")
  BY <1>3, <1>4, Ended
<1>5. ASSUME NEW m \in r.todo,
             next = [r EXCEPT !.pc = "store", !.todo = @ \ {m},
                       !.verdict = <<m, Evaluation(m, r.runtime, AssociatedProjector(db, m))>>]
      PROVE  ThreadInv(next)'
  <2>1. PICK j \in ProjectorIds \cup {None} : j = AssociatedProjector(db, m)
    BY AssociatedIsProjector
  <2>2. /\ DOMAIN next = ThreadFields /\ next.pc = "store" /\ next.op = r.op
        /\ next.shown = r.shown /\ next.todo = r.todo \ {m} /\ next.runtime = r.runtime
        /\ next.verdict = <<m, Evaluation(m, next.runtime, j)>>
    BY <1>3, <1>5, <2>1 DEF ThreadFields
  <2>3. m \in ModelIds /\ next.todo \subseteq ModelIds
    BY <1>3, <2>2 DEF ThreadType
  <2>4. \E n \in ModelIds, k \in ProjectorIds \cup {None} :
          next.verdict = <<n, Evaluation(n, next.runtime, k)>>
    BY <2>2, <2>3
  <2>5. ThreadType(next) /\ ~Scanning(next)
    BY <1>3, <2>2, <2>3, <2>4 DEF ThreadType, Scanning
  <2> QED BY <2>2, <2>5, Late
<1>6. CASE next = [r EXCEPT !.pc = "evaluate", !.verdict = None]
  <2>1. /\ DOMAIN next = ThreadFields /\ next.pc = "evaluate" /\ next.op = r.op
        /\ next.shown = r.shown /\ next.todo = r.todo /\ next.runtime = r.runtime
    BY <1>3, <1>6 DEF ThreadFields
  <2>2. ThreadType(next) /\ ~Scanning(next)
    BY <1>3, <2>1 DEF ThreadType, Scanning
  <2> QED BY <2>1, <2>2, Late
<1>7. \/ next = Over(r, "finish")
      \/ \E m \in r.todo :
            next = [r EXCEPT !.pc = "store", !.todo = @ \ {m},
                      !.verdict = <<m, Evaluation(m, r.runtime, AssociatedProjector(db, m))>>]
      \/ next = [r EXCEPT !.pc = "evaluate", !.verdict = None]
  BY <1>1, <1>3 DEF EvaluateNext, StoreVerdict, Commit, Move, Fail, Failed
<1> QED BY <1>4, <1>5, <1>6, <1>7

\* What the page will show.
LEMMA FinishThread ==
  ASSUME LibraryInv, NEW w \in Workers, Finish(w) \/ Load(w),
         NEW next, next = workers'[w], next # None
  PROVE  ThreadInv(next)'
<1>1. PICK r : r = workers[w] OBVIOUS
<1>2. r # None /\ r.pc \in {"finish", "load"}
  BY <1>1 DEF Finish, Load, At
<1>3. /\ ThreadInv(r) /\ ThreadType(r) /\ DOMAIN r = ThreadFields /\ WorldInv
      /\ DOMAIN workers = Workers
  BY <1>1, <1>2, ThreadOf DEF ThreadInv, WorldInv
<1>4. ASSUME NEW pc \in {"load", "publish"}, next.pc = pc, DOMAIN next = ThreadFields,
             next.op = r.op, next.todo = r.todo,
             pc = "load" => next.runtime \in Runtimes \cup {None},
             next.shown # None => Fresh(next.shown)
      PROVE  ThreadInv(next)'
  <2>1. ThreadType(next) /\ ~Scanning(next)
    BY <1>3, <1>4 DEF ThreadType, Scanning
  <2> QED BY <1>4, <2>1, Late
<1>5. r.shown # None => Fresh(r.shown)
  BY <1>3 DEF ThreadType
<1>6. CASE next = [r EXCEPT !.pc = "load", !.runtime = runtime]
  <2>1. /\ next.pc = "load" /\ DOMAIN next = ThreadFields /\ next.op = r.op
        /\ next.todo = r.todo /\ next.runtime \in Runtimes \cup {None} /\ next.shown = r.shown
    BY <1>3, <1>6 DEF ThreadFields, WorldInv
  <2> QED BY <1>4, <1>5, <2>1
<1>7. CASE next = [r EXCEPT !.pc = "publish"]
  <2>1. /\ next.pc = "publish" /\ DOMAIN next = ThreadFields /\ next.op = r.op
        /\ next.todo = r.todo /\ next.shown = r.shown
    BY <1>3, <1>7 DEF ThreadFields
  <2> QED BY <1>4, <1>5, <2>1
<1>8. CASE next = [r EXCEPT !.pc = "publish", !.runtime = None]
  <2>1. /\ next.pc = "publish" /\ DOMAIN next = ThreadFields /\ next.op = r.op
        /\ next.todo = r.todo /\ next.shown = r.shown
    BY <1>3, <1>8 DEF ThreadFields
  <2> QED BY <1>4, <1>5, <2>1
<1>9. CASE /\ r.pc = "load"
           /\ next = [r EXCEPT !.pc = "publish", !.runtime = None,
                               !.shown = Snapshot(db, r.runtime)]
  <2>1. /\ next.pc = "publish" /\ DOMAIN next = ThreadFields /\ next.op = r.op
        /\ next.todo = r.todo /\ next.shown = Snapshot(db, r.runtime)
    BY <1>3, <1>9 DEF ThreadFields
  <2>2. Fresh(next.shown)
    BY <1>3, <1>9, <2>1, SnapshotIsFresh DEF LibraryInv, ThreadType
  <2> QED BY <1>4, <2>1, <2>2
<1> QED BY <1>1, <1>2, <1>3, <1>6, <1>7, <1>8, <1>9 DEF Finish, Load, At, Move, Fail, Progress

\* Every step of a thread but its last one sets the thread, and disturbs others
\* when it changes tables.
LEMMA StepsBecome ==
  ASSUME LibraryInv, NEW w \in Workers, Steps(w), ~Publish(w)
  PROVE  Becomes(w, workers'[w], db')
<1>1. WorldInv BY DEF LibraryInv
<1>2. SUFFICES \E next, new : Becomes(w, next, new)
  BY DEF Becomes
<1>3. \/ \E next : Move(w, next) \/ Fail(w, next)
      \/ \E next, new : Commit(w, next, new)
  <2>1. CASE Walk(w) BY <2>1 DEF Walk
  <2>2. CASE WalkError(w) BY <2>2 DEF WalkError
  <2>3. CASE Fingerprint(w) \/ Inspect(w) BY <2>3 DEF Fingerprint, Inspect
  <2>4. CASE Mark(w) \/ MarkProjector(w) BY <2>4 DEF Mark, MarkProjector
  <2>5. CASE Lookup(w) \/ LookupProjector(w) BY <2>5 DEF Lookup, LookupProjector
  <2>6. CASE TouchRow(w) \/ TouchProjectorRow(w) BY <2>6 DEF TouchRow, TouchProjectorRow
  <2>7. CASE Save(w) BY <2>7 DEF Save
  <2>8. CASE ReconcileModels(w) \/ ReconcileRest(w) BY <2>8 DEF ReconcileModels, ReconcileRest
  <2>9. CASE Summary(w) BY <2>9 DEF Summary
  <2>10. CASE ReadFile(w) \/ Examine(w) BY <2>10 DEF ReadFile, Examine
  <2>11. CASE Apply(w) BY <2>11 DEF Apply
  <2>12. CASE Recompute(w) \/ ListModels(w) BY <2>12 DEF Recompute, ListModels
  <2>13. CASE EvaluateNext(w) BY <2>13 DEF EvaluateNext
  <2>14. CASE StoreVerdict(w) BY <2>14 DEF StoreVerdict
  <2>15. CASE Finish(w) \/ Load(w) BY <2>15 DEF Finish, Load
  <2> QED BY <2>1, <2>2, <2>3, <2>4, <2>5, <2>6, <2>7, <2>8, <2>9, <2>10, <2>11, <2>12, <2>13,
             <2>14, <2>15 DEF Steps, ScanSteps
<1> QED BY <1>1, <1>3, Moved, Committed

\* A thread that ends by writing the page.
LEMMA PublishStep ==
  ASSUME LibraryInv, NEW w \in Workers, Publish(w)
  PROVE  LibraryInv'
<1>1. PICK r : r = workers[w] OBVIOUS
<1>2. WorldInv /\ Tables(db, past) /\ Verdicts(db) /\ Fresh(page.shown)
  BY DEF LibraryInv
<1>3. ThreadInv(r) /\ r # None
  BY <1>1 DEF Publish, At, LibraryInv
<1>4. /\ UNCHANGED <<disk, past, locked, runtime, db, spent>>
      /\ workers' = [workers EXCEPT ![w] = None]
      /\ \/ page' = page
         \/ page' = [page EXCEPT !.activity = "Idle", !.token = None,
                                 !.shown = IF r.shown = None THEN @ ELSE r.shown]
  BY <1>1 DEF Publish
<1>5. /\ DOMAIN page' = PageFields
      /\ \/ page'.shown = page.shown
         \/ r.shown # None /\ page'.shown = r.shown
  BY <1>2, <1>4 DEF WorldInv, PageFields
<1>6. Fresh(page'.shown)
  BY <1>2, <1>3, <1>5 DEF ThreadInv, ThreadType
<1>7. WorldInv'
  BY <1>2, <1>4, <1>5 DEF WorldInv
<1>8. ASSUME NEW v \in Workers, workers'[v] # None PROVE ThreadInv(workers[v])'
  <2>1. PICK s : s = workers[v] OBVIOUS
  <2>2. workers'[v] = s /\ s # None
    BY <1>2, <1>4, <1>8, <2>1 DEF WorldInv
  <2>3. ThreadInv(s) /\ DOMAIN s = ThreadFields
    BY <2>1, <2>2, ThreadOf
  <2>4. SameThread(s, s)
    BY <2>3 DEF SameThread, SameData
  <2>5. ThreadInv(s)'
    BY <1>4, <2>3, <2>4, Carried
  <2> QED BY <2>2, <2>5
<1> QED BY <1>2, <1>4, <1>6, <1>7, <1>8 DEF LibraryInv

LEMMA ThreadStep ==
  ASSUME LibraryInv, NEW w \in Workers, Steps(w)
  PROVE  LibraryInv'
<1>1. CASE Publish(w)
  BY <1>1, PublishStep
<1>2. CASE ~Publish(w)
  <2>1. PICK next : next = workers'[w] OBVIOUS
  <2>2. WorldInv /\ Fresh(page.shown)
    BY DEF LibraryInv
  <2>3. Becomes(w, next, db')
    BY <1>2, <2>1, StepsBecome
  <2>4. /\ UNCHANGED <<disk, past, runtime, page>> /\ workers' = [v \in Workers |-> workers'[v]]
        /\ (spent' = spent \/ spent' = [spent EXCEPT !.incidents = @ + 1])
    BY <2>3 DEF Becomes, Still
  <2>5. spent' \in [operations : Nat, incidents : Nat]
    BY <2>2, <2>4 DEF WorldInv
  <2>6. WorldInv'
    BY <2>2, <2>4, <2>5 DEF WorldInv
  <2>7. Tables(db', past') /\ Verdicts(db')
    BY <2>4, StepsTables DEF Sound
  <2>8. next # None => ThreadInv(next)'
    BY <1>2, <2>1, WalkThread, WalkErrorThread, FingerprintThread, MarkThread, LookupThread,
       InspectThread, WriteThread, ReconcileModelsThread, ClosingThread, ReadThread, ApplyThread,
       VerdictThread, FinishThread DEF Steps, ScanSteps
  <2>9. ASSUME NEW v \in Workers, workers'[v] # None PROVE ThreadInv(workers[v])'
    <3>1. CASE v = w BY <2>1, <2>8, <2>9, <3>1
    <3>2. CASE v # w BY <2>3, <2>9, <3>2, OthersCarried
    <3> QED BY <3>1, <3>2
  <2> QED BY <2>2, <2>4, <2>6, <2>7, <2>9 DEF LibraryInv
<1> QED BY <1>1, <1>2

-----------------------------------------------------------------------------
(* The page and the environment                                            *)

LEMMA BeginThread ==
  ASSUME LibraryInv, NEW w \in Workers, Begin(w), NEW next, next = workers'[w]
  PROVE  ThreadInv(next)'
<1>1. UNCHANGED <<disk, past, locked, db>> /\ DOMAIN workers = Workers
  BY DEF Begin, LibraryInv, WorldInv
<1>a. PICK op \in {o \in Operations : Offered(o)} :
        \E step \in {FirstStep(op.kind)} \cup
                    (IF spent.incidents < MaxIncidents THEN {"finish"} ELSE {}) :
          workers' = [workers EXCEPT ![w] = Thread(op, step)]
  BY ZenonT(60) DEF Begin
<1>b. PICK step \in {FirstStep(op.kind), "finish"} :
        workers' = [workers EXCEPT ![w] = Thread(op, step)]
  BY <1>a
<1>2. op \in Operations /\ Offered(op) /\ next = Thread(op, step)
  BY <1>1, <1>a, <1>b
<1>3. op.kind \in ApplyKinds \cup {"Scan", "Recheck"}
  BY <1>2 DEF Offered, OfferedOnModel, OfferedOnProjector, ApplyKinds, ReadKinds, RemoveKinds
<1>4. FirstStep(op.kind) =
        IF op.kind = "Scan" THEN "walk"
        ELSE IF op.kind \in ReadKinds THEN "read"
        ELSE IF op.kind = "Recheck" THEN "recompute" ELSE "apply"
  BY DEF FirstStep, ReadKinds
<1>5. /\ DOMAIN next = ThreadFields /\ next.op = op /\ next.pc = step /\ next.path = None
      /\ next.models = {} /\ next.projectors = {} /\ next.todo = {} /\ next.shown = None
      /\ next.left = IF op.kind = "Scan" THEN Listed[op.arg] ELSE {}
      /\ next.excused = IF step = "walk" THEN {p \in Paths : ~HoldsModel(p)} ELSE {}
  BY <1>2 DEF Thread, ThreadFields
<1>6. CASE step = "walk"
  <2>1. op.kind = "Scan"
    BY <1>4, <1>b, <1>6
  <2>2. Listed[op.arg] \subseteq Paths /\ None \notin Paths
    BY <1>2, <2>1, LibraryAssumption DEF LibraryAssumption
  <2>3. Scanning(next) /\ ~Visiting(next) /\ ~Compared(next) /\ ~Marking(next) /\ ~Reconciling(next)
    BY <1>5, <1>6 DEF Scanning, Visiting, Compared, Marking, Reconciling
  <2>4. ThreadType(next)
    BY <1>2, <1>5, <1>6, <2>1, <2>2, <2>3 DEF ThreadType
  <2>5. Settled(next) = {}
    BY <1>5, <2>1 DEF Settled
  <2>6. \A p \in Paths : HoldsModel(p)' \/ p \in next.excused
    BY <1>1, <1>5, <1>6 DEF HoldsModel, Readable, KindAt
  <2>7. ReadInv(next)' /\ ExcusedAt(next)' /\ CleanAt(next)'
    BY <1>5, <1>6, <2>3 DEF ReadInv, ExcusedAt, CleanAt, Compared, Marking
  <2>8. ExcusedInv(next)'
    BY <2>5, <2>6, <2>7 DEF ExcusedInv, Settled
  <2>9. CleanScan(next)'
    BY <1>5, <1>6, <2>5, <2>7 DEF CleanScan, Settled
  <2> QED BY <2>4, <2>7, <2>8, <2>9, TypeStays DEF ThreadInv
<1>7. CASE step # "walk"
  <2>1. ~Scanning(next) /\ ~Compared(next)
    BY <1>3, <1>4, <1>5, <1>b, <1>7 DEF Scanning, Compared
  <2>2. ThreadType(next)
    BY <1>2, <1>3, <1>4, <1>5, <1>b, <1>7, <2>1 DEF ThreadType, ApplyKinds, ReadKinds
  <2>3. ~(next.pc = "apply" /\ next.op.kind \in ReadKinds) /\ next.pc \notin {"examine", "save"}
    BY <1>3, <1>4, <1>5, <1>b DEF ReadKinds
  <2>4. ReadInv(next)'
    BY <2>1, <2>3 DEF ReadInv, Compared
  <2> QED BY <2>1, <2>2, <2>4, TypeStays DEF ThreadInv, ExcusedInv, CleanScan, Scanning
<1> QED BY <1>6, <1>7

\* A thread while files or locks change.
LEMMA DisturbThread ==
  ASSUME LibraryInv, NEW newDisk, NEW newLocked, Disturb(newDisk, newLocked),
         NEW v \in Workers, workers'[v] # None
  PROVE  ThreadInv(workers[v])'
<1>1. PICK r : r = workers[v] OBVIOUS
<1>2. PICK next : next = workers'[v] OBVIOUS
<1> DEFINE touched == {p \in Paths : disk'[p] # disk[p] \/ p \in locked'}
<1>3. /\ r # None
      /\ next = [r EXCEPT !.clean = FALSE,
                          !.excused = IF ~Scanning(r) THEN @ ELSE @ \cup touched]
      /\ past' = [p \in Paths |-> IF disk'[p] # disk[p] /\ disk[p] # None
                                  THEN past[p] \cup {disk[p]} ELSE past[p]]
  BY <1>1, <1>2, ZenonT(60) DEF Disturb
<1>4. ThreadInv(r) /\ ThreadType(r) /\ DOMAIN r = ThreadFields /\ WorldInv
  BY <1>1, <1>3, ThreadOf DEF ThreadInv
<1> HIDE DEF touched
<1>5. /\ DOMAIN next = ThreadFields /\ next.pc = r.pc /\ next.op = r.op /\ next.left = r.left
      /\ next.path = r.path /\ next.fingerprint = r.fingerprint /\ next.content = r.content
      /\ next.models = r.models /\ next.projectors = r.projectors /\ next.runtime = r.runtime
      /\ next.todo = r.todo /\ next.verdict = r.verdict /\ next.shown = r.shown
      /\ ~next.clean /\ (Scanning(r) => next.excused = r.excused \cup touched)
  BY <1>3, <1>4 DEF ThreadFields
<1>6. Scanning(r) => \A p \in Paths : disk'[p] # disk[p] \/ p \in locked' => p \in next.excused
  BY <1>5 DEF touched
<1>7. ThreadType(next)
  BY <1>4, <1>5 DEF ThreadType, Scanning, Visiting, Compared, Marking, Reconciling
<1>8. \A p \in Paths : disk[p] # None => disk'[p] = disk[p] \/ disk[p] \in past'[p]
  BY <1>3
<1>9. \A p \in Paths : past[p] \subseteq past'[p]
  BY <1>3
<1>10. /\ \A p \in Paths, f \in Files : ReadAt(f, p) => ReadAt(f, p)'
       /\ \A p \in Paths : \A c, f : ContentAt(c, f, p) => ContentAt(c, f, p)'
  <2>1. None \notin Files
    BY LibraryAssumption DEF LibraryAssumption
  <2> QED BY <1>8, <1>9, <2>1 DEF ReadAt, ContentAt
<1>11. /\ Compared(r) => r.path \in Paths /\ r.fingerprint \in Files /\ Scanning(r)
       /\ Marking(r) => r.path \in Paths /\ Scanning(r)
       /\ r.pc \in {"examine", "apply"} /\ r.op.kind \in ReadKinds => r.op.arg \in Paths
       /\ r.pc = "examine" => r.fingerprint \in Files /\ r.op.kind \in ReadKinds
       /\ Scanning(r) => Settled(r) \subseteq Paths
  <2>1. Compared(r) \/ Marking(r) => Scanning(r) /\ Visiting(r)
    BY DEF Scanning, Visiting, Compared, Marking
  <2>2. Scanning(r) => Listed[r.op.arg] \subseteq Paths
    BY <1>4, LibraryAssumption DEF LibraryAssumption, ThreadType
  <2>3. r.op.kind \in ReadKinds => r.op.arg \in Paths
    BY <1>4, LibraryAssumption DEF LibraryAssumption, ThreadType, ReadKinds
  <2>4. Visiting(r) /\ Scanning(r) => r.path \in Paths
    BY <1>4, <2>2 DEF ThreadType
  <2> QED BY <1>4, <2>1, <2>2, <2>3, <2>4 DEF ThreadInv, ThreadType, ReadInv, ReadAt, Settled
<1>12. ReadInv(next)'
  <2>1. Compared(next) => Compared(r) BY <1>5 DEF Compared
  <2>2. r.pc = "save" => Compared(r) BY DEF Compared
  <2> QED BY <1>4, <1>5, <1>10, <1>11, <2>1, <2>2 DEF ThreadInv, ReadInv, Compared
<1>13. ASSUME Scanning(next) PROVE ExcusedInv(next)'
  <2>1. Scanning(r) /\ Settled(next) = Settled(r) /\ r.excused \subseteq next.excused
    BY <1>5, <1>13 DEF Scanning, Settled
  <2>2. ExcusedInv(r)
    BY <1>4 DEF ThreadInv
  <2>3. \A p \in Paths : HoldsModel(p)' \/ p \in next.excused
    BY <1>6, <2>1, <2>2 DEF ExcusedInv, HoldsModel, Readable, KindAt
  <2>4. \A p \in Paths : CameBack(p) => CameBack(p)' \/ p \in next.excused
    BY <1>6, <1>9, <2>1 DEF CameBack
  <2>5. ExcusedAt(next)'
    <3>1. Compared(next) => next.path \in next.excused \/ next.fingerprint = disk'[next.path]
      BY <1>5, <1>6, <1>11, <2>1, <2>2 DEF ExcusedInv, ExcusedAt, Compared
    <3>2. Marking(next) => next.path \in next.excused
      BY <1>5, <2>1, <2>2 DEF ExcusedInv, ExcusedAt, Marking
    <3>3. next.pc = "touchProjector" => next.path \in next.excused \/ CameBack(next.path)'
      BY <1>5, <1>11, <2>1, <2>2, <2>4 DEF ExcusedInv, ExcusedAt, Compared
    <3>4. next.pc = "save" /\ Info[next.content].kind = "projector" => next.path \in next.excused
      BY <1>5, <2>1, <2>2 DEF ExcusedInv, ExcusedAt
    <3> QED BY <3>1, <3>2, <3>3, <3>4 DEF ExcusedAt, Compared, Marking
  <2>6. \A p \in Settled(r) : p \in next.models \/ p \in next.excused \/ CameBack(p)'
    BY <1>5, <1>11, <2>1, <2>2, <2>4 DEF ExcusedInv
  <2> QED BY <2>1, <2>3, <2>5, <2>6 DEF ExcusedInv, Settled
<1>14. ExcusedInv(next)'
  BY <1>13 DEF ExcusedInv, Scanning
<1> QED BY <1>2, <1>5, <1>7, <1>12, <1>14, TypeStays DEF ThreadInv

LEMMA DisturbTables ==
  ASSUME LibraryInv, NEW newDisk, NEW newLocked, Disturb(newDisk, newLocked)
  PROVE  Tables(db, past)' /\ Verdicts(db)' /\ Fresh(page.shown)'
<1>1. db' = db /\ page' = page /\ \A p \in Paths : past[p] \subseteq past'[p]
  BY DEF Disturb
<1>2. Tables(db, past) /\ Verdicts(db) /\ Fresh(page.shown)
  BY DEF LibraryInv
<1>3. \A j \in ProjectorIds : db.projectors[j] # None => db.projectors[j].path \in Paths
  BY <1>2 DEF Tables, Store, ProjectorRows
<1> QED BY <1>1, <1>2, <1>3 DEF Tables, TrueRows

LEMMA EnvironmentStep ==
  ASSUME LibraryInv, WriteFile \/ DeleteFile \/ MoveFile \/ LockFile
  PROVE  LibraryInv'
<1>1. WorldInv /\ Changing \subseteq Paths
  BY LibraryAssumption DEF LibraryInv, LibraryAssumption
<1>2. PICK newDisk, newLocked :
        newDisk \in [Paths -> Files \cup {None}] /\ Disturb(newDisk, newLocked)
  <2>1. CASE WriteFile
    <3>1. PICK p \in Paths, c \in Contents :
            Disturb([disk EXCEPT ![p] = [content |-> c, stamp |-> spent.incidents + 1]], locked)
      BY <1>1, <2>1 DEF WriteFile
    <3>2. spent.incidents + 1 \in Nat
      BY <1>1 DEF WorldInv
    <3>3. [disk EXCEPT ![p] = [content |-> c, stamp |-> spent.incidents + 1]]
          \in [Paths -> Files \cup {None}]
      BY <1>1, <3>2 DEF WorldInv, Files
    <3> QED BY <3>1, <3>3
  <2>2. CASE DeleteFile
    <3>1. PICK p \in Paths : Disturb([disk EXCEPT ![p] = None], locked)
      BY <1>1, <2>2 DEF DeleteFile
    <3>2. [disk EXCEPT ![p] = None] \in [Paths -> Files \cup {None}]
      BY <1>1 DEF WorldInv
    <3> QED BY <3>1, <3>2
  <2>3. CASE MoveFile
    <3>1. PICK p \in Paths, q \in Paths :
            Disturb([disk EXCEPT ![q] = disk[p], ![p] = None], locked)
      BY <1>1, <2>3 DEF MoveFile
    <3>2. [disk EXCEPT ![q] = disk[p], ![p] = None] \in [Paths -> Files \cup {None}]
      BY <1>1 DEF WorldInv
    <3> QED BY <3>1, <3>2
  <2>4. CASE LockFile
    <3>1. PICK p \in Changing : Disturb(disk, IF p \in locked THEN {} ELSE {p})
      BY <2>4 DEF LockFile
    <3> QED BY <1>1, <3>1 DEF WorldInv
  <2> QED BY <2>1, <2>2, <2>3, <2>4
<1>3. WorldInv'
  <2>1. /\ disk' = newDisk /\ runtime' = runtime /\ page' = page
        /\ workers' = [w \in Workers |-> workers'[w]]
    BY <1>2 DEF Disturb
  <2>2. past' \in [Paths -> SUBSET Files]
    BY <1>1, <1>2 DEF Disturb, WorldInv
  <2>3. spent' = [spent EXCEPT !.incidents = @ + 1]
    BY <1>2 DEF Disturb, Incident
  <2>4. spent' \in [operations : Nat, incidents : Nat]
    BY <1>1, <2>3 DEF WorldInv
  <2> QED BY <1>1, <1>2, <2>1, <2>2, <2>4 DEF WorldInv
<1>4. Tables(db, past)' /\ Verdicts(db)' /\ Fresh(page.shown)'
  BY <1>2, DisturbTables
<1>5. \A v \in Workers : workers'[v] # None => ThreadInv(workers[v])'
  BY <1>2, DisturbThread
<1> QED BY <1>3, <1>4, <1>5 DEF LibraryInv

\* What the page does: a new thread, a cancellation, another page; a runtime.
LEMMA PageStep ==
  ASSUME LibraryInv,
         \/ \E w \in Workers : Begin(w)
         \/ CancelScan \/ LeaveAndReturn \/ SelectRuntime
  PROVE  LibraryInv'
<1>1. WorldInv /\ Tables(db, past) /\ Verdicts(db) /\ Fresh(page.shown)
  BY DEF LibraryInv
<1>2. UNCHANGED <<disk, past, locked, db>>
  BY DEF Begin, CancelScan, LeaveAndReturn, SelectRuntime
<1>3. Fresh(page'.shown) /\ DOMAIN page' = PageFields
  <2>1. ASSUME NEW w \in Workers, Begin(w) PROVE Fresh(page'.shown) /\ DOMAIN page' = PageFields
    <3>1. \E op : page' = [page EXCEPT !.activity = op.kind,
                              !.token = IF op.kind = "Scan" THEN w ELSE @]
      BY <2>1, ZenonT(60) DEF Begin
    <3>2. page'.shown = page.shown /\ DOMAIN page' = PageFields
      BY <1>1, <3>1 DEF WorldInv, PageFields
    <3> QED BY <1>1, <3>2
  <2>2. CASE LeaveAndReturn
    <3>1. \E loaded :
            page' = [mount |-> page.mount + 1, activity |-> "Idle", token |-> None,
                     shown |-> IF loaded THEN Snapshot(db, runtime) ELSE Empty]
      BY <2>2 DEF LeaveAndReturn
    <3>2. DOMAIN page' = PageFields /\ page'.shown \in {Snapshot(db, runtime), Empty}
      BY <3>1 DEF PageFields
    <3>3. Fresh(Snapshot(db, runtime)) /\ Fresh(Empty)
      BY <1>1, SnapshotIsFresh, EmptyIsFresh DEF WorldInv
    <3> QED BY <3>2, <3>3
  <2>3. CASE CancelScan \/ SelectRuntime
    BY <1>1, <2>3 DEF CancelScan, SelectRuntime, WorldInv
  <2> QED BY <2>1, <2>2, <2>3
<1>4. WorldInv'
  <2>1. runtime' \in Runtimes \cup {None}
    BY <1>1 DEF WorldInv, Begin, CancelScan, LeaveAndReturn, SelectRuntime
  <2>2. workers' = [w \in Workers |-> workers'[w]]
    BY <1>1 DEF WorldInv, Begin, CancelScan, LeaveAndReturn, SelectRuntime
  <2>3. spent' \in [operations : Nat, incidents : Nat]
    <3>1. \E i \in {spent.incidents, spent.incidents + 1} :
            spent' = [spent EXCEPT !.operations = @ + 1, !.incidents = i]
      <4>1. spent \in [operations : Nat, incidents : Nat]
        BY <1>1 DEF WorldInv
      <4>2. [spent EXCEPT !.operations = @ + 1]
            = [spent EXCEPT !.operations = @ + 1, !.incidents = spent.incidents]
        BY <4>1
      <4>3. ASSUME NEW w \in Workers, Begin(w)
            PROVE  \E step : spent' = [spent EXCEPT !.operations = @ + 1,
                                         !.incidents = IF step = "finish" THEN @ + 1 ELSE @]
        BY <4>3, ZenonT(60) DEF Begin
      <4>4. CASE LeaveAndReturn
        BY <4>4 DEF LeaveAndReturn
      <4>5. CASE CancelScan \/ SelectRuntime
        BY <4>2, <4>5 DEF CancelScan, SelectRuntime
      <4> QED BY <4>3, <4>4, <4>5
    <3>2. spent.operations + 1 \in Nat /\ spent.incidents + 1 \in Nat /\ spent.incidents \in Nat
      BY <1>1 DEF WorldInv
    <3> QED BY <1>1, <3>1, <3>2 DEF WorldInv
  <2> QED BY <1>1, <1>2, <1>3, <2>1, <2>2, <2>3 DEF WorldInv
<1>5. ASSUME NEW v \in Workers, workers'[v] # None PROVE ThreadInv(workers[v])'
  <2>1. PICK r : r = workers[v] OBVIOUS
  <2>2. PICK next : next = workers'[v] OBVIOUS
  <2>3. r # None => ThreadInv(r) /\ DOMAIN r = ThreadFields
    BY <2>1, ThreadOf
  <2>4. CASE next = r
    <3>1. r # None /\ SameThread(r, r)
      BY <1>5, <2>2, <2>3, <2>4 DEF SameThread, SameData
    <3>2. ThreadInv(r)'
      BY <1>2, <2>3, <2>4, <3>1, Carried
    <3> QED BY <2>2, <2>4, <3>2
  <2>5. ASSUME NEW w \in Workers, Begin(w) PROVE ThreadInv(workers[v])'
    <3>1. v = w \/ next = r
      BY <1>1, <2>1, <2>2, <2>5 DEF Begin, WorldInv
    <3> QED BY <2>4, <2>5, <3>1, BeginThread
  <2>6. CASE CancelScan
    <3>1. next = r \/ (r # None /\ next = [r EXCEPT !.cancel = TRUE])
      BY <1>1, <2>1, <2>2, <2>6 DEF CancelScan, WorldInv
    <3>2. CASE r # None /\ next = [r EXCEPT !.cancel = TRUE]
      <4>1. SameThread(next, r) /\ (next.clean => r.clean)
        BY <2>3, <3>2 DEF SameThread, SameData, ThreadFields
      <4>2. ThreadInv(next)'
        BY <1>2, <2>3, <3>2, <4>1, Carried
      <4> QED BY <2>2, <4>2
    <3> QED BY <2>4, <3>1, <3>2
  <2>7. CASE LeaveAndReturn \/ SelectRuntime
    BY <2>1, <2>2, <2>4, <2>7 DEF LeaveAndReturn, SelectRuntime
  <2> QED BY <2>5, <2>6, <2>7
<1> QED BY <1>1, <1>2, <1>3, <1>4, <1>5 DEF LibraryInv

LEMMA LibraryInit == Init => LibraryInv
<1> SUFFICES ASSUME Init PROVE LibraryInv OBVIOUS
<1>1. WorldInv
  BY LibraryAssumption DEF LibraryAssumption, Init, WorldInv, PageFields
<1>2. Tables(db, past) /\ Verdicts(db)
  BY DEF Init, EmptyStore, Tables, Store, StoreFields, TrueRows, UniquePaths, Verdicts
<1>3. \A w \in Workers : workers[w] = None
  BY DEF Init
<1>4. Fresh(page.shown)
  BY EmptyIsFresh DEF Init
<1> QED BY <1>1, <1>2, <1>3, <1>4 DEF LibraryInv

LEMMA LibraryStep == LibraryInv /\ [Next]_vars => LibraryInv'
<1> SUFFICES ASSUME LibraryInv, [Next]_vars PROVE LibraryInv' BY SMTT(30)
<1>1. CASE UNCHANGED vars
  <2>1. ASSUME NEW v \in Workers, workers'[v] # None PROVE ThreadInv(workers[v])'
    <3>1. PICK r : r = workers[v] OBVIOUS
    <3>2. workers'[v] = r /\ UNCHANGED <<disk, past, locked, db>>
      BY <1>1, <3>1 DEF vars
    <3>3. ThreadInv(r) /\ SameThread(r, r)
      BY <2>1, <3>1, <3>2, ThreadOf DEF SameThread, SameData
    <3>4. ThreadInv(r)'
      BY <3>2, <3>3, Carried
    <3> QED BY <3>2, <3>4
  <2> QED BY <1>1, <2>1 DEF vars, LibraryInv, WorldInv
<1>2. ASSUME NEW w \in Workers, Steps(w) PROVE LibraryInv'
  BY <1>2, ThreadStep
<1>3. CASE WriteFile \/ DeleteFile \/ MoveFile \/ LockFile
  BY <1>3, EnvironmentStep
<1>4. CASE (\E w \in Workers : Begin(w)) \/ CancelScan \/ LeaveAndReturn \/ SelectRuntime
  BY <1>4, PageStep
<1> QED BY <1>1, <1>2, <1>3, <1>4 DEF Next

\* The invariant of the library: the rows have the content of the files they
\* have the fingerprints of, every stored verdict is that of a runtime, and
\* every thread knows what it needs to know.
THEOREM LibraryCorrect == Spec => []LibraryInv
BY LibraryInit, LibraryStep, PTL DEF Spec

-----------------------------------------------------------------------------
(* The properties                                                          *)

\* A verdict that is not marked stale is that of the runtime it is shown with,
\* for any number of threads, runtimes and pages, whatever fails.
THEOREM FreshVerdictsCorrect == Spec => []FreshVerdictsAreOfRuntime
<1>1. LibraryInv => FreshVerdictsAreOfRuntime
  BY DEF LibraryInv, Fresh, FreshVerdictsAreOfRuntime
<1> QED BY <1>1, LibraryCorrect, PTL

\* A thread that reconciles has walked its folder to the end.
LEMMA WalkedToTheEnd ==
  ASSUME LibraryInv, NEW w \in Workers, workers[w] # None, Reconciling(workers[w])
  PROVE  /\ ThreadInv(workers[w]) /\ Scanning(workers[w])
         /\ Settled(workers[w]) = Listed[workers[w].op.arg]
         /\ Listed[workers[w].op.arg] \subseteq Beneath[workers[w].op.arg]
         /\ Beneath[workers[w].op.arg] \subseteq Paths
<1>1. ThreadInv(workers[w]) /\ Scanning(workers[w]) /\ ~Visiting(workers[w])
  BY DEF LibraryInv, Reconciling, Scanning, Visiting, Compared, Marking
<1>2. ThreadType(workers[w])
  BY <1>1 DEF ThreadInv
<1>3. /\ Listed[workers[w].op.arg] \subseteq Beneath[workers[w].op.arg]
      /\ Beneath[workers[w].op.arg] \subseteq Paths /\ None \notin Paths
  BY <1>1, <1>2, LibraryAssumption DEF LibraryAssumption, ThreadType
<1>4. workers[w].left = {} /\ workers[w].path = None
  BY <1>1, <1>2 DEF ThreadType
<1> QED BY <1>1, <1>3, <1>4 DEF Settled

\* The step in which a location turns missing.
LEMMA MissingStep ==
  ASSUME LibraryInv, [Next]_vars, NEW p \in Paths,
         db.locations[p] # None, db.locations[p].state # "missing",
         db'.locations[p] # None, db'.locations[p].state = "missing"
  PROVE  \E w \in Workers :
            \/ At(w, "apply") /\ workers[w].op.kind = "Refresh" /\ disk[p] = None
            \/ /\ At(w, "reconcile") /\ p \in Beneath[workers[w].op.arg]
               /\ \/ p \notin Listed[workers[w].op.arg]
                  \/ p \in workers[w].excused \/ CameBack(p)
<1>1. db' # db
  OBVIOUS
<1>2. PICK w \in Workers : Steps(w)
  BY <1>1 DEF Next, vars, Begin, CancelScan, LeaveAndReturn, SelectRuntime, WriteFile, DeleteFile,
              MoveFile, LockFile, Disturb
<1>3. ~NoneMissed(db, db')
  BY DEF NoneMissed
<1>4. Tables(db, past) /\ Store(db) /\ "missing" \in LocationStates
  BY DEF LibraryInv, Tables, LocationStates
<1>5. CASE ReconcileModels(w) /\ db' = Reconcile(db, Beneath[workers[w].op.arg], workers[w].models)
  <2>1. PICK r : r = workers[w] OBVIOUS
  <2>2. At(w, "reconcile") /\ r # None /\ Reconciling(r)
    BY <1>5, <2>1 DEF ReconcileModels, At, Reconciling
  <2>3. PICK gone : gone = Beneath[r.op.arg] \ r.models OBVIOUS
  <2>4. db' = SetLocations(db, gone, "missing")
    BY <1>5, <2>1, <2>3 DEF Reconcile
  <2>5. p \in gone
    BY <1>4, <2>4, SetLocationsAt
  <2>6. p \in Listed[r.op.arg] => p \in r.models \/ p \in r.excused \/ CameBack(p)
    BY <2>1, <2>2, WalkedToTheEnd DEF ThreadInv, ExcusedInv
  <2> QED BY <2>1, <2>2, <2>3, <2>5, <2>6
<1>6. CASE Apply(w) /\ workers[w].op.kind = "Refresh" /\ db' = Refresh(db, disk)
  <2>1. disk[p] = None
    BY <1>4, <1>6, RefreshTables
  <2>2. At(w, "apply")
    BY <1>6 DEF Apply
  <2> QED BY <1>6, <2>1, <2>2
<1> QED BY <1>2, <1>3, <1>5, <1>6, StepsTables

\* A location turns missing only for a reason, for any number of threads,
\* orphans included, and whatever happens to the files meanwhile.
THEOREM MissingCorrect == Spec => MissingHasReason
<1>1. LibraryInv /\ [Next]_vars =>
        [\A p \in Paths :
            /\ db.locations[p] # None /\ db.locations[p].state # "missing"
            /\ db'.locations[p] # None /\ db'.locations[p].state = "missing"
            => \E w \in Workers :
                \/ At(w, "apply") /\ workers[w].op.kind = "Refresh" /\ disk[p] = None
                \/ LET folder == workers[w].op.arg IN
                   /\ At(w, "reconcile") /\ p \in Beneath[folder]
                   /\ p \notin Listed[folder] \/ p \in workers[w].excused \/ CameBack(p)]_vars
  BY MissingStep, SMTT(30)
<1> QED
  BY <1>1, LibraryCorrect, PTL DEF Spec, MissingHasReason

\* Only the thread itself goes on from its second reconciliation to its summary.
LEMMA ReconcilesItself ==
  ASSUME LibraryInv, [Next]_vars, NEW w \in Workers,
         At(w, "reconcileProjectors"), At(w, "summary")'
  PROVE  ReconcileRest(w)
<1>1. PICK r : r = workers[w] OBVIOUS
<1>2. PICK next : next = workers'[w] OBVIOUS
<1>3. r # None /\ r.pc = "reconcileProjectors" /\ next # None /\ next.pc = "summary"
  BY <1>1, <1>2 DEF At
<1>4. DOMAIN r = ThreadFields /\ WorldInv
  BY <1>1, <1>3, ThreadOf
<1>5. \A x, y : /\ [r EXCEPT !.clean = x].pc = r.pc
               /\ [r EXCEPT !.cancel = x].pc = r.pc
               /\ [r EXCEPT !.clean = x, !.excused = y].pc = r.pc
  BY <1>4 DEF ThreadFields
<1>6. CASE UNCHANGED vars
  BY <1>1, <1>2, <1>3, <1>6 DEF vars
<1>7. ASSUME NEW v \in Workers, Begin(v) PROVE FALSE
  <2>1. v # w
    BY <1>1, <1>3, <1>7 DEF Begin
  <2> QED BY <1>1, <1>2, <1>3, <1>4, <1>7, <2>1 DEF Begin, WorldInv
<1>8. CASE CancelScan
  BY <1>1, <1>2, <1>3, <1>4, <1>5, <1>8 DEF CancelScan, WorldInv
<1>9. CASE LeaveAndReturn \/ SelectRuntime
  BY <1>1, <1>2, <1>3, <1>9 DEF LeaveAndReturn, SelectRuntime
<1>10. ASSUME NEW newDisk, NEW newLocked, Disturb(newDisk, newLocked) PROVE FALSE
  <2>1. \E y : next = [r EXCEPT !.clean = FALSE, !.excused = y]
    BY <1>1, <1>2, <1>3, <1>10 DEF Disturb
  <2> QED BY <1>3, <1>5, <2>1
<1>11. CASE WriteFile \/ DeleteFile \/ MoveFile \/ LockFile
  BY <1>10, <1>11 DEF WriteFile, DeleteFile, MoveFile, LockFile
<1>12. ASSUME NEW v \in Workers \ {w}, Steps(v) PROVE FALSE
  <2>1. CASE Publish(v)
    BY <1>1, <1>2, <1>3, <1>4, <1>12, <2>1 DEF Publish, WorldInv
  <2>2. CASE ~Publish(v)
    <3>1. Becomes(v, workers'[v], db')
      BY <1>12, <2>2, StepsBecome
    <3>2. next = r \/ next = [r EXCEPT !.clean = FALSE]
      BY <1>1, <1>2, <3>1 DEF Becomes
    <3> QED BY <1>3, <1>5, <3>2
  <2> QED BY <2>1, <2>2
<1>13. CASE Steps(w)
  BY <1>1, <1>3, <1>13
     DEF Steps, ScanSteps, At, Walk, WalkError, Fingerprint, Mark, MarkProjector, Lookup,
         LookupProjector, TouchRow, TouchProjectorRow, Inspect, Save, ReconcileModels, Summary,
         ReadFile, Examine, Apply, Recompute, ListModels, EvaluateNext, StoreVerdict, Finish, Load,
         Publish
<1> QED BY <1>6, <1>7, <1>8, <1>9, <1>11, <1>12, <1>13 DEF Next

\* What the second reconciliation of an undisturbed scan leaves.
LEMMA ReconciledIsTrue ==
  ASSUME LibraryInv, NEW w \in Workers, At(w, "reconcileProjectors"), NEW r, r = workers[w], r.clean,
         NEW new, new = ReconcileProjectors(db, Beneath[r.op.arg], r.projectors),
         NEW p \in Listed[r.op.arg], ~CameBack(p)
  PROVE  RowsAreTrue(new, p)
<1> DEFINE beneath == Beneath[r.op.arg]
<1>1. r # None /\ r.pc = "reconcileProjectors" /\ Reconciling(r)
  BY DEF At, Reconciling
<1>2. /\ ThreadInv(r) /\ Scanning(r) /\ Settled(r) = Listed[r.op.arg] /\ p \in beneath /\ p \in Paths
      /\ WorldInv /\ Store(db)
  BY <1>1, WalkedToTheEnd DEF LibraryInv, Tables
<1>3. /\ SettledTruly(r, db, p)
      /\ db.locations[p] # None /\ db.locations[p].state = "present" => p \in r.models
      /\ r.models \cup r.projectors \subseteq beneath
  BY <1>1, <1>2, WalkedToTheEnd DEF ThreadInv, CleanScan
<1>4. PICK lost : lost = beneath \ r.projectors OBVIOUS
<1>5. "missing" \in LocationStates /\ new = SetProjectors(db, lost, "missing")
  BY <1>4 DEF LocationStates, ReconcileProjectors
<1> HIDE DEF beneath
<1>6. /\ new.locations = db.locations
      /\ \A j \in ProjectorIds :
            IF db.projectors[j] # None /\ db.projectors[j].path \in lost
            THEN /\ new.projectors[j] # None /\ new.projectors[j].state = "missing"
                 /\ new.projectors[j].path = db.projectors[j].path
            ELSE new.projectors[j] = db.projectors[j]
  BY <1>2, <1>5, SetProjectorsAt, SetProjectorsRest
<1>7. (new.locations[p] # None /\ new.locations[p].state = "present") <=> HoldsModel(p)
  BY <1>3, <1>6 DEF SettledTruly
<1>8. HoldsModel(p) => new.locations[p].model = disk[p].content
  BY <1>3, <1>6 DEF SettledTruly
<1>9. ASSUME NEW j \in ProjectorsAt(new, p), new.projectors[j].state = "present"
      PROVE  Readable(p) /\ disk[p].content = j
  <2>1. j \in ProjectorIds /\ new.projectors[j] # None /\ new.projectors[j].path = p
    BY <1>9, ZenonT(60) DEF ProjectorsAt
  <2>2. new.projectors[j] = db.projectors[j] /\ p \in r.projectors
    BY <1>2, <1>4, <1>6, <1>9, <2>1
  <2>3. j \in ProjectorsAt(db, p)
    BY <2>1, <2>2, SMTT(30) DEF ProjectorsAt
  <2> QED BY <1>3, <2>2, <2>3, SMTT(30) DEF SettledTruly, HoldsProjector
<1>10. ASSUME HoldsProjector(p)
       PROVE  /\ new.projectors[disk[p].content] # None
              /\ new.projectors[disk[p].content].state = "present"
  <2>1. disk[p].content \in ProjectorIds
    BY <1>2, <1>10, ContentKinds DEF HoldsProjector, Readable
  <2> QED BY <1>3, <1>4, <1>6, <1>10, <2>1 DEF SettledTruly
<1> QED BY <1>7, <1>8, <1>9, <1>10 DEF RowsAreTrue, HoldsProjector

LEMMA CompleteStep ==
  ASSUME LibraryInv, [Next]_vars, NEW w \in Workers,
         At(w, "reconcileProjectors"), At(w, "summary")', workers'[w].clean,
         NEW p \in Listed[workers[w].op.arg]
  PROVE  CameBack(p) \/ RowsAreTrue(db', p)
<1>1. ReconcileRest(w)
  BY ReconcilesItself
<1>2. PICK r : r = workers[w] OBVIOUS
<1>3. PICK next : next = workers'[w] OBVIOUS
<1>4. DOMAIN r = ThreadFields /\ r # None /\ DOMAIN workers = Workers
  BY <1>2, ThreadOf DEF At, WorldInv
<1>5. \/ /\ next = [r EXCEPT !.pc = "summary"]
         /\ db' = ReconcileProjectors(db, Beneath[r.op.arg], r.projectors)
      \/ next = [[r EXCEPT !.pc = "summary"] EXCEPT !.clean = FALSE]
  BY <1>1, <1>2, <1>3, <1>4 DEF ReconcileRest, Commit, Fail
<1>6. /\ [r EXCEPT !.pc = "summary"].clean = r.clean
      /\ [[r EXCEPT !.pc = "summary"] EXCEPT !.clean = FALSE].clean = FALSE
  BY <1>4 DEF ThreadFields
<1>7. r.clean /\ db' = ReconcileProjectors(db, Beneath[r.op.arg], r.projectors)
  BY <1>3, <1>5, <1>6
<1> QED BY <1>2, <1>7, ReconciledIsTrue

\* After a scan that was not cancelled and that nothing disturbed, the rows of
\* the paths its walk lists are the truth, whatever happened before.
THEOREM ScanCorrect == Spec => CompleteScanIsTruth
<1>1. LibraryInv /\ [Next]_vars =>
        [\A w \in Workers :
            At(w, "reconcileProjectors") /\ At(w, "summary")' /\ workers'[w].clean =>
            \A p \in Listed[workers[w].op.arg] : CameBack(p) \/ RowsAreTrue(db', p)]_vars
  BY CompleteStep
<1> QED
  BY <1>1, LibraryCorrect, PTL DEF Spec, CompleteScanIsTruth
=============================================================================
