------------------------ MODULE ManifestIndex_proofs ------------------------
(* Theorems about the registry service, for every value of its constants:    *)
(* its index, its answers and what they say is stale, its saves, and when an *)
(* identity moves.                                                           *)
EXTENDS ManifestIndex, TLAPS

-----------------------------------------------------------------------------
(* Partial functions on Ids. *)

\* A function from some ids to S is a partial function to S.
LEMMA PartialFcnIntro ==
    ASSUME NEW S, NEW D \in SUBSET Ids, NEW f \in [D -> S]
    PROVE  f \in PartialFcn(S)
BY DEF PartialFcn

\* And the other way round.
LEMMA PartialFcnElim ==
    ASSUME NEW S, NEW f \in PartialFcn(S)
    PROVE  /\ DOMAIN f \in SUBSET Ids
           /\ f \in [DOMAIN f -> S]
BY DEF PartialFcn

\* The empty index.
LEMMA EmptyType == ASSUME NEW S PROVE Empty \in PartialFcn(S) /\ DOMAIN Empty = {}
<1>1. Empty \in [{} -> S] /\ DOMAIN Empty = {}
  BY DEF Empty
<1> QED BY <1>1, PartialFcnIntro

\* A partial function restricted to fewer ids.
LEMMA RestrictType ==
    ASSUME NEW S, NEW f \in PartialFcn(S), NEW D
    PROVE  /\ [j \in DOMAIN f \ D |-> f[j]] \in PartialFcn(S)
           /\ DOMAIN [j \in DOMAIN f \ D |-> f[j]] = DOMAIN f \ D
<1>1. DOMAIN f \in SUBSET Ids /\ f \in [DOMAIN f -> S]
  BY PartialFcnElim
<1>2. DOMAIN f \ D \in SUBSET Ids /\ [j \in DOMAIN f \ D |-> f[j]] \in [DOMAIN f \ D -> S]
  BY <1>1
<1> QED BY <1>2, PartialFcnIntro

-----------------------------------------------------------------------------
(* Types of the operators the actions are built from. *)

\* The record of a manifest is a record.
LEMMA RecordOfType == ASSUME NEW m \in Manifests PROVE RecordOf(m) \in Leaves
BY ConstantsAssumption DEF RecordOf, Manifests, Leaves

\* Marking a row changes its status and nothing else.
LEMMA MarkType ==
    ASSUME NEW w \in PartialFcn(Row), NEW i, NEW s \in {"ok", "missing", "invalid"}
    PROVE  /\ Mark(w, i, s) \in PartialFcn(Row)
           /\ DOMAIN Mark(w, i, s) = DOMAIN w
           /\ \A j \in DOMAIN w : /\ j # i => Mark(w, i, s)[j] = w[j]
                                  /\ Mark(w, i, s)[j].path = w[j].path
                                  /\ Mark(w, i, s)[j].content = w[j].content
                                  /\ j = i => Mark(w, i, s)[j].status = s
<1>1. DOMAIN w \in SUBSET Ids /\ w \in [DOMAIN w -> Row]
  BY PartialFcnElim
<1>2. \A j \in DOMAIN w : [w[j] EXCEPT !.status = s] \in Row
  BY <1>1 DEF Row
<1>3. Mark(w, i, s) \in [DOMAIN w -> Row]
  BY <1>1, <1>2 DEF Mark
<1>4. Mark(w, i, s) \in PartialFcn(Row)
  BY <1>1, <1>3, PartialFcnIntro
<1>5. \A j \in DOMAIN w : w[j] \in [path : Paths, content : Manifests,
                                    status : {"ok", "missing", "invalid"}]
  BY <1>1 DEF Row
<1> QED BY <1>4, <1>5 DEF Mark

\* persist() leaves an index, with the manifest's id in it.
LEMMA PersistType ==
    ASSUME NEW w \in PartialFcn(Row), NEW m \in Manifests, NEW p \in Paths, NEW old
    PROVE  /\ Persist(w, m, p, old) \in PartialFcn(Row)
           /\ DOMAIN Persist(w, m, p, old) = (DOMAIN w \ Renamed(w, m, p, old)) \cup {m.id}
<1> DEFINE D == (DOMAIN w \ Renamed(w, m, p, old)) \cup {m.id}
<1>1. DOMAIN w \in SUBSET Ids /\ w \in [DOMAIN w -> Row]
  BY PartialFcnElim
<1>2. m.id \in Ids /\ [path |-> p, content |-> m, status |-> "ok"] \in Row
  BY DEF Manifests, Row
<1>3. D \in SUBSET Ids
  BY <1>1, <1>2
<1>4. Persist(w, m, p, old) \in [D -> Row]
  BY <1>1, <1>2 DEF Persist
<1> QED BY <1>3, <1>4, PartialFcnIntro DEF Persist

\* What load and save answer is a snapshot.
LEMMA SnapshotOfType ==
    ASSUME NEW w \in PartialFcn(Row), NEW t \in Settings
    PROVE  SnapshotOf(w, t) \in Snapshots
<1> DEFINE recs == [i \in DOMAIN w |-> RecordOf(w[i].content)]
           home == [i \in DOMAIN w |-> w[i].path]
<1>1. DOMAIN w \in SUBSET Ids /\ w \in [DOMAIN w -> Row]
  BY PartialFcnElim
<1>2. \A i \in DOMAIN w : w[i].content \in Manifests /\ w[i].path \in Paths
  BY <1>1 DEF Row
<1>3. recs \in [DOMAIN w -> Leaves] /\ home \in [DOMAIN w -> Paths]
  BY <1>2, RecordOfType
<1>4. recs \in PartialFcn(Leaves) /\ home \in PartialFcn(Paths)
  BY <1>1, <1>3, PartialFcnIntro
<1> QED BY <1>4 DEF SnapshotOf, Snapshots

\* So is what a client starts with.
LEMMA EmptySnapshotType == EmptySnapshot \in Snapshots
<1>1. Empty \in PartialFcn(Leaves) /\ Empty \in PartialFcn(Paths)
  BY EmptyType
<1> QED BY <1>1 DEF EmptySnapshot, Snapshots, Settings

\* A snapshot has a record and a path for the same ids.
LEMMA SnapshotFields ==
    ASSUME NEW s \in Snapshots
    PROVE  /\ s.settings \in Settings
           /\ DOMAIN s.recs \in SUBSET Ids /\ DOMAIN s.home = DOMAIN s.recs
           /\ s.recs \in [DOMAIN s.recs -> Leaves]
           /\ s.home \in [DOMAIN s.recs -> Paths]
<1>1. s.recs \in PartialFcn(Leaves) /\ s.home \in PartialFcn(Paths)
      /\ s.settings \in Settings /\ DOMAIN s.recs = DOMAIN s.home
  BY DEF Snapshots
<1> QED BY <1>1, PartialFcnElim

\* applyRecord() makes a manifest of the same id.
LEMMA ApplyType ==
    ASSUME NEW m \in Manifests, NEW rec \in Leaves
    PROVE  Apply(m, rec) \in Manifests /\ Apply(m, rec).id = m.id
<1>1. RecordOf(m) \in Leaves
  BY RecordOfType
<1> DEFINE fs == [f \in Fields |-> IF rec[f] = RecordOf(m)[f] THEN m.fields[f] ELSE rec[f]]
<1>2. fs \in Leaves
  BY DEF Leaves, Manifests
<1>3. Apply(m, rec) = [m EXCEPT !.legacy = FALSE, !.fields = fs]
  BY DEF Apply
<1>4. m \in [kind : {"manifest"}, id : Ids, legacy : BOOLEAN, fields : Leaves]
  BY DEF Manifests
<1> HIDE DEF fs
<1>5. Apply(m, rec) = [kind |-> m.kind, id |-> m.id, legacy |-> FALSE, fields |-> fs]
  BY <1>3, <1>4
<1> QED BY <1>2, <1>4, <1>5 DEF Manifests

\* What a save wants a manifest to say is a record.
LEMMA NextRecordType ==
    ASSUME NEW i, NEW m \in Manifests, req \in ClientRequests, i \in DOMAIN req.want.recs
    PROVE  NextRecord(i, m) \in Leaves
<1>1. req.base \in Snapshots /\ req.want \in Snapshots
  BY DEF ClientRequests
<1>2. req.want.recs[i] \in Leaves /\ (Known(i) => req.base.recs[i] \in Leaves)
  BY <1>1, SnapshotFields DEF Known
<1>3. RecordOf(m) \in Leaves
  BY RecordOfType
<1>4. Known(i) => MergedRecord(req.base.recs[i], req.want.recs[i], m) \in Leaves
  BY <1>2, <1>3 DEF MergedRecord, Merged, Leaves
<1>5. AdoptedRecord(req.want.recs[i], m) \in Leaves
  BY <1>2, <1>3 DEF AdoptedRecord, Leaves
<1> QED BY <1>3, <1>4, <1>5 DEF NextRecord

\* The write planned for a project, and the one register() makes.
LEMMA PlannedWriteType ==
    ASSUME TypeOK, req \in ClientRequests, NEW i \in DOMAIN req.want.recs,
           file[HomeOf(i)] \in Manifests
    PROVE  PlannedWrite(i) \in Write
<1>1. req.want \in Snapshots
  BY DEF ClientRequests
<1>2. work \in PartialFcn(Row)
  BY DEF TypeOK
<1>3. i \in Ids /\ req.want.home[i] \in Paths
  BY <1>1, SnapshotFields
<1>4. i \in DOMAIN work => work[i] \in Row
  BY <1>2, PartialFcnElim
<1>5. HomeOf(i) \in Paths
  BY <1>3, <1>4 DEF HomeOf, Row
<1>6. NextRecord(i, file[HomeOf(i)]) \in Leaves
  BY NextRecordType
<1>7. Apply(file[HomeOf(i)], NextRecord(i, file[HomeOf(i)])) \in Manifests
  BY <1>6, ApplyType
<1> QED BY <1>3, <1>5, <1>7 DEF PlannedWrite, Write

\* The write register() makes has the type of a write.
LEMMA RegistrationType ==
    ASSUME TypeOK, NEW p \in Paths, file[p] \in Manifests
    PROVE  Registration(p) \in Write
<1>1. [file[p] EXCEPT !.legacy = FALSE] \in Manifests
  BY DEF Manifests
<1>2. {i \in DOMAIN work : work[i].path = p} \in SUBSET Ids
  BY PartialFcnElim DEF TypeOK
<1> QED BY <1>1, <1>2 DEF Registration, Write

-----------------------------------------------------------------------------
(* Type correctness.                                                       *)

\* While projects are planned, the request is a save and they are its projects.
Planning == pc = "plan" => /\ req \in ClientRequests
                           /\ left \in SUBSET DOMAIN req.want.recs
Typed == TypeOK /\ Planning

\* A transaction that ends leaves no state of a wrong type.
LEMMA FinishedTyped ==
    ASSUME Typed, Finished, UNCHANGED <<tries, inbox, edits, asks>>,
           file' \in [Paths -> Contents], rows' \in PartialFcn(Row), settings' \in Settings,
           phase' \in [Clients -> {"ready", "loading", "saving", "unsure"}],
           snap' \in [Clients -> Snapshots], wish' \in [Clients -> Snapshots],
           faults' \in 0..MaxFaults
    PROVE  Typed'
<1>1. Empty \in PartialFcn(Row)
  BY EmptyType
<1>2. [k \in Keys |-> NoVal] \in Settings
  BY DEF Settings
<1> QED BY <1>1, <1>2 DEF Typed, TypeOK, Planning, Finished

\* Nor does the answer to its sender.
LEMMA ReplyTyped ==
    ASSUME TypeOK, NEW ph \in {"ready", "unsure"}, Reply(ph)
    PROVE  phase' \in [Clients -> {"ready", "loading", "saving", "unsure"}]
BY DEF TypeOK, Reply, Awaited

\* Nor does a ROLLBACK.
LEMMA AbortTyped == ASSUME Typed, Abort PROVE Typed'
<1>1. phase' \in [Clients -> {"ready", "loading", "saving", "unsure"}]
  BY ReplyTyped DEF Abort, Typed
<1> QED BY <1>1, FinishedTyped DEF Typed, TypeOK, Abort, dbVars, budgetVars

\* Types hold when the service is installed.
LEMMA InitTyped == Init => Typed
<1> SUFFICES ASSUME Init PROVE Typed
  OBVIOUS
<1>1. Empty \in PartialFcn(Row)
  BY EmptyType
<1>2. [k \in Keys |-> NoVal] \in Settings
  BY DEF Settings
<1>3. [c \in Clients |-> EmptySnapshot] \in [Clients -> Snapshots]
  BY EmptySnapshotType
<1>4. edits \in 0..MaxEdits /\ asks \in 0..MaxAsks /\ faults \in 0..MaxFaults
  BY ConstantsAssumption DEF Init
<1>5. rows \in PartialFcn(Row) /\ work \in PartialFcn(Row) /\ todo \in PartialFcn(Row)
      /\ settings \in Settings /\ swork \in Settings
      /\ snap \in [Clients -> Snapshots] /\ wish \in [Clients -> Snapshots]
  BY <1>1, <1>2, <1>3 DEF Init
<1>6. TypeOK
  BY <1>4, <1>5 DEF Init, TypeOK
<1> QED BY <1>6 DEF Init, Typed, Planning

\* A request sent has the type of a request.
LEMMA SendTyped ==
    ASSUME TypeOK, NEW c \in Clients, NEW kind \in {"load", "save"},
           NEW base \in Snapshots, NEW want \in Snapshots, Send(c, kind, base, want)
    PROVE  inbox' \in SUBSET ClientRequests /\ tries' \in [Clients -> Nat]
BY DEF TypeOK, Send, ClientRequests

\* Steps outside the service.
LEMMA OutsideTyped ==
    ASSUME Typed,
           \/ \E p \in Paths : Edit(p)
           \/ \E c \in Clients : Load(c) \/ Save(c) \/ Retry(c) \/ Timeout(c)
    PROVE  Typed'
<1> USE DEF dbVars, workVars, writeVars, clientVars, budgetVars
<1>1. ASSUME NEW p \in Paths, Edit(p) PROVE Typed'
  <2>1. file' \in [Paths -> Contents] /\ edits' \in 0..MaxEdits
    BY <1>1, ConstantsAssumption DEF Edit, Typed, TypeOK
  <2>2. dirty' \subseteq Paths /\ raced' \in BOOLEAN
    BY <1>1 DEF Edit, Typed, TypeOK
  <2> QED BY <1>1, <2>1, <2>2 DEF Edit, Typed, TypeOK, Planning
<1>2. ASSUME NEW c \in Clients, Load(c) PROVE Typed'
  <2>1. inbox' \in SUBSET ClientRequests /\ tries' \in [Clients -> Nat]
    BY <1>2, SendTyped, EmptySnapshotType DEF Load, Typed
  <2>2. asks' \in 0..MaxAsks
    BY <1>2, ConstantsAssumption DEF Load, Typed, TypeOK
  <2> QED BY <1>2, <2>1, <2>2 DEF Load, Typed, TypeOK, Planning
<1>3. ASSUME NEW c \in Clients, Save(c) PROVE Typed'
  <2> PICK w \in Desired(snap[c]) : wish' = [wish EXCEPT ![c] = w] /\ Send(c, "save", snap[c], w)
    BY <1>3 DEF Save
  <2>1. w \in Snapshots /\ snap[c] \in Snapshots
    BY DEF Desired, Typed, TypeOK
  <2>2. inbox' \in SUBSET ClientRequests /\ tries' \in [Clients -> Nat]
    BY <2>1, SendTyped DEF Typed
  <2>3. asks' \in 0..MaxAsks /\ wish' \in [Clients -> Snapshots]
    BY <1>3, <2>1, ConstantsAssumption DEF Save, Typed, TypeOK
  <2> QED BY <1>3, <2>2, <2>3 DEF Save, Typed, TypeOK, Planning
<1>4. ASSUME NEW c \in Clients, Retry(c) PROVE Typed'
  <2>1. snap[c] \in Snapshots /\ wish[c] \in Snapshots
    BY DEF Typed, TypeOK
  <2>2. inbox' \in SUBSET ClientRequests /\ tries' \in [Clients -> Nat]
    BY <1>4, <2>1, SendTyped, EmptySnapshotType DEF Retry, Typed
  <2>3. phase' \in [Clients -> {"ready", "loading", "saving", "unsure"}]
    BY <1>4 DEF Retry, Typed, TypeOK
  <2> QED BY <1>4, <2>2, <2>3 DEF Retry, Typed, TypeOK, Planning
<1>5. ASSUME NEW c \in Clients, Timeout(c) PROVE Typed'
  BY <1>5, ConstantsAssumption DEF Timeout, Typed, TypeOK, Planning
<1> QED BY <1>1, <1>2, <1>3, <1>4, <1>5

\* Transactions begin.
LEMMA StartTyped ==
    ASSUME Typed, NEW r \in ClientRequests \cup OperatorRequests,
           NEW at \in {"refresh", "register"}, Start(r, at),
           regs' \subseteq Paths, asks' \in 0..MaxAsks, inbox' \subseteq ClientRequests,
           UNCHANGED <<phase, tries, snap, wish>>
    PROVE  Typed'
BY EmptyType DEF Typed, TypeOK, Planning, Start, dbVars, writeVars

\* Each request begins with its paths and ids of the right types.
LEMMA BeginTyped ==
    ASSUME Typed,
           \/ BeginClient \/ BeginReindex \/ SetSettings
           \/ \E p \in Paths : BeginIndex(p)
           \/ \E ps \in SUBSET Paths : BeginRebuild(ps)
           \/ \E i \in Ids : Remove(i)
    PROVE  Typed'
<1> USE DEF dbVars, workVars, writeVars, clientVars, budgetVars
<1>1. CASE BeginClient
  BY <1>1, StartTyped DEF BeginClient, Typed, TypeOK
<1>2. CASE BeginReindex
  <2>1. [kind |-> "reindex", by |-> Nobody, paths |-> {}] \in OperatorRequests
    BY DEF OperatorRequests
  <2>2. asks' \in 0..MaxAsks
    BY <1>2, ConstantsAssumption DEF BeginReindex, Typed, TypeOK
  <2> QED BY <1>2, <2>1, <2>2, StartTyped DEF BeginReindex, Typed, TypeOK
<1>3. ASSUME NEW p \in Paths, BeginIndex(p) PROVE Typed'
  <2>1. [kind |-> "index", by |-> Nobody, paths |-> {p}] \in OperatorRequests
    BY DEF OperatorRequests
  <2>2. asks' \in 0..MaxAsks
    BY <1>3, ConstantsAssumption DEF BeginIndex, Typed, TypeOK
  <2> QED BY <1>3, <2>1, <2>2, StartTyped DEF BeginIndex, Typed, TypeOK
<1>4. ASSUME NEW ps \in SUBSET Paths, BeginRebuild(ps) PROVE Typed'
  <2>1. [kind |-> "rebuild", by |-> Nobody, paths |-> ps] \in OperatorRequests
    BY DEF OperatorRequests
  <2>2. asks' \in 0..MaxAsks
    BY <1>4, ConstantsAssumption DEF BeginRebuild, Typed, TypeOK
  <2> QED BY <1>4, <2>1, <2>2, StartTyped DEF BeginRebuild, Typed, TypeOK
<1>5. ASSUME NEW i \in Ids, Remove(i) PROVE Typed'
  <2>1. rows' \in PartialFcn(Row)
    BY <1>5, RestrictType DEF Remove, Typed, TypeOK
  <2>2. asks' \in 0..MaxAsks
    BY <1>5, ConstantsAssumption DEF Remove, Typed, TypeOK
  <2> QED BY <1>5, <2>1, <2>2 DEF Remove, Typed, TypeOK, Planning
<1>6. CASE SetSettings
  <2>1. settings' \in Settings
    BY <1>6 DEF SetSettings, Settings, Typed, TypeOK
  <2>2. asks' \in 0..MaxAsks
    BY <1>6, ConstantsAssumption DEF SetSettings, Typed, TypeOK
  <2> QED BY <1>6, <2>1, <2>2 DEF SetSettings, Typed, TypeOK, Planning
<1> QED BY <1>1, <1>2, <1>3, <1>4, <1>5, <1>6

\* Steps of a transaction.
LEMMA RefreshedType ==
    ASSUME TypeOK, NEW i \in DOMAIN todo
    PROVE  Refreshed(i) \in PartialFcn(Row)
<1> DEFINE p == todo[i].path
<1>1. todo[i] \in Row
  BY PartialFcnElim DEF TypeOK
<1>2. p \in Paths /\ file[p] \in Contents
  BY <1>1 DEF Row, TypeOK
<1>3. \A st \in {"missing", "invalid"} : Mark(work, i, st) \in PartialFcn(Row)
  BY MarkType DEF TypeOK
<1>4. file[p] \in Manifests => Persist(work, file[p], p, {i}) \in PartialFcn(Row)
  BY <1>2, PersistType DEF TypeOK
<1>5. file[p] = Gone \/ file[p] = Broken \/ file[p] \in Manifests
  BY <1>2 DEF Contents
<1> QED BY <1>3, <1>4, <1>5 DEF Refreshed, TypeOK

\* A write taken up, from the plan or from register().
LEMMA TakeUpTyped ==
    ASSUME TypeOK, NEW w \in Write, TakeUp(w)
    PROVE  /\ work' \in PartialFcn(Row) /\ cur' \subseteq Write
           /\ pc' \in {pc, "compare"}
<1>1. w.from \in Manifests /\ w.path \in Paths
  BY DEF Write
<1>2. Persist(work, w.from, w.path, w.old) \in PartialFcn(Row)
  BY <1>1, PersistType DEF TypeOK
<1> QED BY <1>2 DEF TakeUp, TypeOK

\* No step of a transaction breaks a type.
LEMMA TxnTyped == ASSUME Typed, TxnStep PROVE Typed'
<1> USE DEF dbVars, workVars, writeVars, clientVars, budgetVars
<1>1. CASE RefreshRow
  <2> PICK i \in DOMAIN todo : /\ work' = Refreshed(i)
                               /\ todo' = [j \in DOMAIN todo \ {i} |-> todo[j]]
    BY <1>1 DEF RefreshRow
  <2>1. work' \in PartialFcn(Row)
    BY RefreshedType DEF Typed
  <2>2. todo' \in PartialFcn(Row)
    BY RestrictType DEF Typed, TypeOK
  <2> QED BY <1>1, <2>1, <2>2 DEF RefreshRow, Typed, TypeOK, Planning
<1>2. CASE RefreshDone
  <2>1. req.kind = "save" => req \in ClientRequests
    BY DEF Typed, TypeOK, OperatorRequests, NoRequest
  <2>2. req \in ClientRequests => DOMAIN req.want.recs \in SUBSET Ids
    BY SnapshotFields DEF ClientRequests
  <2> QED BY <1>2, <2>1, <2>2 DEF RefreshDone, Typed, TypeOK, Planning
<1>3. CASE PlanProject
  <2> PICK i \in left : /\ Savable(i)
                        /\ left' = left \ {i}
                        /\ plan' = IF Same(i) THEN plan ELSE plan \cup {PlannedWrite(i)}
    BY <1>3 DEF PlanProject
  <2>1. i \in DOMAIN req.want.recs /\ req \in ClientRequests
    BY <1>3 DEF Typed, Planning, PlanProject
  <2>2. ~Same(i) => PlannedWrite(i) \in Write
    BY <2>1, PlannedWriteType DEF Savable, Typed
  <2>3. plan' \subseteq Write
    BY <2>2 DEF Typed, TypeOK
  <2> QED BY <1>3, <2>3 DEF PlanProject, Typed, TypeOK, Planning
<1>4. CASE PlanRefused
  BY <1>4, AbortTyped DEF PlanRefused
<1>5. CASE PlanSettings
  <2>1. CASE SettingsConflict
    BY <1>5, <2>1, AbortTyped DEF PlanSettings
  <2>2. CASE ~SettingsConflict
    <3>1. req.base \in Snapshots /\ req.want \in Snapshots
      BY <1>5 DEF PlanSettings, Typed, Planning, ClientRequests
    <3>2. req.base.settings \in Settings /\ req.want.settings \in Settings
      BY <3>1, SnapshotFields
    <3>3. swork' \in Settings
      BY <1>5, <2>2, <3>2 DEF PlanSettings, Merged, Settings, Typed, TypeOK
    <3> QED BY <1>5, <2>2, <3>3 DEF PlanSettings, Typed, TypeOK, Planning
  <2> QED BY <2>1, <2>2
<1>6. CASE WriteNext
  <2> PICK w \in plan : TakeUp(w) /\ plan' = plan \ {w}
    BY <1>6 DEF WriteNext
  <2>1. work' \in PartialFcn(Row) /\ cur' \subseteq Write /\ pc' \in {pc, "compare"}
    BY TakeUpTyped DEF Typed, TypeOK
  <2> QED BY <1>6, <2>1 DEF WriteNext, Typed, TypeOK, Planning
<1>7. CASE PersistRefused
  BY <1>7, AbortTyped DEF PersistRefused
<1>8. CASE Written
  BY <1>8 DEF Written, Typed, TypeOK, Planning
<1>9. CASE RegisterNext
  <2> PICK p \in regs : Registrable(p) /\ TakeUp(Registration(p)) /\ regs' = regs \ {p}
    BY <1>9 DEF RegisterNext
  <2>1. Registration(p) \in Write
    BY RegistrationType DEF Registrable, Typed, TypeOK
  <2>2. work' \in PartialFcn(Row) /\ cur' \subseteq Write /\ pc' \in {pc, "compare"}
    BY <2>1, TakeUpTyped DEF Typed
  <2> QED BY <1>9, <2>2 DEF RegisterNext, Typed, TypeOK, Planning
<1>10. CASE RegisterRefused
  BY <1>10, AbortTyped DEF RegisterRefused
<1>11. CASE Registered
  BY <1>11 DEF Registered, Typed, TypeOK, Planning
<1>12. CASE Compare
  <2>1. CASE Abort
    BY <2>1, AbortTyped
  <2>2. CASE ~Abort
    BY <1>12, <2>2 DEF Compare, Typed, TypeOK, Planning
  <2> QED BY <2>1, <2>2
<1>13. CASE Rename
  <2> PICK w \in cur : /\ file' = [file EXCEPT ![w.path] = w.to]
                       /\ touched' = touched \cup {w.path}
    BY <1>13 DEF Rename
  <2>1. w.to \in Contents /\ w.path \in Paths
    BY DEF Typed, TypeOK, Write, Contents
  <2>2. file' \in [Paths -> Contents] /\ touched' \subseteq Paths
    BY <2>1 DEF Typed, TypeOK
  <2> QED BY <1>13, <2>2 DEF Rename, Typed, TypeOK, Planning
<1>14. CASE Reread
  <2>1. CASE Abort
    BY <2>1, AbortTyped
  <2>2. CASE ~Abort
    <3> PICK w \in cur : /\ file[w.path] \in Manifests
                         /\ work' = Persist(work, file[w.path], w.path, w.old)
                         /\ cur' = {} /\ pc' = Resume
                         /\ UNCHANGED <<file, dbVars, req, swork, todo, left, regs, plan,
                                wrote, touched, clientVars, budgetVars, dirty, raced>>
      BY <1>14, <2>2 DEF Reread
    <3>1. w.path \in Paths
      BY DEF Typed, TypeOK, Write
    <3>2. work' \in PartialFcn(Row)
      BY <3>1, PersistType DEF Typed, TypeOK
    <3>3. pc' \in {"write", "register"}
      BY DEF Resume
    <3> QED BY <3>2, <3>3 DEF Typed, TypeOK, Planning
  <2> QED BY <2>1, <2>2
<1>15. CASE Commit
  <2>1. Answer \in Snapshots
    BY SnapshotOfType DEF Answer, Typed, TypeOK
  <2>2. snap' \in [Clients -> Snapshots] /\ wish' \in [Clients -> Snapshots]
    BY <1>15, <2>1 DEF Commit, Typed, TypeOK
  <2>3. phase' \in [Clients -> {"ready", "loading", "saving", "unsure"}]
    BY <1>15, ReplyTyped DEF Commit, Typed
  <2> QED BY <1>15, <2>2, <2>3, FinishedTyped DEF Commit, Typed, TypeOK
<1> QED BY <1>1, <1>2, <1>3, <1>4, <1>5, <1>6, <1>7, <1>8, <1>9, <1>10, <1>11, <1>12,
           <1>13, <1>14, <1>15 DEF TxnStep

\* No fault does.
LEMMA FaultTyped ==
    ASSUME Typed, StepFails \/ CommitUnacknowledged \/ Crash
    PROVE  Typed'
<1>1. faults' \in 0..MaxFaults
  BY ConstantsAssumption DEF StepFails, CommitUnacknowledged, Crash, Typed, TypeOK
<1>2. CASE StepFails
  <2>1. phase' \in [Clients -> {"ready", "loading", "saving", "unsure"}]
    BY <1>2, ReplyTyped DEF StepFails, Typed
  <2> QED BY <1>1, <1>2, <2>1, FinishedTyped DEF StepFails, Typed, TypeOK, dbVars
<1>3. CASE CommitUnacknowledged
  <2>1. phase' \in [Clients -> {"ready", "loading", "saving", "unsure"}]
    BY <1>3, ReplyTyped DEF CommitUnacknowledged, Typed
  <2> QED BY <1>1, <1>3, <2>1, FinishedTyped DEF CommitUnacknowledged, Typed, TypeOK
<1>4. CASE Crash
  <2>1. phase' \in [Clients -> {"ready", "loading", "saving", "unsure"}]
    BY <1>4 DEF Crash, Typed, TypeOK
  <2>2. Empty \in PartialFcn(Row) /\ [k \in Keys |-> NoVal] \in Settings
    BY EmptyType DEF Settings
  <2> QED BY <1>1, <1>4, <2>1, <2>2 DEF Crash, Finished, dbVars, Typed, TypeOK, Planning
<1> QED BY <1>2, <1>3, <1>4

\* No step at all does.
LEMMA TypedStep == ASSUME Typed, [Next]_vars PROVE Typed'
<1>1. CASE UNCHANGED vars
  BY <1>1 DEF vars, dbVars, workVars, writeVars, clientVars, budgetVars,
             Typed, TypeOK, Planning
<1>2. CASE Next
  BY <1>2, OutsideTyped, BeginTyped, TxnTyped, FaultTyped DEF Next
<1> QED BY <1>1, <1>2

\* Every variable always has its type, and projects are planned for saves only.
THEOREM TypeCorrect == Spec => [](TypeOK /\ Planning)
<1>1. Init => Typed
  BY InitTyped
<1>2. Typed /\ [Next]_vars => Typed'
  BY TypedStep
<1> QED BY <1>1, <1>2, PTL DEF Spec, Typed

-----------------------------------------------------------------------------
(* The inductive invariant.                                                *)

\* A row still to be visited is the only one at its path, so persist() never
\* meets another: that is why refresh() stays clear of UNIQUE(manifest_path).
Listing ==
    /\ pc # "refresh" => DOMAIN todo = {}
    /\ WellKeyed(todo)
    /\ \A i \in DOMAIN todo, j \in DOMAIN work : work[j].path = todo[i].path => j = i

\* One manifest is written at a time, and only a save plans writes.
Writing ==
    /\ pc \in {"compare", "rename", "reread"} => \E w \in cur : cur = {w}
    /\ pc \notin {"compare", "rename", "reread"} => cur = {}
    /\ pc \in {"idle", "register", "refresh", "commit"} => plan = {}
    /\ pc \in {"plan", "write"} => req.kind = "save"
    /\ pc = "register" => req.kind # "save"
    /\ req.kind # "save" => plan = {}
    /\ plan \cap cur = {}

\* A write was read from its manifest, one write to a project, and it changes no
\* more than it may.
Pending == plan \cup cur
FromFile(w) == w.path \in dirty \/ file[w.path] = w.from
Justified ==
    /\ \A w \in Pending : /\ w.to.id = w.from.id
                          /\ Overwrites(w.from, w.to)
                          /\ FromFile(w) \/ (pc = "reread" /\ w \in cur)
    /\ \A w, x \in Pending : w.from.id = x.from.id => w = x
    /\ pc = "plan" => \A w \in plan : w.from.id \notin left
    /\ pc = "rename" /\ ~raced => \A w \in cur : file[w.path] = w.from

\* Once visited, a row that is "ok" shows its manifest.
Visited(i) == i \notin DOMAIN todo \/ work[i] # todo[i]
Answering == pc \in {"refresh", "plan", "write", "commit"}
                \/ (req.kind = "save" /\ pc \in {"compare", "rename", "reread"})
Fresh ==
    Answering => \A i \in DOMAIN work :
        work[i].status = "ok" /\ Visited(i) =>
            Shows(work[i]) \/ (pc = "reread" /\ \E w \in cur : w.path = work[i].path)

IInv == Typed /\ IndexIsInjective /\ Listing /\ Writing /\ Justified /\ Fresh

\* The empty index is well keyed.
LEMMA EmptyKeyed == WellKeyed(Empty)
BY DEF WellKeyed, Empty

\* persist() keeps the index well keyed when no other row is at the path.
LEMMA PersistKeyed ==
    ASSUME NEW w \in PartialFcn(Row), NEW m \in Manifests, NEW p \in Paths, NEW old,
           WellKeyed(w), ~PathTaken(w, m, p, old)
    PROVE  WellKeyed(Persist(w, m, p, old))
<1> DEFINE D == (DOMAIN w \ Renamed(w, m, p, old)) \cup {m.id}
           n == Persist(w, m, p, old)
<1>1. DOMAIN n = D
  BY DEF Persist
<1>2. \A j \in D : /\ j = m.id => n[j].path = p /\ n[j].content = m
                   /\ j # m.id => n[j] = w[j] /\ j \in DOMAIN w \ Renamed(w, m, p, old)
  BY DEF Persist
<1>3. \A j \in D : j # m.id => n[j].path # p
  BY <1>2 DEF PathTaken
<1>4. \A j \in D : n[j].content.id = j
  BY <1>2 DEF WellKeyed
<1>5. \A i, j \in D : n[i].path = n[j].path => i = j
  BY <1>2, <1>3 DEF WellKeyed
<1> QED BY <1>1, <1>4, <1>5 DEF WellKeyed

\* What a row visited by refresh() becomes; nothing else changes but a row
\* persist() removes or moves to its path.
LEMMA RefreshedKeyed ==
    ASSUME TypeOK, IndexIsInjective, Listing, pc = "refresh", NEW i \in DOMAIN todo
    PROVE  /\ WellKeyed(Refreshed(i))
           /\ \A j \in DOMAIN Refreshed(i) :
                 \/ Refreshed(i)[j].path = todo[i].path
                 \/ j \in DOMAIN work /\ Refreshed(i)[j].path = work[j].path
<1> DEFINE p == todo[i].path
<1>0. todo[i] \in Row
  BY PartialFcnElim DEF TypeOK
<1>1. p \in Paths
  BY <1>0 DEF Row
<1>2. WellKeyed(work) /\ work \in PartialFcn(Row)
  BY DEF IndexIsInjective, TypeOK
<1>3. ASSUME NEW st \in {"missing", "invalid"}, Refreshed(i) = Mark(work, i, st)
      PROVE  /\ WellKeyed(Refreshed(i))
             /\ \A j \in DOMAIN Refreshed(i) : j \in DOMAIN work
                                               /\ Refreshed(i)[j].path = work[j].path
  BY <1>2, <1>3, MarkType DEF WellKeyed
<1>4. ASSUME file[p] \in Manifests, Refreshed(i) = Persist(work, file[p], p, {i})
      PROVE  /\ WellKeyed(Refreshed(i))
             /\ \A j \in DOMAIN Refreshed(i) :
                   \/ Refreshed(i)[j].path = p
                   \/ j \in DOMAIN work /\ Refreshed(i)[j].path = work[j].path
  <2>1. ~PathTaken(work, file[p], p, {i})
    BY DEF PathTaken, Renamed, Listing
  <2>2. WellKeyed(Refreshed(i))
    BY <1>1, <1>2, <1>4, <2>1, PersistKeyed
  <2> QED BY <1>4, <2>2 DEF Persist
<1>5. file[p] = Gone \/ file[p] = Broken \/ file[p] \in Manifests
  BY <1>1 DEF Contents, TypeOK
<1> QED BY <1>2, <1>3, <1>4, <1>5 DEF Refreshed

\* Nor does a write that only indexes what its manifest already says.
LEMMA TakeUpKeyed ==
    ASSUME TypeOK, WellKeyed(work), NEW w \in Write, TakeUp(w)
    PROVE  WellKeyed(work')
<1>1. w.from \in Manifests /\ w.path \in Paths /\ work \in PartialFcn(Row)
  BY DEF Write, TypeOK
<1> QED BY <1>1, PersistKeyed DEF TakeUp, CanPersist

\* No step leaves two rows at one path or a row under another id.
LEMMA KeyedStep ==
    ASSUME Typed, IndexIsInjective, Listing, Writing, [Next]_vars
    PROVE  IndexIsInjective' /\ Listing'
<1> USE DEF dbVars, workVars, writeVars, clientVars, budgetVars
<1> DEFINE Goal == IndexIsInjective' /\ Listing'
<1>a. WellKeyed(rows) /\ WellKeyed(work)
  BY DEF IndexIsInjective
<1>b. ASSUME UNCHANGED <<rows, work, todo>>, pc' = "refresh" => pc = "refresh",
             pc' # pc => pc # "refresh" \/ DOMAIN todo = {}
      PROVE  Goal
  BY <1>b DEF IndexIsInjective, Listing, WellKeyed
<1>c. ASSUME Finished, rows' = rows \/ rows' = work PROVE Goal
  BY <1>a, <1>c, EmptyKeyed DEF Finished, IndexIsInjective, Listing, WellKeyed, Empty
<1>d. ASSUME NEW r, NEW at \in {"refresh", "register"}, Start(r, at) PROVE Goal
  BY <1>a, <1>d, EmptyKeyed DEF Start, IndexIsInjective, Listing, WellKeyed, Empty
<1>1. CASE UNCHANGED vars
  BY <1>1, <1>b DEF vars
<1>2. ASSUME NEW p \in Paths, Edit(p) PROVE Goal
  BY <1>2, <1>b DEF Edit
<1>3. ASSUME NEW c \in Clients, Load(c) \/ Save(c) \/ Retry(c) \/ Timeout(c) PROVE Goal
  BY <1>3, <1>b DEF Load, Save, Retry, Timeout
<1>4. CASE BeginClient \/ BeginReindex
  BY <1>4, <1>d DEF BeginClient, BeginReindex
<1>5. ASSUME NEW p \in Paths, BeginIndex(p) PROVE Goal
  BY <1>5, <1>d DEF BeginIndex
<1>6. ASSUME NEW ps \in SUBSET Paths, BeginRebuild(ps) PROVE Goal
  BY <1>6, <1>d DEF BeginRebuild
<1>7. ASSUME NEW i \in Ids, Remove(i) PROVE Goal
  <2>1. WellKeyed(rows')
    BY <1>7, <1>a DEF Remove, WellKeyed
  <2> QED BY <1>7, <2>1 DEF Remove, IndexIsInjective, Listing, WellKeyed
<1>8. CASE SetSettings
  BY <1>8, <1>b DEF SetSettings
<1>9. CASE RefreshRow
  <2> PICK i \in DOMAIN todo : /\ work' = Refreshed(i)
                               /\ todo' = [j \in DOMAIN todo \ {i} |-> todo[j]]
    BY <1>9 DEF RefreshRow
  <2>1. pc = "refresh" /\ pc' = "refresh" /\ rows' = rows
    BY <1>9 DEF RefreshRow
  <2>2. WellKeyed(work')
    BY <2>1, RefreshedKeyed DEF Typed
  <2>3. WellKeyed(todo')
    BY DEF Listing, WellKeyed
  <2>4. ASSUME NEW k \in DOMAIN todo', NEW j \in DOMAIN work', work'[j].path = todo'[k].path
        PROVE  j = k
    <3>1. k \in DOMAIN todo /\ k # i /\ todo'[k] = todo[k]
      BY <2>4
    <3>2. todo[k].path # todo[i].path
      BY <3>1 DEF Listing, WellKeyed
    <3>3. j \in DOMAIN work /\ work'[j].path = work[j].path
      BY <2>1, <2>4, <3>1, <3>2, RefreshedKeyed DEF Typed
    <3> QED BY <2>4, <3>1, <3>3 DEF Listing
  <2> QED BY <1>a, <2>1, <2>2, <2>3, <2>4 DEF IndexIsInjective, Listing, WellKeyed
<1>10. CASE RefreshDone
  BY <1>10, <1>b DEF RefreshDone
<1>11. CASE PlanProject \/ Written \/ Rename
  BY <1>11, <1>b DEF PlanProject, Written, Rename
<1>12. CASE Abort
  BY <1>12, <1>c DEF Abort
<1>13. CASE PlanSettings
  BY <1>13, <1>12, <1>b DEF PlanSettings
<1>14. CASE WriteNext
  <2> PICK w \in plan : TakeUp(w)
    BY <1>14 DEF WriteNext
  <2>1. WellKeyed(work')
    BY <1>a, TakeUpKeyed DEF Typed, TypeOK
  <2> QED BY <1>14, <1>a, <2>1 DEF WriteNext, TakeUp, IndexIsInjective, Listing, WellKeyed
<1>15. CASE RegisterNext
  <2> PICK p \in regs : Registrable(p) /\ TakeUp(Registration(p))
    BY <1>15 DEF RegisterNext
  <2>1. Registration(p) \in Write
    BY RegistrationType DEF Registrable, Typed, TypeOK
  <2>2. WellKeyed(work')
    BY <1>a, <2>1, TakeUpKeyed DEF Typed
  <2> QED BY <1>15, <1>a, <2>2 DEF RegisterNext, TakeUp, IndexIsInjective, Listing, WellKeyed
<1>16. CASE Registered
  BY <1>16, <1>a DEF Registered, IndexIsInjective, Listing, WellKeyed
<1>17. CASE Compare
  BY <1>17, <1>12, <1>b DEF Compare
<1>18. CASE Reread
  <2>1. CASE ~Abort
    <3> PICK w \in cur : /\ file[w.path] \in Manifests
                         /\ CanPersist(file[w.path], w.path, w.old)
                         /\ work' = Persist(work, file[w.path], w.path, w.old)
                         /\ pc' = Resume /\ UNCHANGED <<rows, todo>>
      BY <1>18, <2>1 DEF Reread
    <3>1. w.path \in Paths /\ work \in PartialFcn(Row)
      BY DEF Typed, TypeOK, Write
    <3>2. WellKeyed(work')
      BY <1>a, <3>1, PersistKeyed DEF CanPersist
    <3> QED BY <1>18, <1>a, <3>2 DEF Reread, Resume, IndexIsInjective, Listing, WellKeyed
  <2> QED BY <2>1, <1>12
<1>19. CASE Commit \/ StepFails \/ CommitUnacknowledged \/ Crash
  BY <1>19, <1>c DEF Commit, StepFails, CommitUnacknowledged, Crash
<1>20. CASE PlanRefused \/ PersistRefused \/ RegisterRefused
  BY <1>20, <1>12 DEF PlanRefused, PersistRefused, RegisterRefused
<1> QED BY <1>1, <1>2, <1>3, <1>4, <1>5, <1>6, <1>7, <1>8, <1>9, <1>10, <1>11, <1>13, <1>14,
           <1>15, <1>16, <1>17, <1>18, <1>19, <1>20 DEF Next, TxnStep

\* At most one manifest is in the middle of being written, by a save's plan or by
\* a registration.
LEMMA WritingStep == ASSUME Typed, Writing, [Next]_vars PROVE Writing'
<1> USE DEF dbVars, workVars, writeVars, clientVars, budgetVars, Writing
<1>a. ASSUME UNCHANGED <<pc, req, plan, cur>> PROVE Writing'
  BY <1>a
<1>b. CASE Finished
  BY <1>b DEF Finished
<1>c. CASE Abort
  BY <1>b, <1>c DEF Abort
<1>d. ASSUME NEW r, NEW at \in {"refresh", "register"}, Start(r, at),
             at = "register" => r.kind # "save"
      PROVE  Writing'
  BY <1>d DEF Start
<1>1. CASE UNCHANGED vars
  BY <1>1 DEF vars
<1>2. ASSUME NEW p \in Paths, Edit(p) \/ BeginIndex(p) PROVE Writing'
  BY <1>2, <1>d DEF Edit, BeginIndex
<1>3. ASSUME NEW c \in Clients, Load(c) \/ Save(c) \/ Retry(c) \/ Timeout(c) PROVE Writing'
  BY <1>3 DEF Load, Save, Retry, Timeout
<1>4. CASE BeginClient \/ BeginReindex
  BY <1>4, <1>d DEF BeginClient, BeginReindex
<1>5. ASSUME NEW ps \in SUBSET Paths, BeginRebuild(ps) PROVE Writing'
  BY <1>5, <1>d DEF BeginRebuild
<1>6. ASSUME NEW i \in Ids, Remove(i) PROVE Writing'
  BY <1>6 DEF Remove
<1>7. CASE SetSettings \/ RefreshRow \/ RefreshDone \/ PlanProject
  BY <1>7 DEF SetSettings, RefreshRow, RefreshDone, PlanProject
<1>8. CASE PlanSettings
  BY <1>8, <1>c DEF PlanSettings
<1>9. CASE WriteNext
  <2> PICK w \in plan : TakeUp(w) /\ plan' = plan \ {w}
    BY <1>9 DEF WriteNext
  <2> QED BY <1>9 DEF WriteNext, TakeUp
<1>10. CASE RegisterNext
  <2> PICK p \in regs : TakeUp(Registration(p))
    BY <1>10 DEF RegisterNext
  <2> QED BY <1>10 DEF RegisterNext, TakeUp
<1>11. CASE Registered \/ Written \/ Rename
  BY <1>11 DEF Registered, Written, Rename
<1>12. CASE Compare
  BY <1>12, <1>c DEF Compare
<1>13. CASE Reread
  BY <1>13, <1>c DEF Reread, Resume
<1>14. CASE Commit \/ StepFails \/ CommitUnacknowledged \/ Crash
  BY <1>14, <1>b DEF Commit, StepFails, CommitUnacknowledged, Crash
<1>15. CASE PlanRefused \/ PersistRefused \/ RegisterRefused
  BY <1>15, <1>c DEF PlanRefused, PersistRefused, RegisterRefused
<1> QED BY <1>1, <1>2, <1>3, <1>4, <1>5, <1>6, <1>7, <1>8, <1>9, <1>10, <1>11, <1>12,
           <1>13, <1>14, <1>15 DEF Next, TxnStep

\* The write planned for a project changes what its client changed, and nothing
\* that was changed since.
LEMMA PlannedWriteJustified ==
    ASSUME Typed, Writing, pc = "plan", NEW i \in left, Savable(i), ~Same(i)
    PROVE  LET w == PlannedWrite(i)
           IN  /\ w.from.id = i /\ w.to.id = i
               /\ w.from = file[w.path]
               /\ Overwrites(w.from, w.to)
<1> DEFINE m == file[HomeOf(i)]
           rec == NextRecord(i, m)
<1>1. /\ m \in Manifests /\ m.id = i /\ ~Stale(i, m)
      /\ req \in ClientRequests /\ i \in DOMAIN req.want.recs /\ req.kind = "save"
  BY DEF Savable, Typed, Planning, Writing
<1>2. rec \in Leaves
  BY <1>1, NextRecordType
<1>3. Apply(m, rec) \in Manifests /\ Apply(m, rec).id = i
  BY <1>1, <1>2, ApplyType
<1>4. RecordOf(m) \in Leaves /\ req.want.recs[i] \in Leaves
      /\ (Known(i) => req.base.recs[i] \in Leaves)
  BY <1>1, RecordOfType, SnapshotFields DEF ClientRequests, Known
<1>5. \A f \in Fields : RecordOf(Apply(m, rec))[f] # RecordOf(m)[f] => rec[f] # RecordOf(m)[f]
  <2> SUFFICES ASSUME NEW f \in Fields, rec[f] = RecordOf(m)[f]
               PROVE  RecordOf(Apply(m, rec))[f] = RecordOf(m)[f]
    OBVIOUS
  <2>1. Apply(m, rec).fields[f] = m.fields[f]
    <3> DEFINE fs == [g \in Fields |-> IF rec[g] = RecordOf(m)[g] THEN m.fields[g] ELSE rec[g]]
    <3>1. Apply(m, rec) = [m EXCEPT !.legacy = FALSE, !.fields = fs]
      BY DEF Apply
    <3>2. fs[f] = m.fields[f]
      OBVIOUS
    <3> HIDE DEF fs
    <3>3. Apply(m, rec).fields = fs
      BY <1>1, <3>1 DEF Manifests
    <3> QED BY <3>2, <3>3
  <2> QED BY <2>1 DEF RecordOf
<1>6. ASSUME NEW f \in Fields, rec[f] # RecordOf(m)[f]
      PROVE  IF Known(i) THEN /\ RecordOf(m)[f] = req.base.recs[i][f]
                              /\ req.want.recs[i][f] # req.base.recs[i][f]
                         ELSE m.fields[f] = NoVal
  <2>1. CASE i \notin DOMAIN work
    <3>1. ~Known(i)
      BY <1>1, <2>1 DEF Stale
    <3>2. rec = AdoptedRecord(req.want.recs[i], m)
      BY <2>1 DEF NextRecord
    <3> QED BY <1>6, <3>1, <3>2 DEF AdoptedRecord
  <2>2. CASE i \in DOMAIN work /\ Known(i)
    <3>1. ~Conflicts(req.base.recs[i][f], req.want.recs[i][f], RecordOf(m)[f])
      BY <1>1, <2>2 DEF Stale
    <3>2. rec[f] = Merged(req.base.recs[i][f], req.want.recs[i][f], RecordOf(m)[f])
      BY <2>2 DEF NextRecord, MergedRecord
    <3> QED BY <1>6, <2>2, <3>1, <3>2 DEF Conflicts, Merged
  <2>3. CASE i \in DOMAIN work /\ ~Known(i)
    BY <1>6, <2>3 DEF NextRecord
  <2> QED BY <2>1, <2>2, <2>3
<1>7. PlannedWrite(i).from = m /\ PlannedWrite(i).to = Apply(m, rec)
      /\ PlannedWrite(i).path = HomeOf(i)
  BY DEF PlannedWrite
<1>8. Overwrites(m, Apply(m, rec))
  BY <1>1, <1>5, <1>6 DEF Overwrites
<1> QED BY <1>1, <1>3, <1>7, <1>8

\* Retiring project_slug changes no field.
LEMMA RegistrationJustified ==
    ASSUME NEW p, file[p] \in Manifests
    PROVE  LET w == Registration(p)
           IN  /\ w.to.id = w.from.id /\ w.from = file[w.path]
               /\ Overwrites(w.from, w.to)
<1>1. [file[p] EXCEPT !.legacy = FALSE].fields = file[p].fields
      /\ [file[p] EXCEPT !.legacy = FALSE].id = file[p].id
  BY DEF Manifests
<1>2. RecordOf([file[p] EXCEPT !.legacy = FALSE]) = RecordOf(file[p])
  BY <1>1 DEF RecordOf
<1> QED BY <1>1, <1>2 DEF Registration, Overwrites

\* The pending writes stay what they were read as and may change.
LEMMA JustifiedStep == ASSUME Typed, Writing, Justified, [Next]_vars PROVE Justified'
<1> USE DEF dbVars, workVars, writeVars, clientVars, budgetVars, Justified, Pending
<1>a. ASSUME UNCHANGED <<file, pc, req, plan, cur, left, dirty, raced>> PROVE Justified'
  BY <1>a DEF Overwrites, Known, FromFile
<1>b. CASE Finished
  BY <1>b DEF Finished
<1>c. CASE Abort
  BY <1>b, <1>c DEF Abort
<1>d. ASSUME NEW r, NEW at \in {"refresh", "register"}, Start(r, at) PROVE Justified'
  <2>1. plan' = {} /\ cur' = {} /\ pc' # "plan" /\ pc' # "rename"
    BY <1>d DEF Start, Writing
  <2> QED BY <2>1
<1>e. ASSUME UNCHANGED <<file, req, plan, cur, dirty, raced>>,
             pc' # "plan", pc' # "rename", pc # "reread"
      PROVE  Justified'
  BY <1>e DEF Overwrites, Known, FromFile
<1>1. CASE UNCHANGED vars
  BY <1>1, <1>a DEF vars
<1>2. ASSUME NEW p \in Paths, Edit(p) PROVE Justified'
  <2>1. CASE pc = "idle"
    <3>1. plan' = {} /\ cur' = {} /\ pc' = "idle"
      BY <1>2, <2>1 DEF Edit, Writing
    <3> QED BY <3>1
  <2>2. CASE pc # "idle"
    <3> PICK c \in Contents : file' = [file EXCEPT ![p] = c]
      BY <1>2 DEF Edit
    <3>1. UNCHANGED <<pc, req, plan, cur, left>> /\ dirty' = dirty \cup {p}
      BY <1>2, <2>2 DEF Edit
    <3>2. \A q \in Paths : q # p => file'[q] = file[q]
      BY DEF Typed, TypeOK
    <3>3. \A w \in Pending : w.path \in Paths
      BY DEF Typed, TypeOK, Write
    <3>4. \A w \in Pending : FromFile(w) => FromFile(w)'
      BY <3>1, <3>2, <3>3 DEF FromFile
    <3>5. \A w \in Pending : Overwrites(w.from, w.to) => Overwrites(w.from, w.to)'
      BY <3>1 DEF Overwrites, Known
    <3>6. pc = "rename" /\ ~raced' => \A w \in cur : file'[w.path] = w.from
      BY <1>2, <3>2, <3>3 DEF Edit
    <3> QED BY <3>1, <3>4, <3>5, <3>6
  <2> QED BY <2>1, <2>2
<1>3. ASSUME NEW c \in Clients, Load(c) \/ Save(c) \/ Retry(c) \/ Timeout(c) PROVE Justified'
  BY <1>3, <1>a DEF Load, Save, Retry, Timeout
<1>4. CASE BeginClient \/ BeginReindex
  BY <1>4, <1>d DEF BeginClient, BeginReindex
<1>5. ASSUME NEW p \in Paths, BeginIndex(p) PROVE Justified'
  BY <1>5, <1>d DEF BeginIndex
<1>6. ASSUME NEW ps \in SUBSET Paths, BeginRebuild(ps) PROVE Justified'
  BY <1>6, <1>d DEF BeginRebuild
<1>7. ASSUME NEW i \in Ids, Remove(i) PROVE Justified'
  BY <1>7, <1>a DEF Remove
<1>8. CASE SetSettings \/ RefreshRow
  BY <1>8, <1>a DEF SetSettings, RefreshRow
<1>9. CASE RefreshDone
  <2>1. plan' = {} /\ cur' = {} /\ pc' # "rename"
    BY <1>9 DEF RefreshDone, Writing
  <2> QED BY <2>1
<1>10. CASE PlanProject
  <2> PICK i \in left : /\ Savable(i)
                        /\ left' = left \ {i}
                        /\ plan' = IF Same(i) THEN plan ELSE plan \cup {PlannedWrite(i)}
    BY <1>10 DEF PlanProject
  <2>1. /\ pc = "plan" /\ pc' = "plan" /\ cur = {} /\ cur' = {}
        /\ UNCHANGED <<file, req, dirty, raced>>
    BY <1>10 DEF PlanProject, Writing
  <2>2. CASE Same(i)
    BY <2>1, <2>2 DEF Overwrites, Known, FromFile
  <2>3. CASE ~Same(i)
    <3> DEFINE x == PlannedWrite(i)
    <3>1. /\ x.from.id = i /\ x.to.id = i /\ x.from = file[x.path]
          /\ Overwrites(x.from, x.to)
      BY <2>1, <2>3, PlannedWriteJustified
    <3> HIDE DEF x
    <3>2. plan' = plan \cup {x}
      BY <2>3 DEF x
    <3>3. \A w \in plan' : /\ w.to.id = w.from.id
                           /\ Overwrites(w.from, w.to)'
                           /\ FromFile(w)'
      BY <2>1, <3>1, <3>2 DEF Overwrites, Known, FromFile
    <3>4. \A w \in plan : w.from.id # i
      BY <2>1
    <3>5. \A w, y \in plan' : w.from.id = y.from.id => w = y
      BY <3>1, <3>2, <3>4
    <3>6. \A w \in plan' : w.from.id \notin left'
      BY <2>1, <3>1, <3>2
    <3> QED BY <2>1, <3>3, <3>5, <3>6
  <2> QED BY <2>2, <2>3
<1>11. CASE PlanSettings
  <2>1. CASE ~Abort
    <3>1. UNCHANGED <<file, req, plan, cur, dirty, raced>> /\ pc = "plan" /\ pc' = "write"
      BY <1>11, <2>1 DEF PlanSettings
    <3> QED BY <3>1, <1>e
  <2> QED BY <2>1, <1>c
<1>12. CASE WriteNext
  <2> PICK w \in plan : TakeUp(w) /\ plan' = plan \ {w}
    BY <1>12 DEF WriteNext
  <2>1. UNCHANGED <<file, req, dirty, raced>> /\ pc = "write" /\ cur = {}
    BY <1>12 DEF WriteNext, Writing
  <2>2. pc' \in {"write", "compare"} /\ Pending' \subseteq Pending
    BY <2>1 DEF TakeUp
  <2> QED BY <2>1, <2>2 DEF Overwrites, Known, FromFile
<1>13. CASE RegisterNext
  <2> PICK p \in regs : Registrable(p) /\ TakeUp(Registration(p))
    BY <1>13 DEF RegisterNext
  <2>1. /\ UNCHANGED <<file, req, dirty, raced>> /\ pc = "register"
        /\ cur = {} /\ plan = {} /\ plan' = {}
    BY <1>13 DEF RegisterNext, Writing
  <2>2. pc' \in {"register", "compare"} /\ (cur' = {} \/ cur' = {Registration(p)})
    BY <2>1 DEF TakeUp
  <2> DEFINE x == Registration(p)
  <2>3. /\ x.to.id = x.from.id /\ x.from = file[x.path]
        /\ Overwrites(x.from, x.to)
    BY RegistrationJustified DEF Registrable
  <2> HIDE DEF x
  <2>4. cur' = {} \/ cur' = {x}
    BY <2>2 DEF x
  <2> QED BY <2>1, <2>2, <2>3, <2>4 DEF Overwrites, Known, FromFile
<1>14. CASE Registered \/ Written
  BY <1>14, <1>e DEF Registered, Written
<1>15. CASE Compare
  <2>1. CASE ~Abort
    <3>1. PICK w \in cur : file[w.path] = w.from
      BY <1>15, <2>1 DEF Compare
    <3>2. /\ UNCHANGED <<file, req, plan, cur, dirty>>
          /\ pc = "compare" /\ pc' = "rename"
      BY <1>15, <2>1 DEF Compare
    <3>3. cur = {w}
      BY <3>1, <3>2 DEF Writing
    <3> QED BY <3>1, <3>2, <3>3 DEF Overwrites, Known, FromFile
  <2> QED BY <2>1, <1>c
<1>16. CASE Rename
  <2> PICK w \in cur : file' = [file EXCEPT ![w.path] = w.to]
    BY <1>16 DEF Rename
  <2>1. /\ UNCHANGED <<req, plan, cur, dirty, raced, left>>
        /\ pc = "rename" /\ pc' = "reread"
    BY <1>16 DEF Rename
  <2>2. cur = {w}
    BY <2>1 DEF Writing
  <2>3. ASSUME NEW x \in plan \ cur PROVE FromFile(x)'
    <3>1. x.path \in Paths /\ w.path \in Paths
      BY DEF Typed, TypeOK, Write
    <3>2. FromFile(x) /\ FromFile(w) /\ x.from.id # w.from.id
      BY <2>1, <2>2
    <3>3. x.path \in dirty \/ x.path # w.path
      BY <3>2 DEF FromFile
    <3> QED BY <2>1, <3>1, <3>2, <3>3 DEF FromFile, Typed, TypeOK
  <2>4. \A x \in Pending : Overwrites(x.from, x.to)'
    BY <2>1 DEF Overwrites, Known
  <2> QED BY <2>1, <2>2, <2>3, <2>4
<1>17. CASE Reread
  <2>1. CASE ~Abort
    <3>1. /\ UNCHANGED <<file, req, plan, dirty, raced>>
          /\ cur' = {} /\ pc = "reread" /\ pc' \in {"write", "register"}
      BY <1>17, <2>1 DEF Reread, Resume
    <3>2. \A x \in plan : FromFile(x)
      BY DEF Writing
    <3> QED BY <3>1, <3>2 DEF Overwrites, Known, FromFile
  <2> QED BY <2>1, <1>c
<1>18. CASE Commit \/ StepFails \/ CommitUnacknowledged \/ Crash
  BY <1>18, <1>b DEF Commit, StepFails, CommitUnacknowledged, Crash
<1>19. CASE PlanRefused \/ PersistRefused \/ RegisterRefused
  BY <1>19, <1>c DEF PlanRefused, PersistRefused, RegisterRefused
<1> QED BY <1>1, <1>2, <1>3, <1>4, <1>5, <1>6, <1>7, <1>8, <1>9, <1>10, <1>11, <1>12,
           <1>13, <1>14, <1>15, <1>16, <1>17, <1>18, <1>19 DEF Next, TxnStep

\* Whatever a step does to the index, a visited "ok" row of the answer shows its
\* manifest.
LEMMA FreshStep == ASSUME IInv, [Next]_vars PROVE Fresh'
<1> USE DEF dbVars, workVars, writeVars, clientVars, budgetVars
<1> Typed /\ IndexIsInjective /\ Listing /\ Writing /\ Justified /\ Fresh
  BY DEF IInv
<1> DEFINE ShowsNext(r) == r.path \in dirty' \/ file'[r.path] = r.content
<1>0. TypeOK /\ work \in PartialFcn(Row) /\ WellKeyed(work)
  BY DEF Typed, TypeOK, IndexIsInjective
<1>a. ASSUME UNCHANGED <<file, pc, req, work, todo, cur, dirty>> PROVE Fresh'
  BY <1>a DEF Fresh, Answering, Visited, Shows
<1>b. CASE Finished
  BY <1>b DEF Finished, Fresh, Answering, NoRequest
<1>c. CASE Abort
  BY <1>b, <1>c DEF Abort
<1>d. ASSUME NEW r, NEW at \in {"refresh", "register"}, Start(r, at) PROVE Fresh'
  BY <1>d DEF Start, Fresh, Answering, Visited
<1>e. ASSUME UNCHANGED <<file, req, work, todo, cur, dirty>>, pc # "reread",
             Answering' => Answering
      PROVE  Fresh'
  BY <1>e DEF Fresh, Visited, Shows
\* persist() of what the manifest says, or of what it said when it was planned.
<1>f. ASSUME NEW m \in Manifests, NEW p \in Paths, NEW old, ~PathTaken(work, m, p, old),
             work' = Persist(work, m, p, old), UNCHANGED <<file, dirty>>,
             p \in dirty \/ file[p] = m,
             NEW j \in DOMAIN work',
             j \in DOMAIN work /\ j # m.id =>
                Shows(work[j]) \/ work[j].path = p \/ work[j].status # "ok"
      PROVE  work'[j].status = "ok" => ShowsNext(work'[j])
  <2>1. CASE j = m.id
    BY <1>f, <2>1 DEF Persist, Shows
  <2>2. CASE j # m.id
    <3>1. j \in DOMAIN work /\ work'[j] = work[j] /\ work[j].path # p
      BY <1>f, <2>2 DEF Persist, PathTaken
    <3> QED BY <1>f, <2>2, <3>1 DEF Shows
  <2> QED BY <2>1, <2>2
<1>1. CASE UNCHANGED vars
  BY <1>1, <1>a DEF vars
<1>2. ASSUME NEW p \in Paths, Edit(p) PROVE Fresh'
  <2>1. CASE pc = "idle"
    BY <1>2, <2>1 DEF Edit, Fresh, Answering
  <2>2. CASE pc # "idle"
    <3>1. UNCHANGED <<pc, req, work, todo, cur>> /\ dirty' = dirty \cup {p}
      BY <1>2, <2>2 DEF Edit
    <3>2. \A q \in Paths : q # p => file'[q] = file[q]
      BY <1>2 DEF Edit, Typed, TypeOK
    <3>3. \A j \in DOMAIN work : work[j] \in Row
      BY <1>0, PartialFcnElim
    <3>4. \A j \in DOMAIN work : Shows(work[j]) => Shows(work[j])'
      BY <3>1, <3>2, <3>3 DEF Shows, Row
    <3> QED BY <3>1, <3>4 DEF Fresh, Answering, Visited
  <2> QED BY <2>1, <2>2
<1>3. ASSUME NEW c \in Clients, Load(c) \/ Save(c) \/ Retry(c) \/ Timeout(c) PROVE Fresh'
  BY <1>3, <1>a DEF Load, Save, Retry, Timeout
<1>4. CASE BeginClient \/ BeginReindex
  BY <1>4, <1>d DEF BeginClient, BeginReindex
<1>5. ASSUME NEW p \in Paths, BeginIndex(p) PROVE Fresh'
  BY <1>5, <1>d DEF BeginIndex
<1>6. ASSUME NEW ps \in SUBSET Paths, BeginRebuild(ps) PROVE Fresh'
  BY <1>6, <1>d DEF BeginRebuild
<1>7. ASSUME NEW i \in Ids, Remove(i) PROVE Fresh'
  BY <1>7, <1>a DEF Remove
<1>8. CASE SetSettings
  BY <1>8, <1>a DEF SetSettings
<1>9. CASE RefreshRow
  <2> PICK i \in DOMAIN todo : /\ work' = Refreshed(i)
                               /\ todo' = [j \in DOMAIN todo \ {i} |-> todo[j]]
    BY <1>9 DEF RefreshRow
  <2> DEFINE p == todo[i].path
  <2>1. pc = "refresh" /\ pc' = "refresh" /\ UNCHANGED <<file, dirty, cur>>
    BY <1>9 DEF RefreshRow
  <2>2. todo[i] \in Row
    BY <1>0, PartialFcnElim DEF TypeOK
  <2>3. p \in Paths /\ file[p] \in Contents
    BY <1>0, <2>2 DEF Row, TypeOK
  <2>4. \A j \in DOMAIN work : j # i /\ work[j].status = "ok" /\ Visited(j)' /\ work'[j] = work[j]
                                  => Shows(work[j])
    BY <2>1 DEF Fresh, Answering, Visited
  <2>5. ASSUME NEW st \in {"missing", "invalid"}, work' = Mark(work, i, st) PROVE Fresh'
    <3>1. \A j \in DOMAIN work' : j \in DOMAIN work
             /\ (j = i => work'[j].status # "ok") /\ (j # i => work'[j] = work[j])
      BY <1>0, <2>5, MarkType
    <3> QED BY <2>1, <2>4, <3>1 DEF Fresh, Shows
  <2>6. CASE work' = work /\ file[p] = todo[i].content
    <3>1. ASSUME NEW j \in DOMAIN work, j = i \/ j # i, work[j].status = "ok", Visited(j)'
          PROVE  Shows(work[j])
      <4>1. CASE j # i
        BY <2>4, <2>6, <3>1, <4>1
      <4>2. CASE j = i /\ work[i] = todo[i]
        BY <2>6, <4>2 DEF Shows
      <4>3. CASE j = i /\ work[i] # todo[i]
        BY <2>1, <3>1, <4>3 DEF Fresh, Answering, Visited
      <4> QED BY <4>1, <4>2, <4>3
    <3> QED BY <2>1, <2>6, <3>1 DEF Fresh, Shows
  <2>7. CASE file[p] \in Manifests /\ work' = Persist(work, file[p], p, {i})
    <3>1. ~PathTaken(work, file[p], p, {i})
      BY DEF PathTaken, Renamed, Listing
    <3>2. ASSUME NEW j \in DOMAIN work', work'[j].status = "ok", Visited(j)' PROVE ShowsNext(work'[j])
      <4>1. CASE j = file[p].id
        BY <2>1, <2>3, <2>7, <3>1, <3>2, <4>1, <1>f
      <4>2. CASE j # file[p].id
        <5>1. j \in DOMAIN work /\ work'[j] = work[j] /\ work[j].path # p
          BY <2>7, <3>1, <4>2 DEF Persist, PathTaken
        <5>2. CASE j # i
          BY <2>1, <2>4, <3>2, <5>1, <5>2 DEF Shows
        <5>3. CASE j = i
          BY <2>1, <3>2, <5>1, <5>3 DEF Fresh, Answering, Visited, Shows
        <5> QED BY <5>2, <5>3
      <4> QED BY <4>1, <4>2
    <3> QED BY <2>1, <3>2 DEF Fresh, Shows
  <2>8. file[p] = Gone \/ file[p] = Broken \/ file[p] \in Manifests
    BY <2>3 DEF Contents
  <2> QED BY <2>5, <2>6, <2>7, <2>8 DEF Refreshed
<1>10. CASE RefreshDone \/ PlanProject \/ Registered \/ Written
  BY <1>10 DEF RefreshDone, PlanProject, Registered, Written, Fresh, Answering, Visited, Shows
<1>11. CASE PlanSettings
  <2>1. CASE ~Abort
    <3>1. UNCHANGED <<file, req, work, todo, cur, dirty>> /\ pc = "plan" /\ pc' = "write"
      BY <1>11, <2>1 DEF PlanSettings
    <3> QED BY <3>1, <1>e DEF Answering
  <2> QED BY <2>1, <1>c
<1>12. CASE WriteNext
  <2> PICK w \in plan : TakeUp(w)
    BY <1>12 DEF WriteNext
  <2>1. /\ UNCHANGED <<file, req, todo, dirty>> /\ pc = "write" /\ pc' # "reread"
        /\ w.from \in Manifests /\ w.path \in Paths /\ DOMAIN todo = {}
    BY <1>12 DEF WriteNext, TakeUp, Typed, TypeOK, Write, Listing
  <2>2. \A j \in DOMAIN work : work[j].status = "ok" => Shows(work[j])
    BY <2>1 DEF Fresh, Answering, Visited
  <2>3. w.path \in dirty \/ file[w.path] = w.from
    BY <2>1 DEF Justified, Pending, FromFile
  <2>4. \A j \in DOMAIN work' : work'[j].status = "ok" => ShowsNext(work'[j])
    <3>1. CASE w.from # w.to
      BY <2>1, <2>2, <3>1 DEF TakeUp, Shows
    <3>2. CASE w.from = w.to
      <4>1. ~PathTaken(work, w.from, w.path, w.old)
            /\ work' = Persist(work, w.from, w.path, w.old)
        BY <3>2 DEF TakeUp, CanPersist
      <4> QED BY <2>1, <2>2, <2>3, <4>1, <1>f
    <3> QED BY <3>1, <3>2
  <2> QED BY <2>1, <2>4 DEF Fresh, Shows
<1>13. CASE RegisterNext
  <2> PICK p \in regs : TakeUp(Registration(p))
    BY <1>13 DEF RegisterNext
  <2>1. pc = "register" /\ req' = req /\ pc' \in {"register", "compare"}
    BY <1>13 DEF RegisterNext, TakeUp
  <2>2. req.kind # "save"
    BY <2>1 DEF Writing
  <2> QED BY <2>1, <2>2 DEF Fresh, Answering
<1>14. CASE Compare
  <2>1. CASE ~Abort
    BY <1>14, <2>1, <1>e DEF Compare, Answering
  <2> QED BY <2>1, <1>c
<1>15. CASE Rename
  <2> PICK w \in cur : file' = [file EXCEPT ![w.path] = w.to]
    BY <1>15 DEF Rename
  <2>1. /\ UNCHANGED <<req, work, todo, cur, dirty>>
        /\ pc = "rename" /\ pc' = "reread"
    BY <1>15 DEF Rename
  <2>2. \A j \in DOMAIN work : work[j] \in Row
    BY <1>0, PartialFcnElim
  <2>3. \A j \in DOMAIN work : Shows(work[j]) => Shows(work[j])' \/ w.path = work[j].path
    BY <2>1, <2>2 DEF Shows, Row, Typed, TypeOK
  <2> QED BY <2>1, <2>3 DEF Fresh, Answering, Visited
<1>16. CASE Reread
  <2>1. CASE ~Abort
    <3>1. PICK w \in cur : /\ file[w.path] \in Manifests
                           /\ CanPersist(file[w.path], w.path, w.old)
                           /\ work' = Persist(work, file[w.path], w.path, w.old)
      BY <1>16, <2>1 DEF Reread
    <3>2. /\ UNCHANGED <<file, req, todo, dirty>> /\ pc = "reread" /\ pc' = Resume
          /\ w.path \in Paths /\ cur = {w} /\ DOMAIN todo = {}
      BY <1>16, <2>1, <3>1 DEF Reread, Writing, Typed, TypeOK, Write, Listing
    <3>3. CASE req.kind = "save"
      <4>1. \A j \in DOMAIN work : work[j].status = "ok" =>
                Shows(work[j]) \/ work[j].path = w.path
        BY <3>2, <3>3 DEF Fresh, Answering, Visited
      <4>2. \A j \in DOMAIN work' : work'[j].status = "ok" => ShowsNext(work'[j])
        BY <3>1, <3>2, <4>1, <1>f DEF CanPersist
      <4> QED BY <4>2 DEF Fresh, Shows
    <3>4. CASE req.kind # "save"
      BY <3>2, <3>4 DEF Fresh, Answering, Resume
    <3> QED BY <3>3, <3>4
  <2> QED BY <2>1, <1>c
<1>17. CASE Commit \/ StepFails \/ CommitUnacknowledged \/ Crash
  BY <1>17, <1>b DEF Commit, StepFails, CommitUnacknowledged, Crash
<1>18. CASE PlanRefused \/ PersistRefused \/ RegisterRefused
  BY <1>18, <1>c DEF PlanRefused, PersistRefused, RegisterRefused
<1> QED BY <1>1, <1>2, <1>3, <1>4, <1>5, <1>6, <1>7, <1>8, <1>9, <1>10, <1>11, <1>12,
           <1>13, <1>14, <1>15, <1>16, <1>17, <1>18 DEF Next, TxnStep

-----------------------------------------------------------------------------
(* Two further invariants, of a transaction that is running.               *)

\* A row that has left the manifest it is committed under, in this transaction,
\* has done so because that manifest is gone, declares another id, or is being
\* edited by another program.
Released(p, i) == \/ p \in dirty
                  \/ file[p] = Gone
                  \/ file[p] \in Manifests /\ file[p].id # i
Stays(i) == i \in DOMAIN work /\ work[i].path = rows[i].path
Moving == pc # "idle" => \A i \in DOMAIN rows : Stays(i) \/ Released(rows[i].path, i)

\* A manifest this transaction wrote is noted, and a save has indexed it as it is.
InIndex(p) == \E i \in DOMAIN work : work[i].path = p /\ work[i].content = file[p]
Noted ==
    /\ touched # {} => wrote
    /\ pc = "idle" => touched = {}
    /\ req.kind = "load" => touched = {} /\ pc \in {"refresh", "commit"}
    /\ req.kind = "save" /\ pc \in {"refresh", "plan"} => touched = {}
    /\ req.kind = "save" => \A p \in touched \ dirty :
          InIndex(p) \/ (pc = "reread" /\ \E w \in cur : w.path = p)

\* persist() moves no row whose manifest is still there and its own.
LEMMA PersistMoving ==
    ASSUME Typed, pc # "idle", Moving, UNCHANGED <<file, rows, dirty>>,
           NEW m \in Manifests, NEW p \in Paths, NEW old,
           p \in dirty \/ file[p] = m, ~Collides(work, m.id, p),
           work' = Persist(work, m, p, old)
    PROVE  Moving'
<1>1. ASSUME NEW i \in DOMAIN rows
      PROVE  Stays(i)' \/ Released(rows[i].path, i)
  <2>1. CASE Released(rows[i].path, i)
    BY <2>1
  <2>2. CASE Stays(i)
    <3>1. CASE i = m.id
      BY <2>2, <3>1 DEF Stays, Collides, Released, Persist
    <3>2. CASE i # m.id /\ i \in Renamed(work, m, p, old)
      BY <2>2, <3>2 DEF Stays, Released, Renamed
    <3>3. CASE i # m.id /\ i \notin Renamed(work, m, p, old)
      BY <2>2, <3>3 DEF Stays, Persist
    <3> QED BY <3>1, <3>2, <3>3
  <2> QED BY <2>1, <2>2 DEF Moving
<1> QED BY <1>1 DEF Moving, Released

\* No step lets a row leave a manifest that is there and its own.
LEMMA MovingStep == ASSUME IInv, Moving, [Next]_vars PROVE Moving'
<1> USE DEF dbVars, workVars, writeVars, clientVars, budgetVars
<1> Typed /\ IndexIsInjective /\ Listing /\ Writing /\ Justified
  BY DEF IInv
<1>0. /\ file \in [Paths -> Contents] /\ work \in PartialFcn(Row)
      /\ \A i \in DOMAIN rows : rows[i] \in Row
  BY PartialFcnElim DEF Typed, TypeOK
<1>a. ASSUME UNCHANGED <<file, rows, pc, work, dirty>> PROVE Moving'
  BY <1>a DEF Moving, Stays, Released
<1>b. CASE Finished
  BY <1>b DEF Finished, Moving
<1>c. CASE Abort
  BY <1>b, <1>c DEF Abort
<1>d. ASSUME NEW r, NEW at, Start(r, at) PROVE Moving'
  BY <1>d DEF Start, Moving, Stays
<1>e. ASSUME UNCHANGED <<file, rows, work, dirty>>, pc # "idle" PROVE Moving'
  BY <1>e DEF Moving, Stays, Released
<1>f. ASSUME NEW w \in Write, TakeUp(w), FromFile(w), pc # "idle", UNCHANGED <<file, rows, dirty>>
      PROVE  Moving'
  <2>1. w.from \in Manifests /\ w.path \in Paths
    BY DEF Write
  <2> QED BY <1>e, <1>f, <2>1, PersistMoving DEF TakeUp, CanPersist, FromFile
<1>1. CASE UNCHANGED vars
  BY <1>1, <1>a DEF vars
<1>2. ASSUME NEW p \in Paths, Edit(p) PROVE Moving'
  <2>1. CASE pc = "idle"
    BY <1>2, <2>1 DEF Edit, Moving
  <2>2. CASE pc # "idle"
    <3>1. UNCHANGED <<pc, rows, work>> /\ dirty' = dirty \cup {p}
      BY <1>2, <2>2 DEF Edit
    <3>2. \A q \in Paths : q # p => file'[q] = file[q]
      BY <1>2, <1>0 DEF Edit
    <3> QED BY <1>0, <2>2, <3>1, <3>2 DEF Moving, Stays, Released, Row
  <2> QED BY <2>1, <2>2
<1>3. ASSUME NEW c \in Clients, Load(c) \/ Save(c) \/ Retry(c) \/ Timeout(c) PROVE Moving'
  BY <1>3, <1>a DEF Load, Save, Retry, Timeout
<1>4. CASE BeginClient \/ BeginReindex
  BY <1>4, <1>d DEF BeginClient, BeginReindex
<1>5. ASSUME NEW p \in Paths, BeginIndex(p) PROVE Moving'
  BY <1>5, <1>d DEF BeginIndex
<1>6. ASSUME NEW ps \in SUBSET Paths, BeginRebuild(ps) PROVE Moving'
  BY <1>6, <1>d DEF BeginRebuild
<1>7. ASSUME NEW i \in Ids, Remove(i) PROVE Moving'
  BY <1>7 DEF Remove, Moving
<1>8. CASE SetSettings
  BY <1>8, <1>a DEF SetSettings
<1>9. CASE RefreshRow
  <2> PICK i \in DOMAIN todo : work' = Refreshed(i)
    BY <1>9 DEF RefreshRow
  <2> DEFINE p == todo[i].path
  <2>1. pc = "refresh" /\ pc' = "refresh" /\ UNCHANGED <<file, rows, dirty>>
    BY <1>9 DEF RefreshRow
  <2>2. todo[i] \in Row
    BY PartialFcnElim DEF Typed, TypeOK
  <2>3. p \in Paths /\ file[p] \in Contents
    BY <1>0, <2>2 DEF Row
  <2>4. ASSUME NEW st \in {"missing", "invalid"}, work' = Mark(work, i, st) PROVE Moving'
    <3>1. DOMAIN work' = DOMAIN work /\ \A j \in DOMAIN work : work'[j].path = work[j].path
      BY <1>0, <2>4, MarkType
    <3> QED BY <2>1, <3>1 DEF Moving, Stays, Released
  <2>5. CASE work' = work
    BY <2>1, <2>5, <1>e
  <2>6. CASE /\ file[p] \in Manifests /\ ~Collides(work, file[p].id, p)
             /\ work' = Persist(work, file[p], p, {i})
    BY <2>1, <2>3, <2>6, PersistMoving
  <2>7. file[p] = Gone \/ file[p] = Broken \/ file[p] \in Manifests
    BY <2>3 DEF Contents
  <2> QED BY <2>4, <2>5, <2>6, <2>7 DEF Refreshed
<1>10. CASE RefreshDone \/ PlanProject \/ Registered \/ Written
  BY <1>10, <1>e DEF RefreshDone, PlanProject, Registered, Written
<1>11. CASE PlanSettings
  BY <1>11, <1>c, <1>e DEF PlanSettings
<1>12. CASE WriteNext
  <2> PICK w \in plan : TakeUp(w)
    BY <1>12 DEF WriteNext
  <2>1. w \in Write /\ FromFile(w) /\ pc # "idle" /\ UNCHANGED <<file, rows, dirty>>
    BY <1>12 DEF WriteNext, Typed, TypeOK, Justified, Pending
  <2> QED BY <2>1, <1>f
<1>13. CASE RegisterNext
  <2> PICK p \in regs : Registrable(p) /\ TakeUp(Registration(p))
    BY <1>13 DEF RegisterNext
  <2>1. Registration(p) \in Write
    BY RegistrationType DEF Registrable, Typed, TypeOK
  <2>2. FromFile(Registration(p))
    BY DEF FromFile, Registration
  <2>3. pc # "idle" /\ UNCHANGED <<file, rows, dirty>>
    BY <1>13 DEF RegisterNext
  <2> QED BY <2>1, <2>2, <2>3, <1>f
<1>14. CASE Compare
  BY <1>14, <1>c, <1>e DEF Compare
<1>15. CASE Rename
  <2> PICK w \in cur : file' = [file EXCEPT ![w.path] = w.to]
    BY <1>15 DEF Rename
  <2>1. UNCHANGED <<rows, work, dirty>> /\ pc = "rename"
    BY <1>15 DEF Rename
  <2>2. /\ w.from \in Manifests /\ w.to \in Manifests /\ w.path \in Paths
        /\ w.to.id = w.from.id
        /\ w.path \in dirty \/ file[w.path] = w.from
    BY <2>1 DEF Justified, Pending, FromFile, Typed, TypeOK, Write
  <2>3. w.from # Gone
    BY <2>2 DEF Manifests, Gone
  <2>4. ASSUME NEW i \in DOMAIN rows, Released(rows[i].path, i)
        PROVE  Released(rows[i].path, i)'
    <3>1. rows[i].path \in Paths
      BY <1>0 DEF Row
    <3>2. CASE rows[i].path = w.path
      BY <1>0, <2>1, <2>2, <2>3, <2>4, <3>2 DEF Released
    <3>3. CASE rows[i].path # w.path
      BY <1>0, <2>1, <2>4, <3>1, <3>3 DEF Released
    <3> QED BY <3>2, <3>3
  <2> QED BY <2>1, <2>4 DEF Moving, Stays
<1>16. CASE Reread
  <2>1. CASE ~Abort
    <3>1. PICK w \in cur : /\ file[w.path] \in Manifests
                           /\ CanPersist(file[w.path], w.path, w.old)
                           /\ work' = Persist(work, file[w.path], w.path, w.old)
      BY <1>16, <2>1 DEF Reread
    <3>2. UNCHANGED <<file, rows, dirty>> /\ pc = "reread" /\ w.path \in Paths
      BY <1>16, <2>1 DEF Reread, Typed, TypeOK, Write
    <3> QED BY <3>1, <3>2, PersistMoving DEF CanPersist
  <2> QED BY <2>1, <1>c
<1>17. CASE Commit \/ StepFails \/ CommitUnacknowledged \/ Crash
  BY <1>17, <1>b DEF Commit, StepFails, CommitUnacknowledged, Crash
<1>18. CASE PlanRefused \/ PersistRefused \/ RegisterRefused
  BY <1>18, <1>c DEF PlanRefused, PersistRefused, RegisterRefused
<1> QED BY <1>1, <1>2, <1>3, <1>4, <1>5, <1>6, <1>7, <1>8, <1>9, <1>10, <1>11, <1>12,
           <1>13, <1>14, <1>15, <1>16, <1>17, <1>18 DEF Next, TxnStep

\* persist() drops from the index no manifest that was written and is still there.
LEMMA PersistInIndex ==
    ASSUME Typed, UNCHANGED file, NEW m \in Manifests, NEW p \in Paths, NEW old,
           ~Collides(work, m.id, p), work' = Persist(work, m, p, old),
           NEW t, InIndex(t), t # p
    PROVE  InIndex(t)'
<1> PICK i \in DOMAIN work : work[i].path = t /\ work[i].content = file[t]
  BY DEF InIndex
<1>1. work[i] \in Row
  BY PartialFcnElim DEF Typed, TypeOK
<1>2. file[t] # Gone
  BY <1>1 DEF Row, Manifests, Gone
<1>3. i # m.id
  BY <1>2 DEF Collides
<1>4. i \in DOMAIN work' /\ work'[i] = work[i]
  BY <1>3 DEF Persist, Renamed
<1> QED BY <1>4 DEF InIndex

\* And it puts the manifest it is given there.
LEMMA PersistIndexes ==
    ASSUME UNCHANGED file, NEW p, NEW old, work' = Persist(work, file[p], p, old)
    PROVE  InIndex(p)'
<1>1. /\ file[p].id \in DOMAIN work'
      /\ work'[file[p].id].path = p /\ work'[file[p].id].content = file[p]
  BY DEF Persist
<1> QED BY <1>1 DEF InIndex

\* No step forgets a manifest the transaction wrote.
LEMMA NotedStep == ASSUME IInv, Noted, [Next]_vars PROVE Noted'
<1> USE DEF dbVars, workVars, writeVars, clientVars, budgetVars
<1> Typed /\ IndexIsInjective /\ Listing /\ Writing /\ Justified
  BY DEF IInv
<1>0. file \in [Paths -> Contents] /\ work \in PartialFcn(Row) /\ touched \subseteq Paths
  BY DEF Typed, TypeOK
<1>a. ASSUME UNCHANGED <<file, pc, req, work, cur, dirty, wrote, touched>> PROVE Noted'
  BY <1>a DEF Noted, InIndex
<1>b. CASE Finished
  BY <1>b DEF Finished, Noted, NoRequest
<1>c. CASE Abort
  BY <1>b, <1>c DEF Abort
<1>d. ASSUME NEW r, NEW at \in {"refresh", "register"}, Start(r, at),
             r.kind = "load" => at = "refresh"
      PROVE  Noted'
  BY <1>d DEF Start, Noted
<1>e. ASSUME UNCHANGED <<file, req, work, cur, dirty, wrote, touched>>,
             pc \notin {"idle", "reread"}, pc' \notin {"idle"},
             req.kind = "load" => pc' \in {"refresh", "commit"},
             req.kind = "save" /\ pc' \in {"refresh", "plan"} => pc \in {"refresh", "plan"}
      PROVE  Noted'
  BY <1>e DEF Noted, InIndex
<1>1. CASE UNCHANGED vars
  BY <1>1, <1>a DEF vars
<1>2. ASSUME NEW p \in Paths, Edit(p) PROVE Noted'
  <2>1. CASE pc = "idle"
    BY <1>2, <2>1 DEF Edit, Noted
  <2>2. CASE pc # "idle"
    <3>1. UNCHANGED <<pc, req, work, cur, wrote, touched>> /\ dirty' = dirty \cup {p}
      BY <1>2, <2>2 DEF Edit
    <3>2. \A q \in Paths : q # p => file'[q] = file[q]
      BY <1>2, <1>0 DEF Edit
    <3> QED BY <1>0, <3>1, <3>2 DEF Noted, InIndex
  <2> QED BY <2>1, <2>2
<1>3. ASSUME NEW c \in Clients, Load(c) \/ Save(c) \/ Retry(c) \/ Timeout(c) PROVE Noted'
  BY <1>3, <1>a DEF Load, Save, Retry, Timeout
<1>4. CASE BeginClient \/ BeginReindex
  BY <1>4, <1>d DEF BeginClient, BeginReindex
<1>5. ASSUME NEW p \in Paths, BeginIndex(p) PROVE Noted'
  BY <1>5, <1>d DEF BeginIndex
<1>6. ASSUME NEW ps \in SUBSET Paths, BeginRebuild(ps) PROVE Noted'
  BY <1>6, <1>d DEF BeginRebuild
<1>7. ASSUME NEW i \in Ids, Remove(i) PROVE Noted'
  BY <1>7, <1>a DEF Remove
<1>8. CASE SetSettings
  BY <1>8, <1>a DEF SetSettings
<1>9. CASE RefreshRow
  BY <1>9 DEF RefreshRow, Noted
<1>10. CASE RefreshDone \/ PlanProject
  BY <1>10 DEF RefreshDone, PlanProject, Noted
<1>11. CASE PlanSettings
  <2>1. CASE ~Abort
    BY <1>11, <2>1, <1>e DEF PlanSettings, Writing
  <2> QED BY <2>1, <1>c
<1>12. CASE Registered \/ Written
  BY <1>12, <1>e DEF Registered, Written, Writing
<1>13. CASE WriteNext
  <2> PICK w \in plan : TakeUp(w)
    BY <1>13 DEF WriteNext
  <2>1. /\ UNCHANGED <<file, req, dirty, wrote, touched>>
        /\ pc = "write" /\ req.kind = "save" /\ w \in Write /\ FromFile(w)
    BY <1>13 DEF WriteNext, Writing, Typed, TypeOK, Justified, Pending
  <2>2. CASE w.from # w.to
    BY <2>1, <2>2 DEF TakeUp, Noted, InIndex
  <2>3. CASE w.from = w.to
    <3>1. /\ ~Collides(work, w.from.id, w.path)
          /\ work' = Persist(work, w.from, w.path, w.old) /\ UNCHANGED <<cur, pc>>
          /\ w.from \in Manifests /\ w.path \in Paths
      BY <2>1, <2>3 DEF TakeUp, CanPersist, Write
    <3>2. ASSUME NEW t \in touched \ dirty PROVE InIndex(t)'
      <4>1. InIndex(t)
        BY <2>1, <3>2 DEF Noted
      <4>2. CASE t # w.path
        BY <2>1, <3>1, <4>1, <4>2, PersistInIndex
      <4>3. CASE t = w.path
        BY <2>1, <3>1, <3>2, <4>3, PersistIndexes DEF FromFile
      <4> QED BY <4>2, <4>3
    <3> QED BY <2>1, <3>1, <3>2 DEF Noted
  <2> QED BY <2>2, <2>3
<1>14. CASE RegisterNext
  <2> PICK p \in regs : TakeUp(Registration(p))
    BY <1>14 DEF RegisterNext
  <2>1. /\ UNCHANGED <<req, wrote, touched>> /\ pc = "register" /\ pc' \in {"register", "compare"}
        /\ req.kind # "save" /\ req.kind # "load"
    BY <1>14 DEF RegisterNext, TakeUp, Writing, Noted
  <2> QED BY <2>1 DEF Noted
<1>15. CASE Compare
  <2>1. CASE ~Abort
    BY <1>15, <2>1, <1>e DEF Compare, Noted
  <2> QED BY <2>1, <1>c
<1>16. CASE Rename
  <2> PICK w \in cur : /\ file' = [file EXCEPT ![w.path] = w.to]
                       /\ touched' = touched \cup {w.path}
    BY <1>16 DEF Rename
  <2>1. /\ UNCHANGED <<req, work, cur, dirty>> /\ wrote' = TRUE
        /\ pc = "rename" /\ pc' = "reread"
    BY <1>16 DEF Rename
  <2>2. \A t \in Paths : t # w.path => file'[t] = file[t]
    BY <1>0
  <2>3. ASSUME req.kind = "save", NEW t \in touched' \ dirty, t # w.path PROVE InIndex(t)'
    BY <1>0, <2>1, <2>2, <2>3 DEF Noted, InIndex
  <2> QED BY <2>1, <2>3 DEF Noted
<1>17. CASE Reread
  <2>1. CASE ~Abort
    <3>1. PICK w \in cur : /\ file[w.path] \in Manifests
                           /\ CanPersist(file[w.path], w.path, w.old)
                           /\ work' = Persist(work, file[w.path], w.path, w.old)
      BY <1>17, <2>1 DEF Reread
    <3>2. /\ UNCHANGED <<file, req, dirty, wrote, touched>> /\ pc = "reread" /\ pc' = Resume
          /\ w.path \in Paths /\ cur = {w}
      BY <1>17, <2>1, <3>1 DEF Reread, Writing, Typed, TypeOK, Write
    <3>3. ASSUME req.kind = "save", NEW t \in touched \ dirty PROVE InIndex(t)'
      <4>1. CASE t # w.path
        BY <3>1, <3>2, <3>3, <4>1, PersistInIndex DEF Noted, CanPersist
      <4>2. CASE t = w.path
        BY <3>1, <3>2, <4>2, PersistIndexes
      <4> QED BY <4>1, <4>2
    <3> QED BY <3>2, <3>3 DEF Noted, Resume
  <2> QED BY <2>1, <1>c
<1>18. CASE Commit \/ StepFails \/ CommitUnacknowledged \/ Crash
  BY <1>18, <1>b DEF Commit, StepFails, CommitUnacknowledged, Crash
<1>19. CASE PlanRefused \/ PersistRefused \/ RegisterRefused
  BY <1>19, <1>c DEF PlanRefused, PersistRefused, RegisterRefused
<1> QED BY <1>1, <1>2, <1>3, <1>4, <1>5, <1>6, <1>7, <1>8, <1>9, <1>10, <1>11, <1>12,
           <1>13, <1>14, <1>15, <1>16, <1>17, <1>18, <1>19 DEF Next, TxnStep

-----------------------------------------------------------------------------
(* The theorems.                                                           *)

\* The inductive invariant: types, unique keys, one write at a time, every pending write
\* justified by what its manifest and client say, every visited row up to date.
THEOREM Inductive == Spec => []IInv
<1>1. Init => IInv
  <2> SUFFICES ASSUME Init PROVE IInv
    OBVIOUS
  <2>1. Typed
    BY InitTyped
  <2>2. IndexIsInjective /\ Listing
    BY EmptyKeyed DEF Init, IndexIsInjective, Listing, Empty
  <2>3. Writing /\ Justified /\ Fresh
    BY DEF Init, Writing, Justified, Pending, Fresh, Answering, NoRequest
  <2> QED BY <2>1, <2>2, <2>3 DEF IInv
<1>2. IInv /\ [Next]_vars => IInv'
  <2> SUFFICES ASSUME IInv, [Next]_vars PROVE IInv'
    OBVIOUS
  <2>1. Typed /\ IndexIsInjective /\ Listing /\ Writing /\ Justified
    BY DEF IInv
  <2>2. Typed'
    BY <2>1, TypedStep
  <2> QED BY <2>1, <2>2, KeyedStep, WritingStep, JustifiedStep, FreshStep DEF IInv
<1> QED BY <1>1, <1>2, PTL DEF Spec

\* Whatever the manifests, clients and faults, no id is indexed under another's
\* manifest and no manifest twice: the UNIQUE constraint never fires in a refresh.
THEOREM InjectiveIndex == Spec => []IndexIsInjective
BY Inductive, PTL DEF IInv

\* Every load and save answers with what the manifests say.
THEOREM CurrentAnswer == Spec => []AnswerIsCurrent
<1>1. IInv => AnswerIsCurrent
  BY DEF IInv, Fresh, Answering, Visited, Listing, AnswerIsCurrent
<1> QED BY <1>1, Inductive, PTL

\* No write of the service undoes a change it has not been shown.
THEOREM NothingLost == Spec => NoLostUpdate
<1>1. IInv /\ [Next]_vars =>
        [pc = "rename" /\ pc' = "reread" /\ ~raced =>
            \A w \in cur : /\ file[w.path] \in Manifests
                           /\ file'[w.path].id = file[w.path].id
                           /\ Overwrites(file[w.path], file'[w.path])]_vars
  <2> SUFFICES ASSUME IInv, Next, pc = "rename", pc' = "reread", ~raced, NEW w \in cur
               PROVE  /\ file[w.path] \in Manifests
                      /\ file'[w.path].id = file[w.path].id
                      /\ Overwrites(file[w.path], file'[w.path])
    BY DEF vars
  <2>1. cur = {w} /\ w \in Write /\ file \in [Paths -> Contents]
    BY DEF IInv, Writing, Typed, TypeOK
  <2>2. Rename
    BY DEF Next, TxnStep, Edit, BeginIndex, Load, Save, Retry, Timeout, BeginClient,
           BeginReindex, BeginRebuild, Remove, SetSettings, Start, RefreshRow, RefreshDone,
           PlanProject, PlanRefused, PlanSettings, WriteNext, PersistRefused, Written,
           RegisterNext, RegisterRefused, Registered, Compare, Reread, Commit, StepFails,
           CommitUnacknowledged, Crash, Finished
  <2>3. file' = [file EXCEPT ![w.path] = w.to]
    BY <2>1, <2>2 DEF Rename
  <2>4. file[w.path] = w.from /\ w.from \in Manifests /\ w.path \in Paths
    BY <2>1 DEF IInv, Justified, Write
  <2>5. w.to.id = w.from.id /\ Overwrites(w.from, w.to)
    BY DEF IInv, Justified, Pending
  <2> QED BY <2>1, <2>3, <2>4, <2>5
<1> QED BY <1>1, Inductive, PTL DEF Spec, NoLostUpdate

\* Only a removal and a commit, acknowledged or not, touch the committed index.
LEMMA RowsStep ==
    ASSUME Next, rows' # rows
    PROVE  \/ \E i \in Ids : Remove(i)
           \/ Commit \/ CommitUnacknowledged
BY DEF Next, TxnStep, Edit, BeginIndex, Load, Save, Retry, Timeout, BeginClient,
       BeginReindex, BeginRebuild, SetSettings, Start, RefreshRow, RefreshDone,
       PlanProject, PlanRefused, PlanSettings, WriteNext, PersistRefused, Written,
       RegisterNext, RegisterRefused, Registered, Compare, Rename, Reread, StepFails,
       Crash, Abort, dbVars

\* An id moves to another manifest only when the one it is indexed under is gone
\* or declares another id, whatever is renamed, registered or edited around it.
THEOREM NothingMovesEarly == Spec => MovesOnlyWhenGone
<1> DEFINE Move == \A i \in DOMAIN rows \cap DOMAIN rows' :
                      LET p == rows[i].path
                      IN  rows'[i].path # p => \/ p \in dirty
                                               \/ file[p] = Gone
                                               \/ file[p] \in Manifests /\ file[p].id # i
<1>1. Init => Moving
  BY DEF Init, Moving
<1>2. IInv /\ Moving /\ [Next]_vars => Moving'
  BY MovingStep
<1>3. IInv /\ Moving /\ [Next]_vars => [Move]_vars
  <2> SUFFICES ASSUME Moving, Next PROVE Move
    OBVIOUS
  <2>1. CASE rows' = rows
    BY <2>1
  <2>2. ASSUME NEW i \in Ids, Remove(i) PROVE Move
    BY <2>2 DEF Remove
  <2>3. CASE Commit \/ CommitUnacknowledged
    <3>1. rows' = work /\ pc # "idle"
      BY <2>3 DEF Commit, CommitUnacknowledged
    <3> QED BY <3>1 DEF Moving, Stays, Released
  <2> QED BY <2>1, <2>2, <2>3, RowsStep
<1>4. Spec => [][Move]_vars
  BY <1>1, <1>2, <1>3, Inductive, PTL DEF Spec
<1> QED BY <1>4 DEF MovesOnlyWhenGone

\* A client that is told its request succeeded or was refused finds every
\* manifest the service wrote for it in the index, as it was written.
THEOREM NothingStaleUnsaid == Spec => StaleIsReported
<1> DEFINE Told == pc # "idle" /\ pc' = "idle" /\ Awaited /\ phase'[req.by] = "ready" =>
                      \A p \in touched \ dirty :
                          \E i \in DOMAIN rows' : rows'[i].path = p /\ rows'[i].content = file'[p]
<1>1. Init => Noted
  BY DEF Init, Noted, NoRequest
<1>2. IInv /\ Noted /\ [Next]_vars => Noted'
  BY NotedStep
<1>3. IInv /\ Noted /\ [Next]_vars => [Told]_vars
  <2> SUFFICES ASSUME IInv, Noted, Next, pc # "idle", pc' = "idle", Awaited,
                      phase'[req.by] = "ready", NEW p \in touched \ dirty
               PROVE  \E i \in DOMAIN rows' : rows'[i].path = p /\ rows'[i].content = file'[p]
    BY DEF vars
  <2>1. wrote /\ phase \in [Clients -> {"ready", "loading", "saving", "unsure"}]
    BY DEF Noted, IInv, Typed, TypeOK
  <2>2. ~Reply("unsure")
    BY <2>1 DEF Reply, Awaited
  <2>3. ~Abort /\ ~StepFails /\ ~CommitUnacknowledged
    BY <2>1, <2>2 DEF Abort, StepFails, CommitUnacknowledged
  <2>4. ~Crash
    BY <2>1 DEF Crash, Awaited
  <2>5. Commit
    BY <2>3, <2>4
       DEF Next, TxnStep, Edit, BeginIndex, Load, Save, Retry, Timeout, BeginClient,
           BeginReindex, BeginRebuild, Remove, SetSettings, Start, RefreshRow, RefreshDone,
           PlanProject, PlanRefused, PlanSettings, WriteNext, PersistRefused, Written,
           RegisterNext, RegisterRefused, Registered, TakeUp, Compare, Rename, Reread, Resume
  <2>6. req.kind = "save"
    <3>1. req.kind \in {"load", "save"}
      BY ConstantsAssumption
         DEF Awaited, IInv, Typed, TypeOK, ClientRequests, OperatorRequests, NoRequest
    <3> QED BY <3>1 DEF Noted
  <2>7. InIndex(p)
    BY <2>5, <2>6 DEF Noted, Commit
  <2> QED BY <2>5, <2>7 DEF InIndex, Commit
<1>4. Spec => [][Told]_vars
  BY <1>1, <1>2, <1>3, Inductive, PTL DEF Spec
<1> QED BY <1>4 DEF StaleIsReported
=============================================================================
