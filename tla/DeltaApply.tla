----------------------------- MODULE DeltaApply -----------------------------
(***************************************************************************)
(* What becomes of the features of a project's layers: the deltas that     *)
(* clients push, and the apply_deltas workflow of the QGIS worker          *)
(* (workflow.py, apply_deltas.py, utils.py) with the hooks around it       *)
(* (wrapper.py).  DeltaQueue has the deltas' way into jobs; here one job   *)
(* is run at a time and takes all pending deltas.                          *)
(*                                                                         *)
(* Abstractions:                                                           *)
(*  - A feature is one value, an attribute or the geometry, the same for   *)
(*    all features that are created.  `by` tells                           *)
(*    features apart: the delta that created it, 0 for the one there was.  *)
(*  - Layers have an autoincrement primary key: a deleted feature's key is *)
(*    not given again.  A key is the first that was never used.            *)
(*  - A client works on one package, that of the start, and numbers the    *)
(*    features it creates on from there; sourcePk is localPk.              *)
(*  - A delta pushed during a job waits for the next as one pushed after it *)
(*    does: deltas are pushed between jobs.                                *)
(*  - The hooks write the feedback of a job in one step.                   *)
(***************************************************************************)
EXTENDS Integers, Sequences, FiniteSets

CONSTANTS
    Clients,      \* QField devices, by their clientId
    FileLayers,   \* layers whose data is a file of the project
    OnlineLayers, \* layers in a database outside of the project
    Values,       \* values of a feature
    Pks,          \* primary keys, 1..n
    MaxDeltas,    \* bound: deltas pushed
    MaxRetries,   \* bound: deltas that staff sets back to pending
    MaxFailures,  \* bound: workflows and commits that fail for a reason outside
    None,         \* no feature with that key yet, NULL
    Gone,         \* a deleted feature
    Missing       \* a delta without the old attributes

Feature == [val : Values, by : 0..MaxDeltas]
Table == [Pks -> Feature \cup {None, Gone}]

ASSUME DeltaApplyAssumption ==
    /\ FileLayers \cap OnlineLayers = {} /\ Values # {}
    /\ IsFiniteSet(Clients) /\ IsFiniteSet(FileLayers \cup OnlineLayers)
    /\ IsFiniteSet(Pks) /\ Pks # {} /\ Pks = 1..Cardinality(Pks)
    /\ MaxDeltas \in Nat /\ MaxRetries \in Nat /\ MaxFailures \in Nat
    /\ None # Gone /\ Missing \notin Values \cup {None} /\ {None, Gone} \cap (Values \cup Feature) = {}
    /\ None \notin Pks /\ None \notin 0..MaxDeltas /\ None \notin Table

VARIABLES
    \* the clients
    local,       \* their copies of the layers
    \* the server
    deltas,      \* Delta.content, in the order of created_at
    status,      \* Delta.last_status
    modifiedPk,  \* Delta.last_modified_pk
    data,        \* the layers: files of the project, or tables
    \* the job
    phase,       \* how far the worker and its container are
    overwrite,   \* ApplyJob.overwrite_conflicts
    todo,        \* the deltas it has not come to
    work,        \* the downloaded files
    edit,        \* edit buffers of the layers, None when not in edit mode
    at,          \* the key of the feature the current delta has changed
    log,         \* delta_log
    unsent,      \* files it has not uploaded yet
    \* history
    before,      \* the layers when the job downloaded them
    hit,         \* the feature that an applied delta has changed
    spilt,       \* deltas that have reached the data in a job that failed
    retries, failures

jobVars == <<phase, overwrite, todo, work, edit, at, log, unsent, before>>
vars == <<local, deltas, status, modifiedPk, data, jobVars, hit, spilt, retries, failures>>

Layers == FileLayers \cup OnlineLayers
DeltaIds == 1..MaxDeltas
Delta == [client : Clients, layer : Layers, method : {"create", "patch", "delete"},
          pk : Pks, old : Values \cup {None, Missing}, new : Values \cup {None}]
DeltaStatus == {"pending", "started", "applied", "conflict", "not_applied", "error"}
Entry == [delta : DeltaIds, status : {"applied", "conflict", "not_applied"}, pk : Pks \cup {None}]

TypeOK ==
    /\ local \in [Clients -> [Layers -> [Pks -> Values \cup {None, Gone}]]]
    /\ deltas \in Seq(Delta) /\ Len(deltas) <= MaxDeltas
    /\ status \in [DOMAIN deltas -> DeltaStatus]
    /\ modifiedPk \in [DOMAIN deltas -> Pks \cup {None}]
    /\ data \in [Layers -> Table] /\ work \in [FileLayers -> Table]
    /\ before \in [Layers -> Table]
    /\ \A l \in Layers : edit[l] = None \/ edit[l] \in Table
    /\ at \in Pks \cup {None}
    /\ phase \in {"idle", "started", "next", "edited", "refused", "conflict", "stopped",
                  "succeeded", "error"}
    /\ overwrite \in BOOLEAN /\ unsent \subseteq FileLayers
    /\ todo \in Seq(DeltaIds) /\ log \in Seq(Entry)
    /\ hit \in [DOMAIN deltas -> 0..MaxDeltas \cup {None}]
    /\ spilt \subseteq DeltaIds
    /\ retries \in 0..MaxRetries /\ failures \in 0..MaxFailures

FirstValue == CHOOSE v \in Values : TRUE

Init ==
    /\ local = [c \in Clients |-> [l \in Layers |-> [p \in Pks |-> IF p = 1 THEN FirstValue ELSE None]]]
    /\ deltas = <<>> /\ status = <<>> /\ modifiedPk = <<>>
    /\ data = [l \in Layers |-> [p \in Pks |-> IF p = 1 THEN [val |-> FirstValue, by |-> 0] ELSE None]]
    /\ phase = "idle" /\ overwrite = FALSE /\ todo = <<>>
    /\ work = [l \in FileLayers |-> data[l]] /\ before = data
    /\ edit = [l \in Layers |-> None] /\ at = None /\ log = <<>> /\ unsent = {}
    /\ hit = <<>> /\ spilt = {} /\ retries = 0 /\ failures = 0

-----------------------------------------------------------------------------
(* A client edits its copy and pushes the delta.                           *)

FirstFree(table) == CHOOSE p \in Pks : table[p] = None /\ \A q \in 1..p - 1 : table[q] # None

HasRoom(table) == \E p \in Pks : table[p] = None

Push(c, l, method, pk, old, new) ==
    /\ Len(deltas) < MaxDeltas /\ phase = "idle"
    /\ deltas' = Append(deltas, [client |-> c, layer |-> l, method |-> method,
                                 pk |-> pk, old |-> old, new |-> new])
    /\ status' = Append(status, "pending")
    /\ modifiedPk' = Append(modifiedPk, None)
    /\ hit' = Append(hit, None)
    /\ local' = [local EXCEPT ![c][l][pk] = IF method = "delete" THEN Gone ELSE new]
    /\ UNCHANGED <<data, jobVars, spilt, retries, failures>>

PushCreate(c, l) ==
    /\ HasRoom(local[c][l])
    /\ Push(c, l, "create", FirstFree(local[c][l]), None, FirstValue)

PushPatch(c, l) ==
    \E p \in Pks : \E v \in Values \ {local[c][l][p]} :
        /\ local[c][l][p] \in Values
        /\ \E old \in {local[c][l][p], Missing} : Push(c, l, "patch", p, old, v)

PushDelete(c, l) ==
    \E p \in Pks :
        /\ local[c][l][p] \in Values
        /\ Push(c, l, "delete", p, local[c][l][p], None)

-----------------------------------------------------------------------------
(* The job: its deltas, the download, and the loop of apply_deltas.        *)

\* deltas_to_apply.all() has no ORDER BY.
Orders(S) == {f \in [1..Cardinality(S) -> S] : \A d \in S : \E i \in DOMAIN f : f[i] = d}

\* As if the deltas of a job that are applied were taken again.
PendingOrApplied == {d \in DOMAIN deltas : status[d] \in {"pending", "applied"}}

Pending == {d \in DOMAIN deltas : status[d] = "pending"}

TakeDeltas ==
    /\ phase = "idle" /\ Pending # {}
    /\ todo' \in Orders(Pending)
    /\ overwrite' \in BOOLEAN
    /\ status' = [d \in DOMAIN deltas |-> IF d \in Pending THEN "started" ELSE status[d]]
    /\ phase' = "started" /\ log' = <<>>
    /\ UNCHANGED <<local, deltas, modifiedPk, data, work, edit, at, unsent, before, hit,
                   spilt, retries, failures>>

serverUnchanged == UNCHANGED <<local, deltas, status, modifiedPk, spilt, retries>>

Download ==
    /\ phase = "started"
    /\ work' = [l \in FileLayers |-> data[l]] /\ before' = data
    /\ edit' = [l \in Layers |-> None]
    /\ phase' = "next"
    /\ UNCHANGED <<data, overwrite, todo, at, log, unsent, hit, failures>> /\ serverUnchanged

\* A database is worked on directly.
Committed(l) == IF l \in OnlineLayers THEN data[l] ELSE work[l]

\* The layer as it is in edit mode; startEditing changes nothing.
Edited(l) == IF edit[l] = None THEN Committed(l) ELSE edit[l]

\* As if the key had no clientId.
SameKeyOfAny(d, e) == deltas[d].layer = deltas[e].layer /\ deltas[d].pk = deltas[e].pk

\* client_pks: what is known of a feature that the client had deltas of before.
SameKey(d, e) ==
    deltas[d].client = deltas[e].client /\ deltas[d].layer = deltas[e].layer
    /\ deltas[d].pk = deltas[e].pk

ClientPks(d) == {modifiedPk[e] : e \in {e \in DOMAIN deltas : SameKey(d, e) /\ modifiedPk[e] # None}}

\* get_feature: the key to look for.  Of several keys in the map the last one
\* that the query returned counts.
SourcePks(d) == IF ClientPks(d) = {} THEN {deltas[d].pk} ELSE ClientPks(d)

IsFeature(f) == f \notin {None, Gone}

\* compare_feature: no old attributes, no conflict.
Conflicts(f, d) == deltas[d].old # Missing /\ f.val # deltas[d].old

Goto(p) ==
    /\ phase' = p
    /\ UNCHANGED <<data, overwrite, todo, work, log, unsent, before, hit, failures>>
    /\ serverUnchanged

WriteBuffer(l, p, f) ==
    /\ edit' = [edit EXCEPT ![l] = [Edited(l) EXCEPT ![p] = f]]
    /\ at' = p

StartEditing(l) == edit' = [edit EXCEPT ![l] = Edited(l)] /\ UNCHANGED at

CreateFeature ==
    /\ phase = "next" /\ todo # <<>>
    /\ LET d == deltas[Head(todo)] IN
        /\ d.method = "create"
        /\ HasRoom(Edited(d.layer))
        /\ WriteBuffer(d.layer, FirstFree(Edited(d.layer)), [val |-> d.new, by |-> Head(todo)])
    /\ Goto("edited")

\* A patch or a deletion that does not find its feature, or another value.
RefuseFeature ==
    /\ phase = "next" /\ todo # <<>>
    /\ LET d == deltas[Head(todo)] IN
        /\ d.method # "create"
        /\ StartEditing(d.layer)
        /\ \E p \in SourcePks(Head(todo)) :
            LET f == Edited(d.layer)[p] IN
            \/ ~IsFeature(f) /\ Goto("refused")
            \/ IsFeature(f) /\ Conflicts(f, Head(todo)) /\ ~overwrite /\ Goto("conflict")

\* changeAttributeValue is given old_attrs[attr_name]: a patch without it raises
\* a KeyError, and the exception that is no DeltaException ends the workflow.
PatchFeature ==
    /\ phase = "next" /\ todo # <<>>
    /\ LET d == deltas[Head(todo)] IN
        /\ d.method = "patch"
        /\ \E p \in SourcePks(Head(todo)) :
            LET f == Edited(d.layer)[p] IN
            /\ IsFeature(f)
            /\ Conflicts(f, Head(todo)) => overwrite
            /\ IF d.old = Missing
               THEN /\ StartEditing(d.layer)
                    /\ Goto("error")
               ELSE /\ WriteBuffer(d.layer, p, [f EXCEPT !.val = d.new])
                    /\ Goto("edited")

DeleteFeature ==
    /\ phase = "next" /\ todo # <<>>
    /\ LET d == deltas[Head(todo)] IN
        /\ d.method = "delete"
        /\ \E p \in SourcePks(Head(todo)) :
            LET f == Edited(d.layer)[p] IN
            /\ IsFeature(f)
            /\ Conflicts(f, Head(todo)) => overwrite
            /\ WriteBuffer(d.layer, p, Gone)
    /\ Goto("edited")

\* The creator of the feature that was changed.
Identity(l) == IF IsFeature(edit[l][at]) THEN edit[l][at].by ELSE Committed(l)[at].by

CommitChanges ==
    /\ phase = "edited"
    /\ LET d == Head(todo)
           l == deltas[d].layer IN
        /\ IF l \in OnlineLayers
           THEN data' = [data EXCEPT ![l] = edit[l]] /\ UNCHANGED work
           ELSE work' = [work EXCEPT ![l] = edit[l]] /\ UNCHANGED data
        /\ edit' = [edit EXCEPT ![l] = None]
        /\ log' = Append(log, [delta |-> d, status |-> "applied", pk |-> at])
        /\ hit' = [hit EXCEPT ![d] = Identity(l)]
    /\ todo' = Tail(todo) /\ phase' = "next" /\ at' = None
    /\ UNCHANGED <<overwrite, unsent, before, failures>> /\ serverUnchanged

\* A geometry that does not parse, or an edit or a commit that the provider
\* refuses: the buffer may have been written to.
EditFails ==
    /\ phase = "edited" /\ failures < MaxFailures
    /\ failures' = failures + 1
    /\ phase' = "refused"
    /\ UNCHANGED <<data, overwrite, todo, work, edit, at, log, unsent, before, hit>>
    /\ serverUnchanged

\* As if there were no rollBack: the buffer goes on with the next delta.
KeptBuffer(l) == edit

\* layer.rollBack()
RolledBack(l) == [edit EXCEPT ![l] = None]

LogFailure ==
    /\ phase \in {"refused", "conflict"}
    /\ edit' = RolledBack(deltas[Head(todo)].layer)
    /\ log' = Append(log, [delta |-> Head(todo), pk |-> None,
                           status |-> IF phase = "conflict" THEN "conflict" ELSE "not_applied"])
    /\ todo' = Tail(todo) /\ phase' = "next" /\ at' = None
    /\ UNCHANGED <<data, overwrite, work, unsent, before, hit, failures>> /\ serverUnchanged

\* As if the upload did not wait for the last delta.
AnyApplied == phase = "next" /\ log # <<>>

\* The steps after apply_deltas: stop_app, and upload_project file by file.
AllApplied == phase = "next" /\ todo = <<>>

StopQgis ==
    /\ AllApplied
    /\ unsent' = FileLayers /\ phase' = "stopped"
    /\ UNCHANGED <<data, overwrite, todo, work, edit, at, log, before, hit, failures>>
    /\ serverUnchanged

UploadLayer(l) ==
    /\ phase = "stopped" /\ l \in unsent
    /\ data' = [data EXCEPT ![l] = work[l]]
    /\ unsent' = unsent \ {l}
    /\ phase' = IF unsent' = {} THEN "succeeded" ELSE phase
    /\ UNCHANGED <<overwrite, todo, work, edit, at, log, before, hit, failures>> /\ serverUnchanged

\* A step raises, or the container is killed, before the feedback is whole.
StepFails ==
    /\ phase \in {"started", "next", "edited", "refused", "conflict", "stopped"}
    /\ failures < MaxFailures
    /\ failures' = failures + 1 /\ phase' = "error"
    /\ UNCHANGED <<data, overwrite, todo, work, edit, at, log, unsent, before, hit>>
    /\ serverUnchanged

-----------------------------------------------------------------------------
(* The hooks, and staff.                                                   *)

Logged(d) == {i \in DOMAIN log : log[i].delta = d}

AfterRun ==
    /\ phase = "succeeded"
    /\ status' = [d \in DOMAIN deltas |->
                    IF Logged(d) = {} THEN status[d] ELSE log[CHOOSE i \in Logged(d) : TRUE].status]
    /\ modifiedPk' = [d \in DOMAIN deltas |->
                    IF Logged(d) = {} THEN modifiedPk[d] ELSE log[CHOOSE i \in Logged(d) : TRUE].pk]
    /\ phase' = "idle" /\ log' = <<>>
    /\ UNCHANGED <<local, deltas, data, overwrite, todo, work, edit, at, unsent, before, hit,
                   spilt, retries, failures>>

Reached(d) ==
    /\ \E i \in Logged(d) : log[i].status = "applied"
    /\ data[deltas[d].layer] # before[deltas[d].layer]

AfterException ==
    /\ phase = "error"
    /\ LET mine == {d \in DOMAIN deltas : status[d] = "started"} IN
        /\ status' = [d \in DOMAIN deltas |-> IF d \in mine THEN "error" ELSE status[d]]
        /\ modifiedPk' = [d \in DOMAIN deltas |-> IF d \in mine THEN None ELSE modifiedPk[d]]
        /\ hit' = [d \in DOMAIN deltas |-> IF d \in mine THEN None ELSE hit[d]]
        /\ spilt' = spilt \cup {d \in mine : Reached(d)}
    /\ phase' = "idle" /\ todo' = <<>> /\ log' = <<>> /\ unsent' = {}
    /\ edit' = [l \in Layers |-> None] /\ at' = None
    /\ UNCHANGED <<local, deltas, data, overwrite, work, before, retries, failures>>

\* DeltaAdmin: set a delta to pending.
Retry(d) ==
    /\ d \in DOMAIN deltas /\ status[d] \in {"error", "conflict", "not_applied"}
    /\ retries < MaxRetries
    /\ retries' = retries + 1
    /\ status' = [status EXCEPT ![d] = "pending"]
    /\ UNCHANGED <<local, deltas, modifiedPk, data, jobVars, hit, spilt, failures>>

-----------------------------------------------------------------------------
WorkflowStep ==
    \/ TakeDeltas \/ Download
    \/ CreateFeature \/ RefuseFeature \/ PatchFeature \/ DeleteFeature
    \/ CommitChanges \/ EditFails \/ LogFailure
    \/ StopQgis \/ (\E l \in FileLayers : UploadLayer(l)) \/ StepFails
    \/ AfterRun \/ AfterException

ClientStep ==
    \E c \in Clients, l \in Layers : PushCreate(c, l) \/ PushPatch(c, l) \/ PushDelete(c, l)

Next == WorkflowStep \/ ClientStep \/ (\E d \in DeltaIds : Retry(d))

Spec == Init /\ [][Next]_vars

-----------------------------------------------------------------------------
(* Properties.                                                             *)

\* What an entry of the log that is applied does to a layer.
Effect(table, e) ==
    LET d == deltas[e.delta] IN
    CASE d.method = "create" -> [table EXCEPT ![e.pk] = [val |-> d.new, by |-> e.delta]]
      [] d.method = "patch" -> [table EXCEPT ![e.pk].val = d.new]
      [] OTHER -> [table EXCEPT ![e.pk] = Gone]

\* What the entries make of the layer that was downloaded, one after the other.
Replay(l) ==
    LET table[n \in 0..Len(log)] ==
            IF n = 0 THEN before[l]
            ELSE IF log[n].status = "applied" /\ deltas[log[n].delta].layer = l
                 THEN Effect(table[n - 1], log[n])
                 ELSE table[n - 1] IN
    table[Len(log)]

\* The state keeps its types, and the layers the container works on are at
\* every moment between two deltas those it has downloaded, with the deltas it
\* reports as applied, in the order of its report: a delta that was refused
\* half-way leaves nothing behind that the next commit would write.
LayersReplayLog ==
    /\ TypeOK
    /\ phase \in {"next", "stopped"} => \A l \in Layers : Committed(l) = Replay(l)

\* A file on the server changes only to what the whole job makes of it, never to
\* the result of some of its deltas.
FilesChangeByJobs ==
    [][\A l \in FileLayers :
        data'[l] # data[l] => todo = <<>> /\ data'[l] = Replay(l)]_vars

\* The deltas in which a client means the same feature.
Meant(d) ==
    {e \in DOMAIN deltas : /\ deltas[e].client = deltas[d].client
                          /\ deltas[e].layer = deltas[d].layer /\ deltas[e].pk = deltas[d].pk}

\* The delta that created the feature, 0 for the one there was.
Target(d) ==
    LET creates == {e \in Meant(d) : deltas[e].method = "create"} IN
    IF creates = {} THEN 0 ELSE CHOOSE e \in creates : TRUE

\* Deltas about the same feature that were applied to another one.
Misled(d) ==
    {e \in Meant(d) : deltas[e].method # "create" /\ modifiedPk[e] # None /\ hit[e] # Target(d)}

\* A delta changes the feature its client meant, also when the server gave that
\* another key than the client: once the creation was applied by an earlier job,
\* client_pks leads to it, or to one that an earlier delta was misled to, or the
\* delta is not applied.  (A delta in the same job as the creation, or after one
\* that failed, looks for the client's key, and may be misled.)
HitsTarget ==
    [][\A d \in DOMAIN hit :
        LET t == Target(d)
            known == t = 0 \/ (t # d /\ modifiedPk[t] # None) IN
        hit'[d] \notin {None, hit[d]} /\ known =>
            hit'[d] \in {t} \cup {hit[e] : e \in Misled(d)}]_vars

\* A delta creates one feature and no more, however often it is retried, unless
\* a job has failed after the data had got it; and a delta reported as refused
\* has created none.
CreatedOnce ==
    \A d \in DOMAIN deltas \ spilt :
        LET made == {place \in Layers \X Pks :
                        LET f == data[place[1]][place[2]] IN IsFeature(f) /\ f.by = d} IN
        /\ Cardinality(made) <= 1
        /\ status[d] \in {"conflict", "not_applied"} => made = {}
=============================================================================
