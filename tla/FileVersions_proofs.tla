-------------------------- MODULE FileVersions_proofs --------------------------
(***************************************************************************)
(* Proofs about FileVersions, for any number of requests, files, versions  *)
(* and deaths of processes, any quota and any number of versions to keep.  *)
(***************************************************************************)
EXTENDS FileVersions, FiniteSetTheorems, SequenceTheorems, WellFoundedInduction, TLAPS

USE DEF dbVars, reqVars, historyVars

Starts(c) ==
    \E n \in Names :
        \/ CheckUpload(c, n)
        \/ CheckDeleteFile(c, n)
        \/ \E v \in Versions : CheckDeleteVersion(c, n, v)

Uploads(c) ==
    \/ BeginUpload(c) \/ CreateFile(c) \/ CreateFails(c) \/ PutObject(c)
    \/ SaveUpload(c) \/ UploadFails(c)
    \/ ListSurplus(c) \/ NothingToPurge(c)

Deletes(c) ==
    \/ DeleteContent(c) \/ BlankContent(c)
    \/ SignalDeletion(c) \/ CommitDeletion(c) \/ DeletionFails(c) \/ CleanObjects(c)
    \/ Cascade(c) \/ CascadeFails(c) \/ Tally(c) \/ TallyFails(c)
    \/ Crash(c)

LEMMA NextIsAStep ==
    ASSUME Next
    PROVE  \E c \in Clients : Starts(c) \/ Uploads(c) \/ Deletes(c)
BY DEF Next, Starts, Uploads, Deletes

-----------------------------------------------------------------------------
(* Types                                                                   *)

\* The type of the database, and of the memory of a request, of which TypeOK
\* leaves the domain open.
Types == TypeOK /\ DOMAIN heir = Clients

\* What a request remembers where it is.
Placed ==
    \A c \in Clients :
        /\ pc[c] \in {"idle", "begin", "create", "put", "save", "purge"} => op[c] = "upload"
        /\ pc[c] \in {"create", "put", "save", "content", "blank"} => ver[c] # 0
        /\ pc[c] \in {"put", "save", "content", "blank", "cascade"} => file[c] # 0
        /\ pc[c] = "create" => file[c] = 0
        /\ pc[c] \in {"idle", "begin", "create", "put", "save"} => doomed[c] = {}
        /\ pc[c] \in {"content", "blank"} => op[c] = "version" /\ doomed[c] = {ver[c]}
        /\ pc[c] \in {"signal", "commit"} => op[c] \in {"upload", "version"}
        /\ pc[c] = "cascade" => op[c] = "file"
        /\ pc[c] = "clean" => op[c] \in {"upload", "file"}
        /\ pc[c] = "tally" => op[c] \in {"version", "file"}

LEMMA SomeName == (CHOOSE n \in Names : TRUE) \in Names
BY FilesAssumption

LEMMA KeyType ==
    ASSUME NEW n \in Names, NEW v \in Versions
    PROVE  Key(n, v) \in Keys
BY DEF Key, Keys

LEMMA SizeType ==
    ASSUME NEW rows \in SUBSET Versions
    PROVE  IsFiniteSet(rows) /\ SizeOf(rows) \in Nat
<1>1. IsFiniteSet(Versions)
    BY FS_Interval, FilesAssumption DEF Versions
<1> QED BY <1>1, FS_Subset, FS_CardinalityType DEF SizeOf

\* Position finds a version that was inserted.
LEMMA PositionType ==
    ASSUME TypeOK, NEW v, \E i \in 1..Len(created) : created[i] = v
    PROVE  Position(v) \in 1..Len(created) /\ created[Position(v)] = v
BY DEF Position

\* An INSERT keeps created_at of the other versions in order, and has its own.
LEMMA InsertedType ==
    ASSUME TypeOK, NEW v \in Versions
    PROVE  /\ Inserted(v) \in Seq(Versions)
           /\ \E i \in 1..Len(Inserted(v)) : Inserted(v)[i] = v
           /\ \A w : (\E i \in 1..Len(created) : created[i] = w) =>
                         \E i \in 1..Len(Inserted(v)) : Inserted(v)[i] = w
<1>0. created \in Seq(Versions)
    BY DEF TypeOK
<1>1. CASE \E i \in 1..Len(created) : created[i] = v
    <2> DEFINE p == Position(v)
               L == Len(created)
    <2>1. p \in 1..L /\ created[p] = v /\ L \in Nat
        BY <1>0, <1>1, PositionType
    <2>2. Inserted(v) = Append(Before(v) \o After(v), v)
        BY <1>1 DEF Inserted
    <2> HIDE DEF p
    <2>3. /\ Before(v) \in Seq(Versions) /\ Len(Before(v)) = p - 1
          /\ \A i \in 1..p - 1 : Before(v)[i] = created[i]
        BY <1>0, <2>1 DEF Before, p
    <2>4. /\ After(v) \in Seq(Versions) /\ Len(After(v)) = L - p
          /\ \A i \in 1..L - p : After(v)[i] = created[i + p]
        BY <1>0, <2>1 DEF After, p
    <2> HIDE DEF L
    <2> DEFINE u == Before(v) \o After(v)
    <2>51. /\ u \in Seq(Versions)
          /\ Len(u) = Len(Before(v)) + Len(After(v))
          /\ \A i \in 1..Len(Before(v)) + Len(After(v)) :
                u[i] = IF i <= Len(Before(v)) THEN Before(v)[i]
                                              ELSE After(v)[i - Len(Before(v))]
        BY <2>3, <2>4, ConcatProperties
    <2> HIDE DEF u
    <2>5. Len(u) = L - 1
        BY <2>1, <2>3, <2>4, <2>51
    <2>6. \A i \in 1..p - 1 : u[i] = created[i]
        BY <2>1, <2>3, <2>4, <2>51
    <2>7. \A i \in p..L - 1 : u[i] = created[i + 1]
        <3>1. TAKE i \in p..L - 1
        <3>2. u[i] = After(v)[i - (p - 1)]
            <4>1. i \in 1..Len(Before(v)) + Len(After(v)) /\ ~ (i <= Len(Before(v)))
                BY <2>1, <2>3, <2>4
            <4> QED BY <2>3, <2>51, <4>1
        <3>3. i - (p - 1) \in 1..L - p /\ (i - (p - 1)) + p = i + 1
            BY <2>1
        <3> QED BY <2>4, <3>2, <3>3
    <2> DEFINE s == Append(u, v)
    <2>8. /\ s \in Seq(Versions) /\ Len(s) = L /\ s[L] = v
          /\ \A i \in 1..L - 1 : s[i] = u[i]
        BY <2>1, <2>5, <2>51
    <2> HIDE DEF s
    <2>9. ASSUME NEW w, NEW i \in 1..L, created[i] = w
          PROVE  \E k \in 1..L : s[k] = w
        <3>1. CASE i < p
            BY <2>1, <2>6, <2>8, <2>9, <3>1
        <3>2. CASE i = p
            BY <2>1, <2>8, <2>9, <3>2
        <3>3. CASE i > p
            <4>1. i - 1 \in p..L - 1 /\ (i - 1) + 1 = i
                BY <2>1, <3>3
            <4>2. s[i - 1] = created[i]
                BY <2>1, <2>7, <2>8, <4>1
            <4> QED BY <2>1, <2>9, <4>1, <4>2
        <3> QED BY <2>1, <3>1, <3>2, <3>3
    <2>10. Inserted(v) = s
        BY <2>2 DEF s, u
    <2>11. \E i \in 1..Len(s) : s[i] = v
        BY <2>1, <2>8
    <2> QED BY <2>8, <2>9, <2>10, <2>11 DEF L
<1>2. CASE ~ \E i \in 1..Len(created) : created[i] = v
    BY <1>0, <1>2 DEF Inserted
<1> QED BY <1>1, <1>2

LEMMA TypesInit ==
    ASSUME Init
    PROVE  Types /\ Placed
<1>1. 0 \in Id /\ 1 \in 1..MaxVersion + 1 /\ 0 \in 0..MaxCrashes /\ 0 \in Nat
    BY FilesAssumption DEF Id
<1>2. created \in Seq(Versions)
    BY DEF Init
<1>3. name \in [Clients -> Names]
    BY SomeName DEF Init
<1>4. /\ \A c \in Clients : heir[c] \in [DOMAIN heir[c] -> Id] /\ DOMAIN heir[c] \subseteq Id
      /\ DOMAIN heir = Clients
    BY DEF Init, NoHeirs
<1>5. Placed
    BY DEF Init, Placed
<1> QED BY <1>1, <1>2, <1>3, <1>4, <1>5 DEF Init, Types, TypeOK

\* Where a request may be.
Places == {"idle", "begin", "create", "put", "save", "purge", "content",
           "blank", "signal", "commit", "cascade", "clean", "tally"}

LEMMA EndTypes ==
    ASSUME Types, NEW c \in Clients, End(c)
    PROVE  /\ pc' \in [Clients -> Places]
           /\ op' \in [Clients -> {"upload", "version", "file"}]
           /\ name' \in [Clients -> Names]
           /\ ver' \in [Clients -> Id] /\ file' \in [Clients -> Id]
           /\ doomed' \in [Clients -> SUBSET Versions]
           /\ \A d \in Clients : heir'[d] \in [DOMAIN heir'[d] -> Id] /\ DOMAIN heir'[d] \subseteq Id
           /\ DOMAIN heir' = Clients
           /\ nextVersion' = nextVersion
<1>1. 0 \in Id
    BY FilesAssumption DEF Id
<1> QED BY <1>1, SomeName DEF Types, TypeOK, End, NoHeirs, Places

LEMMA TypesStarts ==
    ASSUME Types, NEW c \in Clients, Starts(c)
    PROVE  Types'
<1> USE DEF Types, TypeOK, Goto
<1>1. PICK n \in Names :
        \/ CheckUpload(c, n)
        \/ CheckDeleteFile(c, n)
        \/ \E v \in Versions : CheckDeleteVersion(c, n, v)
    BY DEF Starts
<1>2. CASE CheckUpload(c, n)
    BY <1>2 DEF CheckUpload
<1>3. CASE CheckDeleteFile(c, n)
    <2>1. VersionsOf(fileOf[n]) \in SUBSET Versions
        BY DEF VersionsOf
    <2> QED BY <1>3, <2>1 DEF CheckDeleteFile
<1>4. CASE \E v \in Versions : CheckDeleteVersion(c, n, v)
    <2>1. PICK v \in Versions : CheckDeleteVersion(c, n, v)
        BY <1>4
    <2>2. v \in Id
        BY DEF Versions, Id
    <2> QED BY <2>1, <2>2 DEF CheckDeleteVersion
<1> QED BY <1>1, <1>2, <1>3, <1>4

LEMMA TypesUploads ==
    ASSUME Types, Placed, NEW c \in Clients, Uploads(c)
    PROVE  Types'
<1> USE DEF Types, TypeOK, Goto
<1>1. CASE BeginUpload(c)
    <2>1. nextVersion \in Id /\ nextVersion + 1 \in 1..MaxVersion + 1
        BY <1>1, FilesAssumption DEF BeginUpload, Id
    <2> QED BY <1>1, <2>1 DEF BeginUpload
<1>2. CASE CreateFile(c)
    BY <1>2 DEF CreateFile
<1>3. CASE CreateFails(c) \/ UploadFails(c) \/ NothingToPurge(c)
    BY <1>3, EndTypes DEF CreateFails, UploadFails, NothingToPurge, Places
<1>4. CASE PutObject(c)
    <2>1. ver[c] \in Versions
        BY <1>4 DEF Placed, PutObject, Id, Versions
    <2>2. created' \in Seq(Versions)
        BY <1>4, <2>1, InsertedType DEF PutObject
    <2> QED BY <1>4, <2>1, <2>2 DEF PutObject
<1>5. CASE SaveUpload(c)
    <2>1. ver[c] \in Versions
        BY <1>5 DEF Placed, SaveUpload, Id, Versions
    <2>2. Key(name[c], ver[c]) \in Keys
        BY <2>1, KeyType
    <2>3. storageBytes' \in Nat
        <3>1. Rows \cup {ver[c]} \in SUBSET Versions
            BY <2>1 DEF Rows
        <3> QED BY <1>5, <3>1, SizeType DEF SaveUpload
    <2>4. shuffled' \subseteq Id
        BY <1>5 DEF SaveUpload
    <2> QED BY <1>5, <2>1, <2>2, <2>3, <2>4 DEF SaveUpload
<1>6. CASE ListSurplus(c)
    <2>1. UNION {Surplus(fileOf[n]) : n \in Names} \in SUBSET Versions
        BY DEF Surplus, VersionsOf
    <2> QED BY <1>6, <2>1 DEF ListSurplus
<1> QED BY <1>1, <1>2, <1>3, <1>4, <1>5, <1>6 DEF Uploads

LEMMA TypesDeletes ==
    ASSUME Types, Placed, NEW c \in Clients, Deletes(c)
    PROVE  Types'
<1> USE DEF Types, TypeOK, Goto
<1>0. 0 \in Id
    BY FilesAssumption DEF Id
<1>1. CASE DeleteContent(c)
    BY <1>0, <1>1 DEF DeleteContent
<1>2. CASE BlankContent(c)
    <2>1. ver[c] \in Versions
        BY <1>2 DEF Placed, BlankContent, Id, Versions
    <2>2. created' \in Seq(Versions)
        BY <1>2, <2>1, InsertedType DEF BlankContent
    <2> QED BY <1>2, <2>1, <2>2 DEF BlankContent
<1>3. CASE SignalDeletion(c)
    <2> DEFINE rows == doomed[c] \cap Rows
               hit == {n \in Names : latest[n] \in rows}
    <2>1. PICK h \in [{fileOf[n] : n \in hit} -> Id] : heir' = [heir EXCEPT ![c] = h]
        BY <1>3 DEF SignalDeletion
    <2>2. {fileOf[n] : n \in hit} \subseteq Id
        OBVIOUS
    <2> HIDE DEF hit
    <2>3. /\ DOMAIN heir' = Clients
          /\ \A d \in Clients : heir'[d] \in [DOMAIN heir'[d] -> Id] /\ DOMAIN heir'[d] \subseteq Id
        BY <2>1, <2>2
    <2>4. doomed' \in [Clients -> SUBSET Versions]
        BY <1>3 DEF SignalDeletion
    <2> QED BY <1>3, <2>3, <2>4 DEF SignalDeletion
<1>4. CASE CommitDeletion(c)
    <2>1. NewLatest(c) \in [Names -> Id]
        BY DEF NewLatest
    <2>2. storageBytes' \in Nat /\ lapsed' \in BOOLEAN
        <3>1. Rows \ doomed[c] \in SUBSET Versions
            BY DEF Rows
        <3> QED BY ZenonT(60), <1>4, <3>1, SizeType DEF CommitDeletion, Recompute
    <2>3. raced' \subseteq Id
        BY <1>4 DEF CommitDeletion, Rows
    <2>4. pc' \in [Clients -> Places]
        BY <1>4 DEF CommitDeletion, Places
    <2> QED BY <1>0, <1>4, <2>1, <2>2, <2>3, <2>4 DEF CommitDeletion, Places
<1>5. CASE DeletionFails(c) \/ TallyFails(c) \/ CascadeFails(c)
    BY <1>5, EndTypes DEF DeletionFails, TallyFails, CascadeFails, Places
<1>6. CASE CleanObjects(c)
    <2>1. stored' \in [Keys -> Id]
        BY <1>0, <1>6 DEF CleanObjects
    <2>2. CASE op[c] = "upload" /\ End(c)
        BY <1>6, <2>1, <2>2, EndTypes DEF CleanObjects, Places
    <2>3. CASE op[c] = "file"
        BY <1>6, <2>1, <2>3 DEF CleanObjects
    <2> QED BY <1>6, <2>2, <2>3 DEF CleanObjects
<1>7. CASE Cascade(c)
    BY <1>0, <1>7 DEF Cascade
<1>8. CASE Tally(c)
    <2>1. Rows \in SUBSET Versions
        BY DEF Rows
    <2>2. storageBytes' \in Nat /\ lapsed' \in BOOLEAN
        BY <1>8, <2>1, SizeType DEF Tally, Recompute
    <2>3. qgisName' \in QgisNames \cup {NoName}
        BY <1>8 DEF Tally
    <2> QED BY <1>8, <2>2, <2>3, EndTypes DEF Tally, Places
<1>9. CASE Crash(c)
    BY <1>9, EndTypes, FilesAssumption DEF Crash, Places
<1> QED BY <1>1, <1>2, <1>3, <1>4, <1>5, <1>6, <1>7, <1>8, <1>9 DEF Deletes

LEMMA PlacedNext ==
    ASSUME Types, Placed, NEW c \in Clients, Starts(c) \/ Uploads(c) \/ Deletes(c)
    PROVE  Placed'
<1> USE DEF Types, TypeOK, Placed, Goto
<1>1. CASE Starts(c)
    <2>1. PICK n \in Names :
            \/ CheckUpload(c, n)
            \/ CheckDeleteFile(c, n)
            \/ \E v \in Versions : CheckDeleteVersion(c, n, v)
        BY <1>1 DEF Starts
    <2>2. CASE CheckUpload(c, n)
        BY <2>2 DEF CheckUpload
    <2>3. CASE CheckDeleteFile(c, n)
        BY <2>3 DEF CheckDeleteFile
    <2>4. CASE \E v \in Versions : CheckDeleteVersion(c, n, v)
        <3>1. PICK v \in Versions : CheckDeleteVersion(c, n, v)
            BY <2>4
        <3>2. v # 0 /\ fileOf[n] # 0
            BY <3>1 DEF CheckDeleteVersion, VersionsOf, Versions
        <3> QED BY <3>1, <3>2 DEF CheckDeleteVersion
    <2> QED BY <2>1, <2>2, <2>3, <2>4
<1>2. CASE End(c)
    BY <1>2 DEF End
<1>3. CASE BeginUpload(c)
    BY <1>3 DEF BeginUpload
<1>4. CASE CreateFile(c)
    BY <1>4 DEF CreateFile
<1>5. CASE PutObject(c)
    BY <1>5 DEF PutObject
<1>6. CASE SaveUpload(c)
    BY <1>6 DEF SaveUpload
<1>7. CASE ListSurplus(c)
    BY <1>7 DEF ListSurplus
<1>8. CASE DeleteContent(c)
    BY <1>8 DEF DeleteContent
<1>9. CASE BlankContent(c)
    BY <1>9 DEF BlankContent
<1>10. CASE SignalDeletion(c)
    BY <1>10 DEF SignalDeletion
<1>11. CASE CommitDeletion(c)
    BY <1>11 DEF CommitDeletion
<1>12. CASE CleanObjects(c)
    BY <1>2, <1>12 DEF CleanObjects
<1>13. CASE Cascade(c)
    BY <1>13 DEF Cascade
<1> QED
    BY <1>1, <1>2, <1>3, <1>4, <1>5, <1>6, <1>7, <1>8, <1>9, <1>10, <1>11, <1>12, <1>13
    DEF Uploads, Deletes, CreateFails, UploadFails, NothingToPurge, DeletionFails, CascadeFails,
        Tally, TallyFails, Crash

LEMMA PlacedAlways == Spec => [](Types /\ Placed)
<1>1. ASSUME Types, Placed, [Next]_vars
      PROVE  (Types /\ Placed)'
    <2>1. CASE UNCHANGED vars
        BY <1>1, <2>1 DEF vars, Types, TypeOK, Placed
    <2>2. CASE Next
        BY <1>1, <2>2, NextIsAStep, TypesStarts, TypesUploads, TypesDeletes, PlacedNext
    <2> QED BY <1>1, <2>1, <2>2
<1> QED BY <1>1, TypesInit, PTL DEF Spec

-----------------------------------------------------------------------------
(* The stored bytes are those of the versions                              *)

\* A step of c leaves the deletions of the others as they were.
LEMMA StillUntallied ==
    ASSUME NEW c \in Clients, NEW d \in Clients, d # c, Types,
           pc'[d] = pc[d], op'[d] = op[d], Untallied(d)
    PROVE  Untallied(d)'
BY DEF Untallied

LEMMA CountedNext ==
    ASSUME Types, Types', Placed, Placed', StorageCounted,
           NEW c \in Clients, Starts(c) \/ Uploads(c) \/ Deletes(c)
    PROVE  StorageCounted'
<1> USE DEF Types, TypeOK, Goto
<1>1. ASSUME UNCHANGED <<rowOf, storageBytes>>, Untallied(c) => Untallied(c)' \/ lapsed',
             lapsed => lapsed', \A d \in Clients \ {c} : pc'[d] = pc[d] /\ op'[d] = op[d]
      PROVE  StorageCounted'
    <2>1. Rows' = Rows /\ SizeOf(Rows)' = SizeOf(Rows)
        BY <1>1 DEF Rows, SizeOf
    <2>2. \A d \in Clients : Untallied(d) => Untallied(d)' \/ lapsed'
        BY <1>1, StillUntallied
    <2> QED BY <1>1, <2>1, <2>2 DEF StorageCounted
<1>2. ASSUME storageBytes' = SizeOf(Rows') PROVE StorageCounted'
    BY <1>2 DEF StorageCounted, SizeOf
<1>3. CASE Starts(c)
    BY <1>1, <1>3 DEF Starts, CheckUpload, CheckDeleteFile, CheckDeleteVersion, Untallied
<1>4. CASE BeginUpload(c) \/ CreateFile(c) \/ PutObject(c) \/ ListSurplus(c) \/ DeleteContent(c)
    BY <1>1, <1>4 DEF BeginUpload, CreateFile, PutObject, ListSurplus, DeleteContent, Untallied, Placed
<1>5. CASE CreateFails(c) \/ UploadFails(c) \/ NothingToPurge(c) \/ CascadeFails(c)
    BY <1>1, <1>5
    DEF CreateFails, UploadFails, NothingToPurge, CascadeFails, End, Untallied, Placed
<1>6. CASE DeletionFails(c) \/ TallyFails(c) \/ Crash(c)
    BY <1>1, <1>6 DEF DeletionFails, TallyFails, Crash, End
<1>7. CASE SignalDeletion(c)
    BY <1>1, <1>7 DEF SignalDeletion, Untallied
<1>8. CASE SaveUpload(c)
    <2>1. ver[c] \in Versions /\ file[c] # 0
        BY <1>8 DEF SaveUpload, Placed, Versions, Id
    <2>2. Rows' = Rows \cup {ver[c]}
        BY <1>8, <2>1 DEF SaveUpload, Rows
    <2> QED BY <1>2, <1>8, <2>2 DEF SaveUpload
<1>9. CASE BlankContent(c)
    <2>1. pc'[c] = "signal" /\ op'[c] = "version"
        BY <1>9 DEF BlankContent, Placed
    <2> QED BY <2>1 DEF StorageCounted, Untallied
<1>10. CASE CommitDeletion(c)
    <2>1. Rows' = Rows \ doomed[c]
        BY <1>10 DEF CommitDeletion, Rows
    <2>2. CASE op[c] = "upload"
        BY <1>2, <1>10, <2>1, <2>2 DEF CommitDeletion, Recompute
    <2>3. CASE op[c] = "version"
        <3>1. pc'[c] = "tally" /\ op'[c] = "version"
            BY <1>10, <2>3 DEF CommitDeletion
        <3> QED BY <3>1 DEF StorageCounted, Untallied
    <2> QED BY <1>10, <2>2, <2>3 DEF CommitDeletion
<1>11. CASE CleanObjects(c)
    <2>1. CASE op[c] = "upload" /\ End(c)
        BY <1>1, <1>11, <2>1 DEF CleanObjects, End, Untallied
    <2>2. CASE op[c] = "file" /\ Goto(c, "tally") /\ op' = op
        BY <1>1, <1>11, <2>2 DEF CleanObjects, Untallied
    <2> QED BY <1>11, <2>1, <2>2 DEF CleanObjects
<1>12. CASE Cascade(c)
    <2>1. pc'[c] = "clean" /\ op'[c] = "file"
        BY <1>12 DEF Cascade, Placed
    <2> QED BY <2>1 DEF StorageCounted, Untallied
<1>13. CASE Tally(c)
    <2>1. storageBytes' = SizeOf(Rows) /\ Rows' = Rows
        BY <1>13 DEF Tally, Recompute, Rows
    <2> QED BY <1>2, <2>1
<1> QED
    BY <1>3, <1>4, <1>5, <1>6, <1>7, <1>8, <1>9, <1>10, <1>11, <1>12, <1>13 DEF Uploads, Deletes

-----------------------------------------------------------------------------
(* The quota                                                               *)

\* Requests that passed the check of the quota and have not saved a version yet.
Passed == {c \in Clients : pc[c] \in {"begin", "create", "put", "save"}}

\* Versions that count: a deletion by id empties the content first.
Charged == {v \in Rows : content[v] # 0}

\* Whoever passed the check may still save one version; when it passed there was
\* room for one, and every other request may have passed as well.
Overdraft ==
    Exempt = {} => SizeOf(Charged) + Cardinality(Passed) <= Quota + Cardinality(Clients) - 1

LEMMA PassedType ==
    /\ IsFiniteSet(Passed) /\ Cardinality(Passed) \in Nat
    /\ Cardinality(Clients) \in Nat /\ Cardinality(Passed) <= Cardinality(Clients)
BY FilesAssumption, FS_Subset, FS_CardinalityType DEF Passed

LEMMA ChargedType ==
    /\ IsFiniteSet(Charged) /\ SizeOf(Charged) \in Nat /\ Charged \in SUBSET Versions
    /\ IsFiniteSet(Rows) /\ SizeOf(Rows) \in Nat /\ SizeOf(Charged) <= SizeOf(Rows)
<1>1. Rows \in SUBSET Versions /\ Charged \in SUBSET Rows
    BY DEF Rows, Charged
<1>2. IsFiniteSet(Rows) /\ SizeOf(Rows) \in Nat /\ IsFiniteSet(Charged) /\ SizeOf(Charged) \in Nat
    BY <1>1, SizeType
<1> QED BY <1>1, <1>2, FS_Subset DEF SizeOf

LEMMA OverdraftInit ==
    ASSUME Init
    PROVE  Overdraft
<1>1. Charged = {} /\ Passed = {}
    BY DEF Init, Charged, Rows, Passed
<1>2. SizeOf(Charged) = 0 /\ Cardinality(Passed) = 0
    BY <1>1, FS_EmptySet DEF SizeOf
<1>3. Cardinality(Clients) \in Nat \ {0}
    BY FilesAssumption, FS_EmptySet, FS_CardinalityType
<1> QED BY <1>2, <1>3, FilesAssumption DEF Overdraft

LEMMA OverdraftNext ==
    ASSUME Types, Placed, Overdraft,
           NEW c \in Clients, Starts(c) \/ Uploads(c) \/ Deletes(c)
    PROVE  Overdraft'
<1> USE DEF Types, TypeOK, Goto
<1>0. /\ IsFiniteSet(Charged') /\ SizeOf(Charged)' = SizeOf(Charged') /\ SizeOf(Charged') \in Nat
      /\ IsFiniteSet(Passed') /\ Cardinality(Passed') \in Nat
      /\ Cardinality(Passed') <= Cardinality(Clients)
    <2>1. Charged' \in SUBSET Versions
        BY DEF Charged, Rows
    <2>2. Passed' \in SUBSET Clients
        BY DEF Passed
    <2> QED BY <2>1, <2>2, SizeType, FilesAssumption, FS_Subset, FS_CardinalityType DEF SizeOf
<1>1. ASSUME Charged' \subseteq Charged, Passed' \subseteq Passed
      PROVE  Overdraft'
    <2>1. SizeOf(Charged') <= SizeOf(Charged) /\ Cardinality(Passed') <= Cardinality(Passed)
        BY <1>1, ChargedType, PassedType, FS_Subset DEF SizeOf
    <2> QED BY <1>0, <2>1, ChargedType, PassedType, FilesAssumption DEF Overdraft
<1>2. ASSUME UNCHANGED <<rowOf, content>>, Passed' \subseteq Passed
      PROVE  Overdraft'
    BY <1>1, <1>2 DEF Charged, Rows
<1>3. CASE Starts(c)
    <2>1. PICK n \in Names :
            \/ CheckUpload(c, n)
            \/ CheckDeleteFile(c, n)
            \/ \E v \in Versions : CheckDeleteVersion(c, n, v)
        BY <1>3 DEF Starts
    <2>2. CASE CheckUpload(c, n)
        <3>1. SizeOf(Charged') = SizeOf(Charged)
            BY <2>2 DEF CheckUpload, Charged, Rows, SizeOf
        <3>2. Exempt = {} => SizeOf(Rows) <= Quota - 1
            BY <2>2, ChargedType, FilesAssumption DEF CheckUpload, CanUpload, FreeBytes
        <3> QED BY <1>0, <3>1, <3>2, ChargedType, PassedType, FilesAssumption DEF Overdraft
    <2>3. CASE CheckDeleteFile(c, n)
        BY <1>2, <2>3 DEF CheckDeleteFile, Passed
    <2>4. CASE \E v \in Versions : CheckDeleteVersion(c, n, v)
        BY <1>2, <2>4 DEF CheckDeleteVersion, Passed
    <2> QED BY <2>1, <2>2, <2>3, <2>4
<1>4. CASE SaveUpload(c)
    <2>1. c \in Passed /\ Passed' = Passed \ {c}
        BY <1>4 DEF SaveUpload, Passed
    <2>2. ver[c] \in Versions
        BY <1>4 DEF SaveUpload, Placed, Versions, Id
    <2>3. Charged' \subseteq Charged \cup {ver[c]}
        BY <1>4, <2>2 DEF SaveUpload, Charged, Rows
    <2>4. Cardinality(Passed') = Cardinality(Passed) - 1
        BY <2>1, PassedType, FS_RemoveElement
    <2>5. SizeOf(Charged') <= SizeOf(Charged) + 1
        <3>1. /\ IsFiniteSet(Charged \cup {ver[c]})
              /\ Cardinality(Charged \cup {ver[c]}) \in {Cardinality(Charged), Cardinality(Charged) + 1}
            BY ChargedType, FS_AddElement
        <3>2. Cardinality(Charged') <= Cardinality(Charged \cup {ver[c]})
            BY <2>3, <3>1, FS_Subset
        <3> QED BY <1>0, <3>1, <3>2, ChargedType DEF SizeOf
    <2> QED BY <1>0, <2>4, <2>5, ChargedType, PassedType, FilesAssumption DEF Overdraft
<1>5. CASE BlankContent(c)
    <2>1. Charged' \subseteq Charged
        BY <1>5 DEF BlankContent, Charged, Rows
    <2>2. Passed' \subseteq Passed
        BY <1>5 DEF BlankContent, Passed
    <2> QED BY <1>1, <2>1, <2>2
<1>6. CASE CommitDeletion(c) \/ Cascade(c)
    <2>1. Charged' \subseteq Charged
        BY <1>6 DEF CommitDeletion, Cascade, Charged, Rows
    <2>2. Passed' \subseteq Passed
        BY <1>6 DEF CommitDeletion, Cascade, Passed
    <2> QED BY <1>1, <2>1, <2>2
<1>7. CASE BeginUpload(c) \/ CreateFile(c) \/ PutObject(c) \/ ListSurplus(c)
    BY <1>2, <1>7 DEF BeginUpload, CreateFile, PutObject, ListSurplus, Passed
<1>8. CASE CreateFails(c) \/ UploadFails(c) \/ NothingToPurge(c)
    BY <1>2, <1>8 DEF CreateFails, UploadFails, NothingToPurge, End, Passed
<1>9. CASE DeleteContent(c) \/ SignalDeletion(c) \/ CleanObjects(c)
    BY <1>2, <1>9 DEF DeleteContent, SignalDeletion, CleanObjects, End, Passed
<1>10. CASE DeletionFails(c) \/ CascadeFails(c) \/ Tally(c) \/ TallyFails(c) \/ Crash(c)
    BY <1>2, <1>10 DEF DeletionFails, CascadeFails, Tally, TallyFails, Crash, End, Passed
<1> QED BY <1>3, <1>4, <1>5, <1>6, <1>7, <1>8, <1>9, <1>10 DEF Uploads, Deletes

\* The stored bytes are those of the versions outside of a deletion, and uploads that
\* overlap overdraw the quota by one version of each request but one: uploads,
\* deletions and purges compute them under the lock of the project.
THEOREM StorageWithinPlanAlways == Spec => []StorageWithinPlan
<1>1. Init => StorageCounted /\ Overdraft
    <2>1. Init => storageBytes = SizeOf(Rows)
        <3>1. Init => Rows = {}
            BY DEF Init, Rows
        <3> QED BY <3>1, FS_EmptySet DEF Init, SizeOf
    <2> QED BY <2>1, OverdraftInit DEF StorageCounted
<1>2. ASSUME Types, Placed, Types', Placed', StorageCounted, Overdraft, [Next]_vars
      PROVE  (StorageCounted /\ Overdraft)'
    <2>1. CASE UNCHANGED vars
        BY <1>2, <2>1
        DEF vars, StorageCounted, Overdraft, SizeOf, Rows, Charged, Passed, Untallied
    <2>2. CASE Next
        BY <1>2, <2>2, NextIsAStep, CountedNext, OverdraftNext
    <2> QED BY <1>2, <2>1, <2>2
<1>3. ASSUME Types, StorageCounted, Overdraft PROVE StorageWithinPlan
    <2>1. Exempt = {} => SizeOf(Charged) <= Quota + Cardinality(Clients) - 1
        BY <1>3, ChargedType, PassedType, FilesAssumption DEF Overdraft
    <2> QED BY <1>3, <2>1 DEF StorageWithinPlan, OverdraftBounded, Charged
<1> QED BY <1>1, <1>2, <1>3, PlacedAlways, PTL DEF Spec

-----------------------------------------------------------------------------
(* The numbers of versions and files                                       *)

\* An upload that has drawn its number and not saved its row.
Pending(c) == pc[c] \in {"create", "put", "save"}

\* Numbers are drawn in order.
Drawn ==
    /\ \A v \in Versions : rowOf[v] < nextVersion /\ (rowOf[v] # 0 => v < nextVersion)
    /\ \A n \in Names : fileOf[n] < nextVersion
    /\ \A c \in Clients : ver[c] < nextVersion /\ file[c] < nextVersion
    /\ \A c \in Clients : \A v \in doomed[c] : v < nextVersion
    /\ \A v \in condemned : v < nextVersion

\* Nobody else knows the number of an upload that has not saved its row.
Own ==
    \A c \in Clients : Pending(c) =>
        /\ rowOf[ver[c]] = 0
        /\ ver[c] \notin condemned
        /\ \A d \in Clients : ver[c] \notin doomed[d]
        /\ \A v \in Versions : rowOf[v] # ver[c]
        /\ \A n \in Names : fileOf[n] # ver[c]
        /\ \A d \in Clients \ {c} : Pending(d) => ver[d] # ver[c]
        /\ \A d \in Clients \ {c} : file[d] # ver[c]

LEMMA DrawnInit == Init => Drawn /\ Own
BY DEF Init, Drawn, Own, Pending

LEMMA SurplusRows ==
    ASSUME NEW v \in UNION {Surplus(fileOf[n]) : n \in Names}
    PROVE  v \in Rows
BY DEF Surplus, VersionsOf, Rows

LEMMA DrawnNext ==
    ASSUME Types, Placed, Drawn, NEW c \in Clients, Starts(c) \/ Uploads(c) \/ Deletes(c)
    PROVE  Drawn'
<1> USE DEF Types, TypeOK, Goto, Drawn
<1>0. nextVersion \in Nat \ {0}
    BY FilesAssumption
<1>1. CASE Starts(c)
    <2>1. PICK n \in Names :
            \/ CheckUpload(c, n)
            \/ CheckDeleteFile(c, n)
            \/ \E v \in Versions : CheckDeleteVersion(c, n, v)
        BY <1>1 DEF Starts
    <2>2. CASE CheckUpload(c, n)
        BY <2>2 DEF CheckUpload
    <2>3. CASE CheckDeleteFile(c, n)
        BY <2>3 DEF CheckDeleteFile, VersionsOf
    <2>4. CASE \E v \in Versions : CheckDeleteVersion(c, n, v)
        BY <2>4 DEF CheckDeleteVersion, VersionsOf
    <2> QED BY <2>1, <2>2, <2>3, <2>4
<1>2. CASE End(c) /\ UNCHANGED <<rowOf, fileOf, condemned>>
    BY <1>0, <1>2 DEF End
<1>3. CASE BeginUpload(c)
    <2>1. nextVersion' = nextVersion + 1 /\ nextVersion < nextVersion + 1
        BY <1>0, <1>3 DEF BeginUpload
    <2>2. UNCHANGED <<rowOf, fileOf, condemned, doomed>>
        BY <1>3 DEF BeginUpload
    <2>3. \A x \in Id : x < nextVersion => x < nextVersion'
        BY <1>0, <2>1 DEF Id
    <2>4. \A d \in Clients : ver'[d] < nextVersion' /\ file'[d] < nextVersion'
        BY <1>3, <2>1, <2>3 DEF BeginUpload
    <2>5. \A v \in Versions : v < nextVersion => v < nextVersion'
        BY <1>0, <2>1 DEF Versions
    <2> QED BY <2>2, <2>3, <2>4, <2>5
<1>4. CASE CreateFile(c)
    BY <1>4 DEF CreateFile
<1>5. CASE PutObject(c)
    BY <1>5 DEF PutObject
<1>6. CASE SaveUpload(c)
    BY <1>6 DEF SaveUpload
<1>7. CASE ListSurplus(c)
    BY <1>7, SurplusRows DEF ListSurplus, Rows
<1>8. CASE DeleteContent(c)
    BY <1>8 DEF DeleteContent
<1>9. CASE BlankContent(c)
    BY <1>9 DEF BlankContent
<1>10. CASE SignalDeletion(c)
    BY <1>10 DEF SignalDeletion
<1>11. CASE CommitDeletion(c)
    BY <1>0, <1>11 DEF CommitDeletion
<1>12. CASE CleanObjects(c)
    BY <1>2, <1>12 DEF CleanObjects
<1>13. CASE Cascade(c)
    BY <1>0, <1>13 DEF Cascade
<1> QED
    BY <1>1, <1>2, <1>3, <1>4, <1>5, <1>6, <1>7, <1>8, <1>9, <1>10, <1>11, <1>12, <1>13
    DEF Uploads, Deletes, CreateFails, UploadFails, NothingToPurge, DeletionFails, CascadeFails,
        Tally, TallyFails, Crash

LEMMA OwnNext ==
    ASSUME Types, Placed, Drawn, Own, NEW c \in Clients, Starts(c) \/ Uploads(c) \/ Deletes(c)
    PROVE  Own'
<1> USE DEF Types, TypeOK, Goto, Own, Pending, Placed
<1>0. ASSUME \A v \in Versions : rowOf'[v] \in {0, rowOf[v]},
             \A n \in Names : fileOf'[n] \in {0, fileOf[n]},
             UNCHANGED <<ver, file, condemned, doomed>>,
             \A d \in Clients : Pending(d)' => Pending(d)
      PROVE  Own'
    <2>1. SUFFICES ASSUME NEW d \in Clients, Pending(d)'
          PROVE  /\ rowOf'[ver[d]] = 0
                 /\ \A v \in Versions : rowOf'[v] # ver[d]
                 /\ \A n \in Names : fileOf'[n] # ver[d]
                 /\ \A e \in Clients \ {d} : Pending(e)' => ver[e] # ver[d]
                 /\ \A e \in Clients \ {d} : file[e] # ver[d]
        BY <1>0
    <2>2. Pending(d) /\ ver[d] \in Versions
        BY <1>0, <2>1 DEF Id, Versions
    <2> QED BY <1>0, <2>2
<1>1. CASE Starts(c)
    <2>1. PICK n \in Names :
            \/ CheckUpload(c, n)
            \/ CheckDeleteFile(c, n)
            \/ \E v \in Versions : CheckDeleteVersion(c, n, v)
        BY <1>1 DEF Starts
    <2>2. CASE CheckUpload(c, n)
        BY <2>2 DEF CheckUpload
    <2>3. CASE CheckDeleteFile(c, n)
        BY <2>3 DEF CheckDeleteFile, VersionsOf
    <2>4. CASE \E v \in Versions : CheckDeleteVersion(c, n, v)
        <3>1. PICK v \in Versions : CheckDeleteVersion(c, n, v)
            BY <2>4
        <3>2. rowOf[v] # 0
            BY <3>1 DEF CheckDeleteVersion, VersionsOf
        <3> QED BY <3>1, <3>2 DEF CheckDeleteVersion
    <2> QED BY <2>1, <2>2, <2>3, <2>4
<1>2. CASE End(c) /\ UNCHANGED <<rowOf, fileOf, condemned>>
    BY <1>2 DEF End
<1>3. CASE BeginUpload(c)
    <2>1. /\ ver'[c] = nextVersion /\ nextVersion \in Versions
          /\ \A d \in Clients \ {c} : ver'[d] = ver[d] /\ file'[d] = file[d] /\ pc'[d] = pc[d]
          /\ file'[c] = fileOf[name[c]]
          /\ UNCHANGED <<rowOf, fileOf, condemned, doomed>>
        BY <1>3, FilesAssumption DEF BeginUpload, Versions
    <2>2. \A x \in Id : ~ (x < x)
        BY DEF Id
    <2>3. \A x \in Versions : ~ (x < x)
        BY DEF Versions
    <2>4. nextVersion \in Id
        BY <2>1 DEF Versions, Id
    <2> QED BY <2>1, <2>2, <2>3, <2>4 DEF Drawn
<1>4. CASE CreateFile(c)
    BY <1>4 DEF CreateFile
<1>5. CASE PutObject(c)
    BY <1>5 DEF PutObject
<1>6. CASE SaveUpload(c)
    BY <1>6 DEF SaveUpload
<1>7. CASE ListSurplus(c)
    BY <1>7, SurplusRows DEF ListSurplus, Rows
<1>8. CASE DeleteContent(c)
    BY <1>8 DEF DeleteContent
<1>9. CASE BlankContent(c)
    BY <1>9 DEF BlankContent
<1>10. CASE SignalDeletion(c)
    BY <1>10 DEF SignalDeletion
<1>11. CASE CommitDeletion(c)
    <2>1. /\ \A v \in Versions : rowOf'[v] \in {0, rowOf[v]}
          /\ UNCHANGED <<ver, file, fileOf, condemned, doomed>>
        BY <1>11 DEF CommitDeletion
    <2>2. \A d \in Clients : Pending(d)' => Pending(d)
        BY <1>11 DEF CommitDeletion
    <2>3. \A n \in Names : fileOf'[n] \in {0, fileOf[n]}
        BY <2>1
    <2> QED BY <1>0, <2>1, <2>2, <2>3
<1>12. CASE CleanObjects(c)
    BY <1>2, <1>12 DEF CleanObjects
<1>13. CASE Cascade(c)
    <2>1. /\ \A v \in Versions : rowOf'[v] \in {0, rowOf[v]}
          /\ \A n \in Names : fileOf'[n] \in {0, fileOf[n]}
          /\ UNCHANGED <<ver, file, condemned, doomed>>
        BY <1>13 DEF Cascade
    <2>2. \A d \in Clients : Pending(d)' => Pending(d)
        BY <1>13 DEF Cascade
    <2> QED BY <1>0, <2>1, <2>2
<1> QED
    BY <1>1, <1>2, <1>3, <1>4, <1>5, <1>6, <1>7, <1>8, <1>9, <1>10, <1>11, <1>12, <1>13
    DEF Uploads, Deletes, CreateFails, UploadFails, NothingToPurge, DeletionFails, CascadeFails,
        Tally, TallyFails, Crash

LEMMA NumbersAlways == Spec => [](Types /\ Placed /\ Drawn /\ Own)
<1>1. ASSUME Types, Placed, Drawn, Own, [Next]_vars
      PROVE  (Drawn /\ Own)'
    <2>1. CASE UNCHANGED vars
        BY <1>1, <2>1 DEF vars, Drawn, Own, Pending
    <2>2. CASE Next
        BY <1>1, <2>2, NextIsAStep, DrawnNext, OwnNext
    <2> QED BY <1>1, <2>1, <2>2
<1> QED BY <1>1, DrawnInit, PlacedAlways, PTL DEF Spec

-----------------------------------------------------------------------------
(* The bytes of the versions, where all of them have a key of their own    *)

\* Objects and rows that a deletion has in hand.
Bytes ==
    /\ \A v \in Versions : content[v] \in {0, v} /\ stored[v] \in {0, v}
    /\ \A c \in Clients : pc[c] = "save" => stored[ver[c]] = ver[c]
    /\ \A c \in Clients : pc[c] \in {"content", "blank"} => ver[c] \in condemned
    /\ \A c \in Clients : pc[c] = "clean" =>
          \A v \in doomed[c] : rowOf[v] = 0 \/ v \in condemned
    /\ \A v \in Rows \ condemned : content[v] = v /\ stored[v] = v

LEMMA OwnKeys ==
    ASSUME Unversioned = {}
    PROVE  Keys = Versions /\ \A n \in Names, v \in Versions : Key(n, v) = v
BY DEF Keys, Key

LEMMA BytesNext ==
    ASSUME Types, Placed, Own, Bytes, Unversioned = {},
           NEW c \in Clients, Starts(c) \/ Uploads(c) \/ Deletes(c)
    PROVE  Bytes'
<1> USE DEF Types, TypeOK, Goto, Bytes, Rows
<1>0. \A v \in Versions : v # 0 /\ v \in Id
    BY DEF Versions, Id
<1>1. CASE Starts(c)
    <2>1. PICK n \in Names :
            \/ CheckUpload(c, n)
            \/ CheckDeleteFile(c, n)
            \/ \E v \in Versions : CheckDeleteVersion(c, n, v)
        BY <1>1 DEF Starts
    <2>2. CASE CheckUpload(c, n)
        BY <2>2 DEF CheckUpload
    <2>3. CASE CheckDeleteFile(c, n)
        BY <2>3 DEF CheckDeleteFile
    <2>4. CASE \E v \in Versions : CheckDeleteVersion(c, n, v)
        BY <2>4 DEF CheckDeleteVersion
    <2> QED BY <2>1, <2>2, <2>3, <2>4
<1>2. CASE End(c) /\ UNCHANGED <<rowOf, content, stored, condemned>>
    BY <1>2 DEF End
<1>3. CASE BeginUpload(c)
    BY <1>3 DEF BeginUpload
<1>4. CASE CreateFile(c)
    BY <1>4 DEF CreateFile
<1>5. CASE PutObject(c)
    <2>1. ver[c] \in Versions /\ Key(name[c], ver[c]) = ver[c] /\ Pending(c)
        BY <1>5, OwnKeys DEF PutObject, Placed, Id, Versions, Pending
    <2>2. rowOf[ver[c]] = 0
        BY <2>1 DEF Own
    <2>3. /\ stored' = [stored EXCEPT ![ver[c]] = ver[c]]
          /\ pc' = [pc EXCEPT ![c] = "save"]
          /\ UNCHANGED <<rowOf, content, condemned, ver, doomed>>
        BY <1>5, <2>1 DEF PutObject
    <2>4. stored \in [Versions -> Id]
        BY OwnKeys
    <2>5. stored'[ver[c]] = ver[c] /\ \A v \in Versions : v # ver[c] => stored'[v] = stored[v]
        BY <2>1, <2>3, <2>4
    <2>6. \A d \in Clients : pc'[d] = "save" => stored'[ver'[d]] = ver'[d]
        <3>1. SUFFICES ASSUME NEW d \in Clients, d # c, pc[d] = "save" PROVE stored'[ver[d]] = ver[d]
            BY <2>3, <2>5
        <3>2. ver[d] \in Versions
            BY <3>1 DEF Placed, Id, Versions
        <3> QED BY <2>5, <3>1, <3>2
    <2> QED BY <2>1, <2>3, <2>5, <2>6
<1>6. CASE SaveUpload(c)
    <2>1. ver[c] \in Versions /\ Key(name[c], ver[c]) = ver[c] /\ Pending(c)
        BY <1>6, OwnKeys DEF SaveUpload, Placed, Id, Versions, Pending
    <2>2. \A d \in Clients : ver[c] \notin doomed[d]
        BY <2>1 DEF Own
    <2>3. /\ rowOf' = [rowOf EXCEPT ![ver[c]] = file[c]]
          /\ content' = [content EXCEPT ![ver[c]] = ver[c]]
          /\ pc' = [pc EXCEPT ![c] = "purge"]
          /\ stored[ver[c]] = ver[c]
          /\ UNCHANGED <<stored, condemned, ver, doomed>>
        BY <1>6, <2>1 DEF SaveUpload
    <2> QED BY <2>1, <2>2, <2>3
<1>7. CASE ListSurplus(c)
    BY <1>7 DEF ListSurplus
<1>8. CASE DeleteContent(c)
    <2>1. ver[c] \in Versions /\ ver[c] \in doomed[c] /\ ver[c] \in condemned
        BY <1>8 DEF DeleteContent, Placed, Id, Versions
    <2>2. /\ stored' = [stored EXCEPT ![ver[c]] = 0]
          /\ pc' = [pc EXCEPT ![c] = "blank"]
          /\ UNCHANGED <<rowOf, content, condemned, ver, doomed>>
        BY <1>8, <2>1, OwnKeys DEF DeleteContent
    <2>3. \A d \in Clients : pc[d] = "save" => ver[d] # ver[c]
        BY <2>1 DEF Own, Pending
    <2> QED BY <2>1, <2>2, <2>3, OwnKeys
<1>9. CASE BlankContent(c)
    <2>1. ver[c] \in Versions /\ ver[c] \in condemned
        BY <1>9 DEF BlankContent, Placed, Id, Versions
    <2> QED BY <1>0, <1>9, <2>1 DEF BlankContent
<1>10. CASE SignalDeletion(c)
    BY <1>10 DEF SignalDeletion
<1>11. CASE CommitDeletion(c)
    <2>1. /\ rowOf' = [v \in Versions |-> IF v \in doomed[c] THEN 0 ELSE rowOf[v]]
          /\ pc' = [pc EXCEPT ![c] = "clean"] \/ pc' = [pc EXCEPT ![c] = "tally"]
          /\ UNCHANGED <<content, stored, condemned, ver, doomed>>
        BY <1>11 DEF CommitDeletion
    <2> QED BY <2>1
<1>12. CASE CleanObjects(c)
    <2> DEFINE gone == {content[v] : v \in doomed[c]}
    <2>1. \A v \in Versions : v \in gone => v \in doomed[c]
        BY <1>0
    <2>20. /\ stored' = [k \in Versions |-> IF k \in gone THEN 0 ELSE stored[k]]
           /\ UNCHANGED <<rowOf, content, condemned>>
           /\ pc[c] = "clean"
           /\ End(c) \/ (Goto(c, "tally") /\ UNCHANGED <<ver, doomed>>)
        BY <1>12, OwnKeys DEF CleanObjects
    <2>21. \A d \in Clients : \/ pc'[d] = pc[d] /\ ver'[d] = ver[d] /\ doomed'[d] = doomed[d]
                              \/ d = c /\ pc'[d] \in {"idle", "tally"}
        BY <2>20 DEF End
    <2>2. /\ stored' = [k \in Versions |-> IF k \in gone THEN 0 ELSE stored[k]]
          /\ UNCHANGED <<rowOf, content, condemned>>
          /\ pc[c] = "clean"
          /\ \A d \in Clients : \/ pc'[d] = pc[d] /\ ver'[d] = ver[d] /\ doomed'[d] = doomed[d]
                                \/ d = c /\ pc'[d] \in {"idle", "tally"}
        BY <2>20, <2>21
    <2>3. \A d \in Clients : pc[d] = "save" => ver[d] \notin doomed[c] /\ ver[d] \in Versions
        BY DEF Own, Pending, Placed, Id, Versions
    <2> HIDE DEF gone
    <2>4. \A d \in Clients : pc'[d] = "save" => stored'[ver'[d]] = ver'[d]
        BY <2>1, <2>2, <2>3
    <2>5. \A v \in Rows' \ condemned' : stored'[v] = v
        BY <2>1, <2>2
    <2> QED BY SMTT(30), <1>0, <2>2, <2>4, <2>5
<1>13. CASE Cascade(c)
    BY <1>13 DEF Cascade
<1> QED
    BY <1>1, <1>2, <1>3, <1>4, <1>5, <1>6, <1>7, <1>8, <1>9, <1>10, <1>11, <1>12, <1>13
    DEF Uploads, Deletes, CreateFails, UploadFails, NothingToPurge, DeletionFails, CascadeFails,
        Tally, TallyFails, Crash

\* Where every version has a key of its own (the versions of attachments may share
\* one), a version that no deletion by id was let loose on has its bytes, whatever
\* uploads, purges and deletions overlap and wherever they die.
THEOREM StoredVersionsAlways ==
    ASSUME Unversioned = {}
    PROVE  Spec => []StoredVersions
<1>1. Init => Bytes
    <2>1. Init => Rows = {}
        BY DEF Init, Rows
    <2> QED BY <2>1, OwnKeys DEF Init, Bytes
<1>2. ASSUME Types, Placed, Own, Bytes, [Next]_vars
      PROVE  Bytes'
    <2>1. CASE UNCHANGED vars
        BY <1>2, <2>1 DEF vars, Bytes, Rows
    <2>2. CASE Next
        BY <1>2, <2>2, NextIsAStep, BytesNext
    <2> QED BY <1>2, <2>1, <2>2
<1>3. ASSUME Types, Bytes PROVE StoredVersions
    <2>1. \A v \in Versions : v # 0
        BY DEF Versions
    <2> QED BY <1>3, <2>1 DEF StoredVersions, Types, Bytes, Rows
<1> QED BY <1>1, <1>2, <1>3, NumbersAlways, PTL DEF Spec

-----------------------------------------------------------------------------
(* The files                                                               *)

\* A file has one name; who inserts one has its name to itself.
OneName ==
    \A n, m \in Names : fileOf[n] = fileOf[m] /\ fileOf[n] # 0 => n = m

Insertion ==
    \A c, d \in Clients :
        pc[c] \in {"put", "save"} /\ Inserts(c) =>
            /\ fileOf[name[c]] = 0
            /\ pc[d] \in {"put", "save"} /\ Inserts(d) /\ name[d] = name[c] => d = c

\* A request that has read a file knows its name.
Named ==
    \A c \in Clients : pc[c] \in {"put", "save", "content", "blank", "cascade"} =>
        \A n \in Names : fileOf[n] = file[c] => n = name[c]

InHand(c) == pc[c] \in {"content", "blank", "cascade"}

\* The rows of a deletion are of its file, and whoever deletes them as well agrees.
Home ==
    \A c \in Clients : InHand(c) =>
        \A v \in doomed[c] :
            /\ rowOf[v] \in {0, file[c]}
            /\ \A d \in Clients : InHand(d) /\ v \in doomed[d] => file[d] = file[c]

\* An heir is worked out for a file that was there.
HeirsDrawn ==
    \A c \in Clients :
        /\ \A f \in DOMAIN heir[c] : f < nextVersion
        /\ \A d \in Clients : Pending(d) => ver[d] \notin DOMAIN heir[c]

Files == OneName /\ Insertion /\ Named /\ Home /\ HeirsDrawn

LEMMA FilesInit == Init => Files
BY DEF Init, Files, OneName, Insertion, Named, InHand, Home, HeirsDrawn, NoHeirs, Pending

\* Only an upload that inserts a File changes which file a name has, and it was free.
LEMMA SavedFile ==
    ASSUME Types, Placed, Insertion, NEW c \in Clients, SaveUpload(c)
    PROVE  \/ Inserts(c) /\ fileOf[name[c]] = 0
           \/ ~ Inserts(c) /\ fileOf' = fileOf
BY DEF Types, TypeOK, Placed, Insertion, SaveUpload

LEMMA OneNameNext ==
    ASSUME Types, Placed, Own, Insertion, OneName,
           NEW c \in Clients, Starts(c) \/ Uploads(c) \/ Deletes(c)
    PROVE  OneName'
<1> USE DEF Types, TypeOK, OneName
<1>1. CASE SaveUpload(c)
    <2>1. CASE Inserts(c)
        <3>1. \A n \in Names : fileOf[n] # file[c]
            BY <1>1, <2>1 DEF SaveUpload, Own, Pending, Inserts
        <3>2. fileOf' = [fileOf EXCEPT ![name[c]] = file[c]]
            BY <1>1 DEF SaveUpload
        <3> QED BY <3>1, <3>2
    <2> QED BY <1>1, <2>1, SavedFile
<1>2. CASE Cascade(c)
    BY <1>2 DEF Cascade
<1>3. CASE UNCHANGED fileOf
    BY <1>3
<1> QED
    BY <1>1, <1>2, <1>3
    DEF Starts, CheckUpload, CheckDeleteFile, CheckDeleteVersion, Uploads, Deletes, BeginUpload,
        CreateFile, CreateFails, PutObject, UploadFails, ListSurplus, NothingToPurge,
        DeleteContent, BlankContent, SignalDeletion, CommitDeletion, DeletionFails, CleanObjects,
        CascadeFails, Tally, TallyFails, Crash

LEMMA InsertionNext ==
    ASSUME Types, Placed, Drawn, Own, Insertion,
           NEW c \in Clients, Starts(c) \/ Uploads(c) \/ Deletes(c)
    PROVE  Insertion'
<1> USE DEF Types, TypeOK, Goto, Insertion, Inserts
<1>1. CASE BeginUpload(c)
    <2>1. /\ ver'[c] = nextVersion /\ file'[c] = fileOf[name[c]] /\ fileOf' = fileOf
          /\ \A d \in Clients \ {c} : ver'[d] = ver[d] /\ file'[d] = file[d] /\ pc'[d] = pc[d]
          /\ name' = name
        BY <1>1 DEF BeginUpload
    <2>2. fileOf[name[c]] \in Nat /\ fileOf[name[c]] < nextVersion
        BY DEF Drawn, Id
    <2>3. ~ Inserts(c)'
        BY <2>1, <2>2
    <2> QED BY <2>1, <2>3
<1>2. CASE CreateFile(c)
    BY <1>2 DEF CreateFile, Unclaimed
<1>3. CASE PutObject(c)
    BY <1>3 DEF PutObject
<1>4. CASE SaveUpload(c)
    <2>1. /\ pc' = [pc EXCEPT ![c] = "purge"] /\ pc[c] = "save"
          /\ fileOf' = [fileOf EXCEPT ![name[c]] = file[c]]
          /\ UNCHANGED <<name, ver, file>>
        BY <1>4 DEF SaveUpload
    <2> QED BY <1>4, <2>1, SavedFile
<1>5. CASE Cascade(c)
    BY <1>5 DEF Cascade
<1>6. ASSUME pc'[c] \notin {"put", "save"}, UNCHANGED fileOf,
             \A d \in Clients \ {c} :
                 pc'[d] = pc[d] /\ name'[d] = name[d] /\ ver'[d] = ver[d] /\ file'[d] = file[d]
      PROVE  Insertion'
    BY <1>6
<1>7. CASE Starts(c)
    BY <1>6, <1>7 DEF Starts, CheckUpload, CheckDeleteFile, CheckDeleteVersion
<1>8. CASE End(c) /\ UNCHANGED fileOf
    BY <1>6, <1>8 DEF End
<1>9. CASE ListSurplus(c) \/ DeleteContent(c) \/ BlankContent(c) \/ SignalDeletion(c)
    BY <1>6, <1>9 DEF ListSurplus, DeleteContent, BlankContent, SignalDeletion
<1>10. CASE CommitDeletion(c)
    BY <1>6, <1>10 DEF CommitDeletion
<1>11. CASE CleanObjects(c)
    BY <1>6, <1>8, <1>11 DEF CleanObjects
<1> QED
    BY <1>1, <1>2, <1>3, <1>4, <1>5, <1>7, <1>8, <1>9, <1>10, <1>11
    DEF Uploads, Deletes, CreateFails, UploadFails, NothingToPurge, DeletionFails, CascadeFails,
        Tally, TallyFails, Crash

LEMMA NamedNext ==
    ASSUME Types, Placed, Own, Insertion, OneName, Named,
           NEW c \in Clients, Starts(c) \/ Uploads(c) \/ Deletes(c)
    PROVE  Named'
<1> USE DEF Types, TypeOK, Goto, Named
<1>1. CASE BeginUpload(c)
    BY <1>1 DEF BeginUpload, OneName
<1>2. CASE CreateFile(c)
    BY <1>2 DEF CreateFile, Own, Pending
<1>3. CASE PutObject(c)
    BY <1>3 DEF PutObject
<1>4. CASE SaveUpload(c)
    <2>1. /\ pc' = [pc EXCEPT ![c] = "purge"] /\ pc[c] = "save"
          /\ fileOf' = [fileOf EXCEPT ![name[c]] = file[c]]
          /\ UNCHANGED <<name, ver, file>>
        BY <1>4 DEF SaveUpload
    <2>2. CASE Inserts(c)
        <3>1. \A d \in Clients \ {c} : file[d] # file[c]
            BY <2>1, <2>2 DEF Own, Pending, Inserts
        <3> QED BY <2>1, <3>1
    <2> QED BY <1>4, <2>1, <2>2, SavedFile
<1>5. CASE Cascade(c)
    BY <1>5 DEF Cascade, Placed
<1>6. CASE Starts(c)
    <2>1. PICK n \in Names :
            \/ CheckUpload(c, n)
            \/ CheckDeleteFile(c, n)
            \/ \E v \in Versions : CheckDeleteVersion(c, n, v)
        BY <1>6 DEF Starts
    <2>2. CASE CheckUpload(c, n)
        BY <2>2 DEF CheckUpload
    <2>3. CASE CheckDeleteFile(c, n)
        BY <2>3 DEF CheckDeleteFile, OneName
    <2>4. CASE \E v \in Versions : CheckDeleteVersion(c, n, v)
        BY <2>4 DEF CheckDeleteVersion, VersionsOf, OneName
    <2> QED BY <2>1, <2>2, <2>3, <2>4
<1>7. CASE End(c) /\ UNCHANGED fileOf
    BY <1>7 DEF End
<1>8. CASE ListSurplus(c) \/ DeleteContent(c) \/ BlankContent(c) \/ SignalDeletion(c)
    BY <1>8 DEF ListSurplus, DeleteContent, BlankContent, SignalDeletion
<1>9. CASE CommitDeletion(c)
    BY <1>9 DEF CommitDeletion
<1>10. CASE CleanObjects(c)
    BY <1>7, <1>10 DEF CleanObjects
<1> QED
    BY <1>1, <1>2, <1>3, <1>4, <1>5, <1>6, <1>7, <1>8, <1>9, <1>10
    DEF Uploads, Deletes, CreateFails, UploadFails, NothingToPurge, DeletionFails, CascadeFails,
        Tally, TallyFails, Crash

LEMMA HomeNext ==
    ASSUME Types, Placed, Own, Home,
           NEW c \in Clients, Starts(c) \/ Uploads(c) \/ Deletes(c)
    PROVE  Home'
<1> USE DEF Home, InHand
<1>0. ASSUME ~ InHand(c)', UNCHANGED rowOf,
             \A d \in Clients \ {c} : pc'[d] = pc[d] /\ file'[d] = file[d] /\ doomed'[d] = doomed[d]
      PROVE  Home'
    <2>1. \A d \in Clients : InHand(d)' => d # c /\ InHand(d)
        BY <1>0
    <2> QED BY <1>0, <2>1
<1> USE DEF Types, TypeOK, Goto
<1>1. CASE BeginUpload(c) \/ CreateFile(c) \/ PutObject(c) \/ ListSurplus(c) \/ SignalDeletion(c)
    BY <1>0, <1>1 DEF BeginUpload, CreateFile, PutObject, ListSurplus, SignalDeletion
<1>2. CASE End(c) /\ UNCHANGED rowOf
    BY <1>0, <1>2 DEF End
<1>3. CASE CleanObjects(c)
    BY <1>0, <1>2, <1>3 DEF CleanObjects
<1>4. CASE Starts(c)
    <2>1. PICK n \in Names :
            \/ CheckUpload(c, n)
            \/ CheckDeleteFile(c, n)
            \/ \E v \in Versions : CheckDeleteVersion(c, n, v)
        BY <1>4 DEF Starts
    <2>2. CASE CheckUpload(c, n)
        BY <1>0, <2>2 DEF CheckUpload
    <2>3. CASE CheckDeleteFile(c, n)
        <3>1. /\ pc' = [pc EXCEPT ![c] = "cascade"]
              /\ file' = [file EXCEPT ![c] = fileOf[n]]
              /\ doomed' = [doomed EXCEPT ![c] = VersionsOf(fileOf[n])]
              /\ rowOf' = rowOf
            BY <2>3 DEF CheckDeleteFile
        <3>2. \A v \in VersionsOf(fileOf[n]) : rowOf[v] = fileOf[n] /\ fileOf[n] # 0
            BY DEF VersionsOf
        <3> QED BY <3>1, <3>2
    <2>4. CASE \E v \in Versions : CheckDeleteVersion(c, n, v)
        <3>1. PICK v \in Versions : CheckDeleteVersion(c, n, v)
            BY <2>4
        <3>2. /\ pc' = [pc EXCEPT ![c] = IF content[v] = 0 THEN "signal" ELSE "content"]
              /\ file' = [file EXCEPT ![c] = fileOf[n]]
              /\ doomed' = [doomed EXCEPT ![c] = {v}]
              /\ rowOf' = rowOf
              /\ rowOf[v] = fileOf[n] /\ fileOf[n] # 0
            BY <3>1 DEF CheckDeleteVersion, VersionsOf
        <3> QED BY <3>2
    <2> QED BY <2>1, <2>2, <2>3, <2>4
<1>5. CASE SaveUpload(c)
    <2>1. /\ pc' = [pc EXCEPT ![c] = "purge"] /\ pc[c] = "save"
          /\ rowOf' = [rowOf EXCEPT ![ver[c]] = file[c]]
          /\ UNCHANGED <<file, doomed>>
        BY <1>5 DEF SaveUpload
    <2>2. \A d \in Clients : ver[c] \notin doomed[d]
        BY <2>1 DEF Own, Pending
    <2> QED BY <2>1, <2>2
<1>6. CASE DeleteContent(c)
    BY <1>6 DEF DeleteContent
<1>7. CASE BlankContent(c)
    <2>1. /\ pc' = [pc EXCEPT ![c] = "signal"] /\ pc[c] = "blank"
          /\ rowOf' = [rowOf EXCEPT ![ver[c]] = file[c]]
          /\ UNCHANGED <<file, doomed>>
        BY <1>7 DEF BlankContent
    <2>2. ver[c] \in doomed[c]
        BY <2>1 DEF Placed
    <2> QED BY <2>1, <2>2
<1>8. CASE CommitDeletion(c)
    BY <1>8 DEF CommitDeletion
<1>9. CASE Cascade(c)
    BY <1>9 DEF Cascade
<1> QED
    BY <1>1, <1>2, <1>3, <1>4, <1>5, <1>6, <1>7, <1>8, <1>9
    DEF Uploads, Deletes, CreateFails, UploadFails, NothingToPurge, DeletionFails, CascadeFails,
        Tally, TallyFails, Crash

LEMMA NumbersGrow == \A x, n \in Nat : x < n => x < n + 1 /\ x # n
    OBVIOUS

LEMMA HeirsDrawnNext ==
    ASSUME Types, Placed, Drawn, Own, HeirsDrawn,
           NEW c \in Clients, Starts(c) \/ Uploads(c) \/ Deletes(c)
    PROVE  HeirsDrawn'
<1> USE DEF Types, TypeOK, Goto
<1>1. CASE BeginUpload(c)
    <2>1. /\ nextVersion' = nextVersion + 1 /\ heir' = heir
          /\ ver'[c] = nextVersion
          /\ \A d \in Clients \ {c} : pc'[d] = pc[d] /\ ver'[d] = ver[d]
        BY <1>1 DEF BeginUpload
    <2>2. \A x \in Id : x < nextVersion => x < nextVersion + 1 /\ x # nextVersion
        <3>1. nextVersion \in Nat /\ Id \subseteq Nat
            BY FilesAssumption DEF Id
        <3> QED BY ONLY NumbersGrow, <3>1
    <2>3. \A d \in Clients : DOMAIN heir[d] \subseteq Id
        OBVIOUS
    <2>4. \A d \in Clients : \A f \in DOMAIN heir[d] : f < nextVersion + 1 /\ f # nextVersion
        BY <2>2, <2>3 DEF HeirsDrawn
    <2> QED BY <2>1, <2>4 DEF Pending, HeirsDrawn
<1> USE DEF HeirsDrawn
<1>2. CASE SignalDeletion(c)
    <2> DEFINE hit == {n \in Names : latest[n] \in doomed[c] \cap Rows}
    <2>1. PICK h \in [{fileOf[n] : n \in hit} -> Id] : heir' = [heir EXCEPT ![c] = h]
        BY <1>2 DEF SignalDeletion
    <2>2. \A f \in DOMAIN h : \E n \in Names : f = fileOf[n]
        BY <2>1
    <2>3. /\ UNCHANGED <<ver, nextVersion>>
          /\ \A d \in Clients : Pending(d)' => Pending(d)
        BY <1>2 DEF SignalDeletion, Pending
    <2>4. \A f \in DOMAIN h : f < nextVersion /\ \A d \in Clients : Pending(d) => ver[d] # f
        BY <2>2 DEF Drawn, Own
    <2> HIDE DEF hit
    <2>5. heir'[c] = h /\ \A d \in Clients \ {c} : heir'[d] = heir[d]
        BY <2>1
    <2> QED BY <2>3, <2>4, <2>5
<1>3. CASE End(c)
    BY <1>3 DEF End, NoHeirs, Pending
<1>4. ASSUME UNCHANGED <<heir, ver, nextVersion>>, \A d \in Clients : Pending(d)' => Pending(d)
      PROVE  HeirsDrawn'
    BY <1>4
<1>5. CASE Starts(c)
    <2>1. PICK n \in Names :
            \/ CheckUpload(c, n)
            \/ CheckDeleteFile(c, n)
            \/ \E v \in Versions : CheckDeleteVersion(c, n, v)
        BY <1>5 DEF Starts
    <2>2. CASE CheckUpload(c, n) \/ CheckDeleteFile(c, n)
        BY <1>4, <2>2 DEF CheckUpload, CheckDeleteFile, Pending
    <2>3. CASE \E v \in Versions : CheckDeleteVersion(c, n, v)
        BY <2>3 DEF CheckDeleteVersion, Pending
    <2> QED BY <2>1, <2>2, <2>3
<1>6. CASE CreateFile(c) \/ PutObject(c) \/ SaveUpload(c) \/ ListSurplus(c)
    BY <1>4, <1>6 DEF CreateFile, PutObject, SaveUpload, ListSurplus, Pending
<1>7. CASE DeleteContent(c) \/ BlankContent(c) \/ CommitDeletion(c) \/ Cascade(c)
    BY <1>4, <1>7 DEF DeleteContent, BlankContent, CommitDeletion, Cascade, Pending
<1>8. CASE CleanObjects(c)
    BY <1>3, <1>4, <1>8 DEF CleanObjects, Pending
<1> QED
    BY <1>1, <1>2, <1>3, <1>5, <1>6, <1>7, <1>8
    DEF Uploads, Deletes, CreateFails, UploadFails, NothingToPurge, DeletionFails, CascadeFails,
        Tally, TallyFails, Crash

LEMMA FilesNext ==
    ASSUME Types, Placed, Drawn, Own, Files,
           NEW c \in Clients, Starts(c) \/ Uploads(c) \/ Deletes(c)
    PROVE  Files'
BY OneNameNext, InsertionNext, NamedNext, HomeNext, HeirsDrawnNext DEF Files

-----------------------------------------------------------------------------
(* created_at                                                              *)

IsCreated(v) == \E i \in 1..Len(created) : created[i] = v

\* Every row has its created_at.
Stamped ==
    /\ \A v \in Rows : IsCreated(v)
    /\ \A c \in Clients : pc[c] = "save" => IsCreated(ver[c])

\* An INSERT gives the version its created_at and leaves those of the others.
LEMMA InsertedCreated ==
    ASSUME TypeOK, NEW v \in Versions, created' = Inserted(v)
    PROVE  IsCreated(v)' /\ \A w \in Versions : IsCreated(w) => IsCreated(w)'
BY InsertedType DEF IsCreated

LEMMA StampedNext ==
    ASSUME Types, Placed, Stamped, NEW c \in Clients, Starts(c) \/ Uploads(c) \/ Deletes(c)
    PROVE  Stamped'
<1> USE DEF Types, TypeOK, Goto, Stamped
<1>0. ASSUME UNCHANGED created, \A v \in Versions : rowOf'[v] # 0 => rowOf[v] # 0,
             pc'[c] # "save",
             \A d \in Clients \ {c} : pc'[d] = pc[d] /\ ver'[d] = ver[d]
      PROVE  Stamped'
    <2>1. \A v : IsCreated(v)' <=> IsCreated(v)
        BY <1>0 DEF IsCreated
    <2>2. \A v \in Rows' : v \in Rows
        BY <1>0 DEF Rows
    <2>3. \A d \in Clients : pc'[d] = "save" => IsCreated(ver'[d])
        BY <1>0
    <2>4. \A d \in Clients : pc'[d] = "save" => IsCreated(ver[d])'
        BY <2>1, <2>3, <1>0 DEF IsCreated
    <2> QED BY <2>1, <2>2, <2>4
<1>1. CASE PutObject(c)
    <2>1. ver[c] \in Versions
        BY <1>1 DEF PutObject, Placed, Id, Versions
    <2>2. created' = Inserted(ver[c]) /\ UNCHANGED <<rowOf, ver>>
          /\ \A d \in Clients \ {c} : pc'[d] = pc[d]
        BY <1>1 DEF PutObject
    <2>3. IsCreated(ver[c])' /\ \A v \in Versions : IsCreated(v) => IsCreated(v)'
        <3> DEFINE v == ver[c]
        <3>1. v \in Versions /\ created' = Inserted(v) /\ v' = v
            BY <2>1, <2>2
        <3>2. \A w \in Versions : created' = Inserted(w) =>
                  IsCreated(w)' /\ \A x \in Versions : IsCreated(x) => IsCreated(x)'
            BY InsertedCreated
        <3> QED BY <3>1, <3>2 DEF IsCreated
    <2>4. \A d \in Clients : pc[d] = "save" => ver[d] \in Versions
        BY DEF Placed, Id, Versions
    <2>5. \A d \in Clients : pc'[d] = "save" => IsCreated(ver[d])'
        BY <2>2, <2>3, <2>4
    <2> QED BY <2>2, <2>3, <2>5 DEF Rows, IsCreated
<1>2. CASE SaveUpload(c)
    <2>1. IsCreated(ver[c])
        BY <1>2 DEF SaveUpload
    <2> QED BY <1>2, <2>1 DEF SaveUpload, Rows, IsCreated
<1>3. CASE BlankContent(c)
    <2>1. ver[c] \in Versions
        BY <1>3 DEF BlankContent, Placed, Id, Versions
    <2>2. /\ created' = IF rowOf[ver[c]] = 0 THEN Inserted(ver[c]) ELSE created
          /\ rowOf' = [rowOf EXCEPT ![ver[c]] = file[c]] /\ ver' = ver
          /\ pc' = [pc EXCEPT ![c] = "signal"]
        BY <1>3 DEF BlankContent
    <2>30. /\ \E i \in 1..Len(created') : created'[i] = ver[c]
           /\ \A w \in Versions : (\E i \in 1..Len(created) : created[i] = w) =>
                          \E i \in 1..Len(created') : created'[i] = w
        <3>1. CASE rowOf[ver[c]] = 0
            <4>1. \A w \in Versions : created' = Inserted(w) =>
                      IsCreated(w)' /\ \A x \in Versions : IsCreated(x) => IsCreated(x)'
                BY InsertedCreated
            <4> QED BY <2>1, <2>2, <3>1, <4>1 DEF IsCreated
        <3>2. CASE rowOf[ver[c]] # 0
            BY <2>1, <2>2, <3>2 DEF IsCreated, Rows
        <3> QED BY <3>1, <3>2
    <2>3. IsCreated(ver[c])' /\ \A v \in Versions : IsCreated(v) => IsCreated(v)'
        BY <2>2, <2>30 DEF IsCreated
    <2>4. \A d \in Clients : pc[d] = "save" => ver[d] \in Versions
        BY DEF Placed, Id, Versions
    <2>5. \A d \in Clients : pc'[d] = "save" => IsCreated(ver[d])'
        BY <2>2, <2>3, <2>4
    <2>6. \A v \in Rows' : IsCreated(v)'
        BY <2>2, <2>3 DEF Rows
    <2> QED BY <2>2, <2>5, <2>6 DEF IsCreated
<1>4. CASE CommitDeletion(c) \/ Cascade(c)
    BY <1>0, <1>4 DEF CommitDeletion, Cascade
<1>5. CASE BeginUpload(c) \/ CreateFile(c) \/ ListSurplus(c) \/ DeleteContent(c) \/ SignalDeletion(c)
    BY <1>0, <1>5 DEF BeginUpload, CreateFile, ListSurplus, DeleteContent, SignalDeletion
<1>6. CASE Starts(c)
    BY <1>0, <1>6 DEF Starts, CheckUpload, CheckDeleteFile, CheckDeleteVersion
<1>7. CASE End(c) /\ UNCHANGED <<rowOf, created>>
    BY <1>0, <1>7 DEF End
<1>8. CASE CleanObjects(c)
    BY <1>0, <1>7, <1>8 DEF CleanObjects
<1> QED
    BY <1>1, <1>2, <1>3, <1>4, <1>5, <1>6, <1>7, <1>8
    DEF Uploads, Deletes, CreateFails, UploadFails, NothingToPurge, DeletionFails, CascadeFails,
        Tally, TallyFails, Crash

\* The purge leaves the version of a file that was created last.
LEMMA SurplusLeavesOne ==
    ASSUME Types, Stamped, NEW f \in Id, VersionsOf(f) # {}
    PROVE  \E v \in VersionsOf(f) : v \notin Surplus(f)
<1> DEFINE R == {z \in Nat \X Nat : z[1] < z[2]}
           L == Len(created)
           S == {L - Position(v) : v \in VersionsOf(f)}
<1>1. IsWellFoundedOn(R, Nat)
    BY NatLessThanWellFounded DEF OpToRel
<1>2. L \in Nat /\ \A v \in VersionsOf(f) : Position(v) \in 1..L
    <2>1. \A v \in VersionsOf(f) : IsCreated(v)
        BY DEF Stamped, VersionsOf, Rows
    <2> QED BY <2>1, PositionType DEF IsCreated, Types, TypeOK
<1>3. S \subseteq Nat /\ S # {}
    BY <1>2
<1> HIDE DEF R, L
<1>4. PICK x \in S : \A y \in S : ~ (<<y, x>> \in R)
    BY <1>1, <1>3, WFMin
<1>5. PICK v \in VersionsOf(f) : x = L - Position(v)
    BY <1>4
<1>6. \A w \in VersionsOf(f) : ~ (Position(w) > Position(v))
    <2>1. TAKE w \in VersionsOf(f)
    <2>2. L - Position(w) \in S
        OBVIOUS
    <2> HIDE DEF S
    <2>3. <<L - Position(w), x>> \in Nat \X Nat /\ ~ (<<L - Position(w), x>>[1] < <<L - Position(w), x>>[2])
        BY <1>3, <1>4, <2>2 DEF R
    <2>4. ~ (L - Position(w) < L - Position(v))
        BY <1>5, <2>3
    <2> QED BY <1>2, <2>4
<1>7. {w \in VersionsOf(f) : Position(w) > Position(v)} = {}
    BY <1>6
<1>8. Cardinality({w \in VersionsOf(f) : Position(w) > Position(v)}) = 0
    BY <1>7, FS_EmptySet
<1>9. ~ (0 >= KeepCount)
    BY FilesAssumption
<1>10. v \notin Surplus(f)
    BY <1>8, <1>9 DEF Surplus
<1> QED BY <1>10

LEMMA FilesAlways == Spec => [](Types /\ Placed /\ Drawn /\ Own /\ Files /\ Stamped)
<1>1. Init => Stamped
    BY DEF Init, Stamped, Rows
<1>2. ASSUME Types, Placed, Drawn, Own, Files, Stamped, [Next]_vars
      PROVE  (Files /\ Stamped)'
    <2>1. CASE UNCHANGED vars
        BY <1>2, <2>1
        DEF vars, Files, OneName, Insertion, Inserts, Named, InHand, Home, HeirsDrawn, Pending,
            Stamped, Rows, IsCreated
    <2>2. CASE Next
        BY <1>2, <2>2, NextIsAStep, FilesNext, StampedNext
    <2> QED BY <1>2, <2>1, <2>2
<1> QED BY <1>1, <1>2, FilesInit, NumbersAlways, PTL DEF Spec

-----------------------------------------------------------------------------
(* No file is emptied                                                      *)

Loose(c) == pc[c] \in {"content", "blank", "signal", "commit"}

\* A file that no two deletions overlapped in has a version, and one that a
\* deletion under way leaves.
Remain ==
    \A n \in Names : fileOf[n] # 0 /\ fileOf[n] \notin raced =>
        /\ VersionsOf(fileOf[n]) # {}
        /\ \A c \in Clients : Loose(c) => ~ (VersionsOf(fileOf[n]) \subseteq doomed[c])

\* There the row that a deletion by id is about to save is still the one it read.
NoReinsert ==
    \A c \in Clients :
        pc[c] \in {"content", "blank"} /\ file[c] \notin raced /\ fileOf[name[c]] = file[c] =>
            rowOf[ver[c]] = file[c]

Calm(n) == fileOf[n] # 0 /\ fileOf[n] \notin raced \cup shuffled

\* In a calm file the latest version is the last one.
LatestIsLast ==
    \A n \in Names : Calm(n) =>
        /\ latest[n] \in VersionsOf(fileOf[n])
        /\ \A v \in VersionsOf(fileOf[n]) : v <= latest[n]

\* And the heir that a handler worked out is the last one its deletion leaves.
HeirIsNext ==
    \A c \in Clients, n \in Names :
        pc[c] = "commit" /\ Calm(n) /\ fileOf[n] \in DOMAIN heir[c] =>
            /\ doomed[c] \cap VersionsOf(fileOf[n]) # {}
            /\ \A v \in VersionsOf(fileOf[n]) : v > heir[c][fileOf[n]] => v \in doomed[c]

LEMMA SaveRows ==
    ASSUME Types, Placed, Own, NEW c \in Clients, SaveUpload(c)
    PROVE  /\ ver[c] \in Versions /\ file[c] \in Id /\ file[c] # 0
           /\ VersionsOf(file[c])' = VersionsOf(file[c]) \cup {ver[c]}
           /\ \A f \in Id : f # file[c] => VersionsOf(f)' = VersionsOf(f)
           /\ \A d \in Clients : ver[c] \notin doomed[d]
<1> USE DEF Types, TypeOK
<1>1. ver[c] \in Versions /\ file[c] \in Id /\ file[c] # 0 /\ Pending(c)
    BY DEF SaveUpload, Placed, Id, Versions, Pending
<1>2. rowOf[ver[c]] = 0 /\ \A d \in Clients : ver[c] \notin doomed[d]
    BY <1>1 DEF Own
<1>3. rowOf' = [rowOf EXCEPT ![ver[c]] = file[c]] /\ file' = file
    BY DEF SaveUpload
<1>4. VersionsOf(file[c])' = VersionsOf(file[c]) \cup {ver[c]}
    BY <1>1, <1>3 DEF VersionsOf
<1>5. \A f \in Id : f # file[c] => VersionsOf(f)' = VersionsOf(f)
    BY <1>1, <1>2, <1>3 DEF VersionsOf
<1> QED BY <1>1, <1>2, <1>4, <1>5

\* The save of an emptied version changes the rows of raced files only.
LEMMA BlankRows ==
    ASSUME Types, Placed, Files, NoReinsert, NEW c \in Clients, BlankContent(c)
    PROVE  /\ \A f \in Id : VersionsOf(f) \subseteq VersionsOf(f)'
           /\ \A n \in Names : fileOf[n] # 0 /\ fileOf[n] \notin raced =>
                 VersionsOf(fileOf[n])' = VersionsOf(fileOf[n])
<1> USE DEF Types, TypeOK
<1>1. ver[c] \in Versions /\ doomed[c] = {ver[c]} /\ pc[c] = "blank"
    BY DEF BlankContent, Placed, Id, Versions
<1>2. /\ rowOf[ver[c]] # 0 \/ fileOf[name[c]] = file[c]
      /\ rowOf' = [rowOf EXCEPT ![ver[c]] = file[c]] /\ fileOf' = fileOf
    BY DEF BlankContent
<1>3. rowOf[ver[c]] \in {0, file[c]}
    BY <1>1 DEF Files, Home, InHand
<1>4. \A f \in Id : VersionsOf(f) \subseteq VersionsOf(f)'
    BY <1>1, <1>2, <1>3 DEF VersionsOf
<1>5. ASSUME NEW n \in Names, fileOf[n] # 0, fileOf[n] \notin raced
      PROVE  VersionsOf(fileOf[n])' = VersionsOf(fileOf[n])
    <2>1. CASE rowOf[ver[c]] = file[c]
        BY <1>1, <1>2, <2>1 DEF VersionsOf
    <2>2. CASE rowOf[ver[c]] # file[c]
        <3>1. file[c] \in raced
            BY <1>1, <1>2, <1>3, <2>2 DEF NoReinsert
        <3> QED BY <1>1, <1>2, <1>3, <1>5, <3>1 DEF VersionsOf
    <2> QED BY <2>1, <2>2
<1> QED BY <1>4, <1>5

\* The COMMIT of a deletion takes its rows, and notes whom it overlapped with.
LEMMA CommitRows ==
    ASSUME Types, NEW c \in Clients, CommitDeletion(c), NEW f \in Id
    PROVE  /\ VersionsOf(f)' = VersionsOf(f) \ doomed[c]
           /\ f \notin raced' => f \notin raced
           /\ \A d \in Clients : d # c /\ Loose(d) /\ f \notin raced'
                                 /\ doomed[c] \cap VersionsOf(f) # {} =>
                 doomed[d] \cap VersionsOf(f) = {}
<1> USE DEF Types, TypeOK
<1>1. /\ rowOf' = [v \in Versions |-> IF v \in doomed[c] THEN 0 ELSE rowOf[v]]
      /\ raced' = raced \cup {g \in {rowOf[v] : v \in doomed[c] \cap Rows} : Deleting(g) # {c}}
    BY DEF CommitDeletion
<1>2. VersionsOf(f)' = VersionsOf(f) \ doomed[c]
    BY <1>1 DEF VersionsOf
<1>3. ASSUME NEW d \in Clients, d # c, Loose(d), f \notin raced', doomed[c] \cap VersionsOf(f) # {}
      PROVE  doomed[d] \cap VersionsOf(f) = {}
    <2>1. f \in {rowOf[v] : v \in doomed[c] \cap Rows}
        BY <1>3 DEF VersionsOf, Rows
    <2>2. Deleting(f) = {c}
        BY <1>1, <1>3, <2>1
    <2>3. d \notin Deleting(f)
        BY <1>3, <2>2
    <2> QED BY <1>3, <2>3 DEF Deleting, Loose, VersionsOf
<1> QED BY <1>1, <1>2, <1>3

\* The deletion of a file leaves the rows of the others.
LEMMA CascadeRows ==
    ASSUME Types, Placed, Files, NEW c \in Clients, Cascade(c),
           NEW n \in Names, fileOf'[n] # 0
    PROVE  /\ fileOf'[n] = fileOf[n] /\ fileOf[n] # file[c]
           /\ latest'[n] = latest[n]
           /\ VersionsOf(fileOf[n])' = VersionsOf(fileOf[n])
<1> USE DEF Types, TypeOK
<1>1. /\ rowOf' = [v \in Versions |-> IF v \in doomed[c] THEN 0 ELSE rowOf[v]]
      /\ fileOf' = [fileOf EXCEPT ![name[c]] = IF @ = file[c] THEN 0 ELSE @]
      /\ latest' = [latest EXCEPT ![name[c]] = IF fileOf[name[c]] = file[c] THEN 0 ELSE @]
      /\ pc[c] = "cascade"
    BY DEF Cascade
<1>2. fileOf'[n] = fileOf[n] /\ ~ (n = name[c] /\ fileOf[n] = file[c])
    BY <1>1
<1>3. fileOf[n] # file[c]
    BY <1>1, <1>2 DEF Files, Named
<1>4. latest'[n] = latest[n]
    BY <1>1, <1>2
<1>5. \A v \in doomed[c] : rowOf[v] \in {0, file[c]}
    BY <1>1 DEF Files, Home, InHand
<1>6. {v \in Versions : rowOf'[v] = fileOf'[n] /\ fileOf'[n] # 0} = VersionsOf(fileOf[n])
    <2>1. \A v \in Versions : rowOf'[v] = fileOf[n] <=> rowOf[v] = fileOf[n]
        BY <1>1, <1>2, <1>3, <1>5
    <2> QED BY <1>2, <2>1 DEF VersionsOf
<1>7. VersionsOf(fileOf[n])' = VersionsOf(fileOf[n])
    BY <1>6 DEF VersionsOf
<1> QED BY <1>2, <1>3, <1>4, <1>7

\* A step that leaves the rows, the files and the deletions under way.
LEMMA RemainRest ==
    ASSUME Types, Remain, NEW c \in Clients, UNCHANGED <<fileOf, rowOf, raced>>,
           \A d \in Clients \ {c} : pc'[d] = pc[d] /\ doomed'[d] = doomed[d],
           Loose(c)' => Loose(c) /\ doomed[c] \cap Rows = doomed'[c] \cap Rows
    PROVE  Remain'
<1>1. \A f \in Id : VersionsOf(f)' = VersionsOf(f) /\ VersionsOf(f) \subseteq Rows
    BY DEF VersionsOf, Rows
<1>2. \A n \in Names : fileOf[n] \in Id
    BY DEF Types, TypeOK
<1>3. SUFFICES ASSUME NEW n \in Names, fileOf[n] # 0, fileOf[n] \notin raced
      PROVE  /\ VersionsOf(fileOf[n]) # {}
             /\ \A d \in Clients : Loose(d)' => ~ (VersionsOf(fileOf[n]) \subseteq doomed'[d])
    BY <1>1, <1>2 DEF Remain, VersionsOf
<1>4. ASSUME NEW d \in Clients, Loose(d)' PROVE ~ (VersionsOf(fileOf[n]) \subseteq doomed'[d])
    <2>1. CASE d = c
        <3>1. ~ (VersionsOf(fileOf[n]) \subseteq doomed[c])
            BY <1>3, <1>4, <2>1 DEF Remain
        <3> QED BY <1>1, <1>2, <1>4, <2>1, <3>1
    <2>2. CASE d # c
        BY <1>3, <1>4, <2>2 DEF Remain, Loose
    <2> QED BY <2>1, <2>2
<1> QED BY <1>3, <1>4 DEF Remain

LEMMA RemainNext ==
    ASSUME Types, Placed, Own, Files, Stamped, NoReinsert, Remain, OneName',
           NEW c \in Clients, Starts(c) \/ Uploads(c) \/ Deletes(c)
    PROVE  Remain'
<1> USE DEF Goto
<1>t. /\ fileOf \in [Names -> Id] /\ rowOf \in [Versions -> Id] /\ pc \in [Clients -> Places]
      /\ doomed \in [Clients -> SUBSET Versions]
    BY DEF Types, TypeOK, Places
<1>1. CASE Starts(c)
    <2>1. PICK n \in Names :
            \/ CheckUpload(c, n)
            \/ CheckDeleteFile(c, n)
            \/ \E v \in Versions : CheckDeleteVersion(c, n, v)
        BY <1>1 DEF Starts
    <2>2. CASE CheckUpload(c, n) \/ CheckDeleteFile(c, n)
        BY <1>t, <2>2, RemainRest DEF CheckUpload, CheckDeleteFile, Loose
    <2>3. CASE \E v \in Versions : CheckDeleteVersion(c, n, v)
        <3>1. PICK v \in Versions : CheckDeleteVersion(c, n, v)
            BY <2>3
        <3>2. /\ v \in VersionsOf(fileOf[n])
              /\ Cardinality(VersionsOf(fileOf[n])) > 1
              /\ doomed' = [doomed EXCEPT ![c] = {v}]
              /\ pc' = [pc EXCEPT ![c] = IF content[v] = 0 THEN "signal" ELSE "content"]
              /\ UNCHANGED <<fileOf, rowOf, raced>>
            BY <3>1 DEF CheckDeleteVersion, OthersRemain
        <3>3. ~ (VersionsOf(fileOf[n]) \subseteq {v})
            <4>1. SUFFICES ASSUME VersionsOf(fileOf[n]) = {v} PROVE FALSE
                BY <3>2
            <4> QED BY <3>2, <4>1, FS_Singleton
        <3>4. \A f \in Id : VersionsOf(f)' = VersionsOf(f)
            BY <3>2 DEF VersionsOf
        <3>5. ASSUME NEW m \in Names, fileOf[m] # 0, fileOf[m] \notin raced
              PROVE  /\ VersionsOf(fileOf[m]) # {}
                     /\ \A d \in Clients : Loose(d)' => ~ (VersionsOf(fileOf[m]) \subseteq doomed'[d])
            <4>1. CASE fileOf[m] = fileOf[n]
                BY <1>t, <3>2, <3>3, <3>5, <4>1 DEF Remain, Loose
            <4>2. CASE fileOf[m] # fileOf[n]
                <5>1. v \notin VersionsOf(fileOf[m])
                    BY <3>2, <4>2 DEF VersionsOf
                <5> QED BY <1>t, <3>2, <3>5, <5>1 DEF Remain, Loose
            <4> QED BY <4>1, <4>2
        <3> QED BY <1>t, <3>2, <3>4, <3>5 DEF Remain, VersionsOf
    <2> QED BY <2>1, <2>2, <2>3
<1>2. CASE End(c) /\ UNCHANGED <<fileOf, rowOf, raced>>
    BY <1>t, <1>2, RemainRest DEF End, Loose
<1>3. CASE BeginUpload(c) \/ CreateFile(c) \/ PutObject(c)
    BY <1>t, <1>3, RemainRest DEF BeginUpload, CreateFile, PutObject, Loose
<1>4. CASE DeleteContent(c) \/ SignalDeletion(c)
    <2>1. /\ UNCHANGED <<fileOf, rowOf, raced>>
          /\ \A d \in Clients \ {c} : pc'[d] = pc[d] /\ doomed'[d] = doomed[d]
          /\ Loose(c) /\ doomed[c] \cap Rows = doomed'[c] \cap Rows
        BY <1>t, <1>4 DEF DeleteContent, SignalDeletion, Loose
    <2> QED BY <2>1, RemainRest
<1>5. CASE CleanObjects(c)
    BY <1>t, <1>2, <1>5, RemainRest DEF CleanObjects, Loose
<1>6. CASE ListSurplus(c)
    <2> DEFINE surplus == UNION {Surplus(fileOf[n]) : n \in Names}
    <2>1. /\ UNCHANGED <<fileOf, rowOf, raced>>
          /\ doomed' = [doomed EXCEPT ![c] = surplus]
          /\ pc' = [pc EXCEPT ![c] = "signal"]
        BY <1>6 DEF ListSurplus
    <2>2. ASSUME NEW n \in Names, fileOf[n] # 0, fileOf[n] \notin raced
          PROVE  VersionsOf(fileOf[n]) # {} /\ ~ (VersionsOf(fileOf[n]) \subseteq surplus)
        <3>1. VersionsOf(fileOf[n]) # {}
            BY <2>2 DEF Remain
        <3>2. PICK v \in VersionsOf(fileOf[n]) : v \notin Surplus(fileOf[n])
            BY <1>t, <3>1, SurplusLeavesOne
        <3>3. \A m \in Names : v \in Surplus(fileOf[m]) => fileOf[m] = fileOf[n]
            BY <3>2 DEF Surplus, VersionsOf
        <3>4. v \notin surplus
            BY <3>2, <3>3
        <3> QED BY <3>1, <3>2, <3>4
    <2> HIDE DEF surplus
    <2>3. \A f \in Id : VersionsOf(f)' = VersionsOf(f)
        BY <2>1 DEF VersionsOf
    <2>4. ASSUME NEW n \in Names, fileOf[n] # 0, fileOf[n] \notin raced, NEW d \in Clients, Loose(d)'
          PROVE  ~ (VersionsOf(fileOf[n]) \subseteq doomed'[d])
        BY <1>t, <2>1, <2>2, <2>4 DEF Remain, Loose
    <2> QED BY <1>t, <2>1, <2>2, <2>3, <2>4 DEF Remain, VersionsOf
<1>7. CASE SaveUpload(c)
    <2>1. /\ pc' = [pc EXCEPT ![c] = "purge"]
          /\ fileOf' = [fileOf EXCEPT ![name[c]] = file[c]]
          /\ UNCHANGED <<doomed, raced>>
        BY <1>7 DEF SaveUpload
    <2>2. ASSUME NEW n \in Names, fileOf'[n] # 0, fileOf'[n] \notin raced
          PROVE  /\ VersionsOf(fileOf[n])' # {}
                 /\ \A d \in Clients : Loose(d)' => ~ (VersionsOf(fileOf[n])' \subseteq doomed[d])
        <3>1. CASE fileOf'[n] = file[c]
            <4>1. ver[c] \in VersionsOf(fileOf[n])'
                <5>1. VersionsOf(fileOf[n])' = VersionsOf(file[c])'
                    BY <1>7, <3>1 DEF VersionsOf, SaveUpload
                <5> QED BY <1>7, <5>1, SaveRows
            <4> QED BY <1>7, <4>1, SaveRows
        <3>2. CASE fileOf'[n] # file[c]
            <4>1. fileOf'[n] = fileOf[n]
                BY <1>t, <2>1, <3>2
            <4>2. VersionsOf(fileOf[n])' = VersionsOf(fileOf[n])
                <5>1. \A f \in Id : f # file[c] => {v \in Versions : rowOf'[v] = f /\ f # 0} = VersionsOf(f)
                    BY <1>7, SaveRows DEF VersionsOf
                <5> QED BY <1>t, <3>2, <4>1, <5>1 DEF VersionsOf
            <4> QED BY <1>t, <2>1, <2>2, <4>1, <4>2 DEF Remain, Loose
        <3> QED BY <3>1, <3>2
    <2> QED BY <2>1, <2>2 DEF Remain
<1>8. CASE BlankContent(c)
    <2>1. /\ UNCHANGED <<fileOf, doomed, raced>>
          /\ \A d \in Clients : Loose(d)' => Loose(d)
        BY <1>t, <1>8 DEF BlankContent, Loose
    <2>2. \A n \in Names : fileOf[n] # 0 /\ fileOf[n] \notin raced =>
              VersionsOf(fileOf[n])' = VersionsOf(fileOf[n])
        BY <1>8, BlankRows
    <2> QED BY <2>1, <2>2 DEF Remain
<1>9. CASE CommitDeletion(c)
    <2>1. /\ UNCHANGED <<fileOf, doomed>> /\ Loose(c)
          /\ \A d \in Clients : Loose(d)' => d # c /\ Loose(d)
        BY <1>t, <1>9 DEF CommitDeletion, Loose
    <2>2. ASSUME NEW n \in Names, fileOf[n] # 0, fileOf[n] \notin raced'
          PROVE  /\ VersionsOf(fileOf[n])' # {}
                 /\ \A d \in Clients : Loose(d)' => ~ (VersionsOf(fileOf[n])' \subseteq doomed[d])
        <3> DEFINE f == fileOf[n]
        <3>1. f \in Id /\ VersionsOf(f)' = VersionsOf(f) \ doomed[c] /\ f \notin raced
            <4>1. \A g \in Id : /\ {v \in Versions : rowOf'[v] = g /\ g # 0} = VersionsOf(g) \ doomed[c]
                                /\ g \notin raced' => g \notin raced
                BY <1>9, CommitRows DEF VersionsOf
            <4> QED BY <1>t, <2>1, <2>2, <4>1 DEF VersionsOf
        <3>2. VersionsOf(f) # {} /\ \A d \in Clients : Loose(d) => ~ (VersionsOf(f) \subseteq doomed[d])
            BY <2>2, <3>1 DEF Remain
        <3>3. VersionsOf(f) \ doomed[c] # {}
            BY <2>1, <3>2
        <3>4. ASSUME NEW d \in Clients, Loose(d)'
              PROVE  ~ (VersionsOf(f) \ doomed[c] \subseteq doomed[d])
            <4>1. d # c /\ Loose(d)
                BY <2>1, <3>4
            <4>2. CASE doomed[c] \cap VersionsOf(f) = {}
                BY <3>2, <4>1, <4>2
            <4>3. CASE doomed[c] \cap VersionsOf(f) # {}
                <5>1. doomed[d] \cap VersionsOf(f) = {}
                    BY <1>9, <2>2, <3>1, <4>1, <4>3, CommitRows
                <5> QED BY <3>3, <5>1
            <4> QED BY <4>2, <4>3
        <3> QED BY <3>1, <3>3, <3>4
    <2> QED BY <2>1, <2>2 DEF Remain
<1>10. CASE Cascade(c)
    <2>1. /\ UNCHANGED <<doomed, raced>>
          /\ \A d \in Clients : Loose(d)' => Loose(d)
        BY <1>t, <1>10 DEF Cascade, Loose
    <2>2. \A n \in Names : fileOf'[n] # 0 =>
              fileOf'[n] = fileOf[n] /\ VersionsOf(fileOf[n])' = VersionsOf(fileOf[n])
        BY <1>10, CascadeRows
    <2> QED BY <2>1, <2>2 DEF Remain
<1> QED
    BY <1>1, <1>2, <1>3, <1>4, <1>5, <1>6, <1>7, <1>8, <1>9, <1>10
    DEF Uploads, Deletes, CreateFails, UploadFails, NothingToPurge, DeletionFails, CascadeFails,
        Tally, TallyFails, Crash

LEMMA NoReinsertNext ==
    ASSUME Types, Placed, Own, Files, NoReinsert,
           NEW c \in Clients, Starts(c) \/ Uploads(c) \/ Deletes(c)
    PROVE  NoReinsert'
<1> USE DEF Types, TypeOK, Goto, NoReinsert
<1>0. ASSUME UNCHANGED <<rowOf, fileOf, raced>>, pc'[c] \notin {"content", "blank"},
             \A d \in Clients \ {c} : pc'[d] = pc[d] /\ name'[d] = name[d]
                                      /\ ver'[d] = ver[d] /\ file'[d] = file[d]
      PROVE  NoReinsert'
    BY <1>0
<1>1. CASE Starts(c)
    <2>1. PICK n \in Names :
            \/ CheckUpload(c, n)
            \/ CheckDeleteFile(c, n)
            \/ \E v \in Versions : CheckDeleteVersion(c, n, v)
        BY <1>1 DEF Starts
    <2>2. CASE CheckUpload(c, n) \/ CheckDeleteFile(c, n)
        BY <1>0, <2>2 DEF CheckUpload, CheckDeleteFile
    <2>3. CASE \E v \in Versions : CheckDeleteVersion(c, n, v)
        BY <2>3 DEF CheckDeleteVersion, VersionsOf
    <2> QED BY <2>1, <2>2, <2>3
<1>2. CASE End(c) /\ UNCHANGED <<rowOf, fileOf, raced>>
    BY <1>0, <1>2 DEF End
<1>3. CASE BeginUpload(c) \/ CreateFile(c) \/ PutObject(c) \/ ListSurplus(c) \/ SignalDeletion(c)
    BY <1>0, <1>3 DEF BeginUpload, CreateFile, PutObject, ListSurplus, SignalDeletion
<1>4. CASE CleanObjects(c)
    BY <1>0, <1>2, <1>4 DEF CleanObjects
<1>5. CASE DeleteContent(c)
    BY <1>5 DEF DeleteContent
<1>6. SUFFICES ASSUME SaveUpload(c) \/ BlankContent(c) \/ CommitDeletion(c) \/ Cascade(c),
                      NEW d \in Clients, pc'[d] \in {"content", "blank"},
                      file'[d] \notin raced', fileOf'[name'[d]] = file'[d]
               PROVE  rowOf'[ver'[d]] = file'[d]
    BY <1>1, <1>2, <1>3, <1>4, <1>5
    DEF Uploads, Deletes, CreateFails, UploadFails, NothingToPurge, DeletionFails, CascadeFails,
        Tally, TallyFails, Crash
<1>7. /\ d # c /\ pc[d] \in {"content", "blank"} /\ doomed[d] = {ver[d]} /\ ver[d] \in Versions
      /\ file[d] # 0 /\ UNCHANGED <<name, ver, file>>
    BY <1>6
    DEF SaveUpload, BlankContent, CommitDeletion, Cascade, Placed, Id, Versions
<1>8. CASE SaveUpload(c)
    <2>1. ver[c] # ver[d] /\ (Inserts(c) => file[c] # file[d])
        BY <1>7, <1>8 DEF Own, Pending, SaveUpload, Inserts
    <2>2. fileOf' = [fileOf EXCEPT ![name[c]] = file[c]] /\ raced' = raced
          /\ rowOf' = [rowOf EXCEPT ![ver[c]] = file[c]]
        BY <1>8 DEF SaveUpload
    <2>3. fileOf[name[d]] = file[d]
        BY <1>6, <1>7, <1>8, <2>1, <2>2, SavedFile DEF Files
    <2> QED BY <1>6, <1>7, <2>1, <2>2, <2>3
<1>9. CASE BlankContent(c)
    <2>1. doomed[c] = {ver[c]} /\ pc[c] = "blank" /\ UNCHANGED <<fileOf, raced>>
          /\ rowOf' = [rowOf EXCEPT ![ver[c]] = file[c]]
        BY <1>9 DEF BlankContent, Placed
    <2>2. ver[c] = ver[d] => file[c] = file[d]
        BY <1>7, <2>1 DEF Files, Home, InHand
    <2> QED BY <1>6, <1>7, <2>1, <2>2
<1>10. CASE CommitDeletion(c)
    <2>1. UNCHANGED fileOf /\ file[d] \in Id
          /\ rowOf' = [v \in Versions |-> IF v \in doomed[c] THEN 0 ELSE rowOf[v]]
        BY <1>10 DEF CommitDeletion
    <2>2. file[d] \notin raced
        BY <1>6, <1>7, <1>10 DEF CommitDeletion
    <2>3. rowOf[ver[d]] = file[d]
        BY <1>6, <1>7, <2>1, <2>2
    <2>4. ver[d] \in VersionsOf(file[d])
        BY <1>7, <2>3 DEF VersionsOf
    <2>5. ver[d] \notin doomed[c]
        <3>1. SUFFICES ASSUME ver[d] \in doomed[c] PROVE FALSE
            OBVIOUS
        <3>2. doomed[d] \cap VersionsOf(file[d]) = {}
            BY <1>6, <1>7, <1>10, <2>1, <2>4, <3>1, CommitRows DEF Loose
        <3> QED BY <1>7, <2>4, <3>2
    <2> QED BY <1>7, <2>1, <2>3, <2>5
<1>11. CASE Cascade(c)
    <2>1. /\ rowOf' = [v \in Versions |-> IF v \in doomed[c] THEN 0 ELSE rowOf[v]]
          /\ pc[c] = "cascade" /\ raced' = raced
        BY <1>11 DEF Cascade
    <2>2. fileOf[name[d]] = file[d] /\ file[d] # file[c]
        BY <1>6, <1>7, <1>11, CascadeRows
    <2>3. rowOf[ver[d]] = file[d]
        BY <1>6, <1>7, <2>1, <2>2
    <2>4. ver[d] \notin doomed[c]
        BY <1>7, <2>1, <2>2 DEF Files, Home, InHand
    <2> QED BY <1>7, <2>1, <2>3, <2>4
<1> QED BY <1>6, <1>8, <1>9, <1>10, <1>11

\* The rows of a file that is calm after a step of a deletion are those from before it.
LEMMA CalmRows ==
    ASSUME Types, Placed, Files, NoReinsert, NEW c \in Clients,
           BlankContent(c) \/ Cascade(c), NEW n \in Names, Calm(n)'
    PROVE  /\ Calm(n) /\ fileOf'[n] = fileOf[n] /\ latest'[n] = latest[n]
           /\ VersionsOf(fileOf[n])' = VersionsOf(fileOf[n])
<1>1. CASE BlankContent(c)
    <2>1. UNCHANGED <<fileOf, latest, raced, shuffled>>
        BY <1>1 DEF BlankContent
    <2> QED BY <1>1, <2>1, BlankRows DEF Calm
<1>2. CASE Cascade(c)
    <2>1. UNCHANGED <<raced, shuffled>> /\ fileOf'[n] # 0
        BY <1>2 DEF Cascade, Calm
    <2> QED BY <1>2, <2>1, CascadeRows DEF Calm
<1> QED BY <1>1, <1>2

LEMMA LatestIsLastNext ==
    ASSUME Types, Placed, Own, Files, OneName', NoReinsert, Remain, LatestIsLast, HeirIsNext,
           NEW c \in Clients, Starts(c) \/ Uploads(c) \/ Deletes(c)
    PROVE  LatestIsLast'
<1> USE DEF Goto
<1>t. /\ fileOf \in [Names -> Id] /\ latest \in [Names -> Id] /\ name \in [Clients -> Names]
      /\ file \in [Clients -> Id]
    BY DEF Types, TypeOK
<1>1. CASE UNCHANGED <<fileOf, rowOf, latest, raced, shuffled>>
    BY <1>1 DEF LatestIsLast, Calm, VersionsOf
<1>2. CASE BlankContent(c) \/ Cascade(c)
    <2>1. SUFFICES ASSUME NEW n \in Names, Calm(n)'
          PROVE  /\ latest'[n] \in VersionsOf(fileOf[n])'
                 /\ \A v \in VersionsOf(fileOf[n])' : v <= latest'[n]
        BY DEF LatestIsLast
    <2>2. /\ Calm(n) /\ latest'[n] = latest[n]
          /\ VersionsOf(fileOf[n])' = VersionsOf(fileOf[n])
        BY <1>2, <2>1, CalmRows
    <2> QED BY <2>2 DEF LatestIsLast
<1>3. CASE SaveUpload(c)
    <2>1. /\ fileOf' = [fileOf EXCEPT ![name[c]] = file[c]]
          /\ latest' = [latest EXCEPT ![name[c]] = ver[c]]
          /\ shuffled \subseteq shuffled' /\ raced' = raced
          /\ (\E w \in VersionsOf(file[c]) : w > ver[c]) => file[c] \in shuffled'
        BY <1>3 DEF SaveUpload
    <2>2. ASSUME NEW n \in Names, Calm(n)'
          PROVE  /\ latest'[n] \in VersionsOf(fileOf[n])'
                 /\ \A v \in VersionsOf(fileOf[n])' : v <= latest'[n]
        <3>0. \A f \in Id : fileOf'[n] = f =>
                  VersionsOf(fileOf[n])' = {v \in Versions : rowOf'[v] = f /\ f # 0}
            BY DEF VersionsOf
        <3>1. CASE n = name[c]
            <4>1. fileOf'[n] = file[c] /\ latest'[n] = ver[c]
                BY <1>t, <2>1, <3>1
            <4>2. VersionsOf(fileOf[n])' = VersionsOf(file[c]) \cup {ver[c]}
                <5>1. {v \in Versions : rowOf'[v] = file[c] /\ file[c] # 0}
                        = VersionsOf(file[c]) \cup {ver[c]}
                    <6>1. VersionsOf(file[c])' = VersionsOf(file[c]) \cup {ver[c]} /\ file' = file
                        BY <1>3, SaveRows DEF SaveUpload
                    <6> QED BY <6>1 DEF VersionsOf
                <5> QED BY <1>t, <3>0, <4>1, <5>1
            <4>3. ver[c] \in Versions
                BY <1>3, SaveRows
            <4>4. \A w \in VersionsOf(file[c]) : w <= ver[c]
                BY <2>1, <2>2, <4>1, <4>3 DEF Calm, VersionsOf, Versions
            <4> QED BY <4>1, <4>2, <4>3, <4>4 DEF Versions
        <3>2. CASE n # name[c]
            <4>1. fileOf'[n] = fileOf[n] /\ latest'[n] = latest[n] /\ fileOf'[name[c]] = file[c]
                BY <1>t, <2>1, <3>2
            <4>2. fileOf[n] # file[c]
                BY <1>t, <2>2, <3>2, <4>1 DEF OneName, Calm
            <4>3. Calm(n)
                BY <2>1, <2>2, <4>1 DEF Calm
            <4>4. VersionsOf(fileOf[n])' = VersionsOf(fileOf[n])
                <5>1. \A f \in Id : f # file[c] =>
                          {v \in Versions : rowOf'[v] = f /\ f # 0} = VersionsOf(f)
                    BY <1>3, SaveRows DEF VersionsOf
                <5> QED BY <1>t, <3>0, <4>1, <4>2, <5>1
            <4> QED BY <4>1, <4>3, <4>4 DEF LatestIsLast
        <3> QED BY <3>1, <3>2
    <2> QED BY <2>2 DEF LatestIsLast
<1>4. CASE CommitDeletion(c)
    <2>1. /\ fileOf' = fileOf /\ latest' = NewLatest(c) /\ shuffled' = shuffled
          /\ \A n \in Names : NewLatest(c)[n] \in {0} \cup (VersionsOf(fileOf[n]) \ doomed[c])
          /\ Loose(c) /\ pc[c] = "commit"
        BY <1>4 DEF CommitDeletion, ForeignKeysHold, Loose
    <2>2. ASSUME NEW n \in Names, Calm(n)'
          PROVE  /\ latest'[n] \in VersionsOf(fileOf[n])'
                 /\ \A v \in VersionsOf(fileOf[n])' : v <= latest'[n]
        <3> DEFINE f == fileOf[n]
        <3>1. /\ Calm(n) /\ f \in Id /\ f # 0 /\ f \notin raced
              /\ VersionsOf(fileOf[n])' = VersionsOf(f) \ doomed[c]
            <4>1. \A g \in Id : /\ {v \in Versions : rowOf'[v] = g /\ g # 0} = VersionsOf(g) \ doomed[c]
                                /\ g \notin raced' => g \notin raced
                BY <1>4, CommitRows DEF VersionsOf
            <4> QED BY <1>t, <2>1, <2>2, <4>1 DEF VersionsOf, Calm
        <3>2. latest[n] \in VersionsOf(f) /\ \A v \in VersionsOf(f) : v <= latest[n]
            BY <3>1 DEF LatestIsLast
        <3>3. VersionsOf(f) \subseteq 1..MaxVersion /\ ~ (VersionsOf(f) \subseteq doomed[c])
            BY <2>1, <3>1 DEF VersionsOf, Versions, Remain
        <3>4. latest'[n] = IF f \in DOMAIN heir[c] THEN heir[c][f] ELSE latest[n]
            BY <2>1 DEF NewLatest
        <3>5. latest'[n] \in {0} \cup (VersionsOf(f) \ doomed[c])
            BY <2>1
        <3>6. CASE f \in DOMAIN heir[c]
            <4>1. \A v \in VersionsOf(f) : v > latest'[n] => v \in doomed[c]
                BY <2>1, <3>1, <3>4, <3>6 DEF HeirIsNext
            <4>2. latest'[n] # 0
                BY <3>3, <4>1
            <4> QED BY <3>1, <3>3, <3>5, <4>1, <4>2
        <3>7. CASE f \notin DOMAIN heir[c]
            BY <3>1, <3>2, <3>3, <3>4, <3>5, <3>7
        <3> QED BY <3>6, <3>7
    <2> QED BY <2>2 DEF LatestIsLast
<1>5. CASE Starts(c)
    BY <1>1, <1>5 DEF Starts, CheckUpload, CheckDeleteFile, CheckDeleteVersion
<1> QED
    BY <1>1, <1>2, <1>3, <1>4, <1>5
    DEF Uploads, Deletes, BeginUpload, CreateFile, CreateFails, PutObject, UploadFails, ListSurplus,
        NothingToPurge, DeleteContent, SignalDeletion, DeletionFails, CleanObjects, CascadeFails,
        Tally, TallyFails, Crash

LEMMA HeirIsNextNext ==
    ASSUME Types, Placed, Own, Files, NoReinsert, LatestIsLast, HeirIsNext,
           NEW c \in Clients, Starts(c) \/ Uploads(c) \/ Deletes(c)
    PROVE  HeirIsNext'
<1> USE DEF Goto
<1>t. /\ fileOf \in [Names -> Id] /\ latest \in [Names -> Id] /\ pc \in [Clients -> Places]
      /\ doomed \in [Clients -> SUBSET Versions] /\ DOMAIN heir = Clients
      /\ file \in [Clients -> Id] /\ name \in [Clients -> Names]
    BY DEF Types, TypeOK, Places
<1>1. ASSUME UNCHANGED <<fileOf, rowOf, raced, shuffled>>, pc'[c] # "commit",
             \A d \in Clients \ {c} : pc'[d] = pc[d] /\ doomed'[d] = doomed[d] /\ heir'[d] = heir[d]
      PROVE  HeirIsNext'
    <2>1. \A n \in Names : Calm(n)' = Calm(n) /\ VersionsOf(fileOf[n])' = VersionsOf(fileOf[n])
        BY <1>1 DEF Calm, VersionsOf
    <2>2. SUFFICES ASSUME NEW d \in Clients, NEW n \in Names, pc'[d] = "commit", Calm(n)',
                          fileOf[n] \in DOMAIN heir'[d]
                   PROVE  /\ doomed'[d] \cap VersionsOf(fileOf[n]) # {}
                          /\ \A v \in VersionsOf(fileOf[n]) : v > heir'[d][fileOf[n]] => v \in doomed'[d]
        BY <1>1, <2>1 DEF HeirIsNext
    <2> QED BY <1>1, <2>1, <2>2 DEF HeirIsNext
<1>2. CASE SignalDeletion(c)
    <2> DEFINE rows == doomed[c] \cap Rows
               hit == {n \in Names : latest[n] \in rows}
    <2>1. PICK h \in [{fileOf[n] : n \in hit} -> Id] :
              /\ \A n \in hit : h[fileOf[n]] \in Heirs(fileOf[n], latest[n], rows)
              /\ heir' = [heir EXCEPT ![c] = h]
        BY <1>2 DEF SignalDeletion
    <2>2. /\ UNCHANGED <<fileOf, rowOf, raced, shuffled>>
          /\ pc' = [pc EXCEPT ![c] = "commit"]
          /\ doomed' = [doomed EXCEPT ![c] = rows]
        BY <1>2 DEF SignalDeletion
    <2>3. \A n \in Names : Calm(n)' = Calm(n) /\ VersionsOf(fileOf[n])' = VersionsOf(fileOf[n])
        BY <2>2 DEF Calm, VersionsOf
    <2>4. ASSUME NEW n \in Names, Calm(n), fileOf[n] \in DOMAIN h
          PROVE  /\ rows \cap VersionsOf(fileOf[n]) # {}
                 /\ \A v \in VersionsOf(fileOf[n]) : v > h[fileOf[n]] => v \in rows
        <3>1. PICK m \in hit : fileOf[m] = fileOf[n]
            BY <2>1, <2>4
        <3>2. m = n
            BY <2>4, <3>1 DEF Files, OneName, Calm
        <3>3. n \in hit /\ latest[n] \in rows
            BY <3>1, <3>2
        <3>4. latest[n] \in VersionsOf(fileOf[n]) /\ \A v \in VersionsOf(fileOf[n]) : v <= latest[n]
            BY <2>4 DEF LatestIsLast
        <3>5. h[fileOf[n]] \in Heirs(fileOf[n], latest[n], rows)
            BY <2>1, <3>3
        <3> HIDE DEF hit, rows
        <3>6. \A x \in VersionsOf(fileOf[n]) : x < latest[n] /\ h[fileOf[n]] < x => x \in rows
            BY <3>5 DEF Heirs
        <3>7. h[fileOf[n]] \in Id
            BY <2>1, <2>4
        <3>8. VersionsOf(fileOf[n]) \subseteq Versions
            BY DEF VersionsOf
        <3>9. ASSUME NEW v \in VersionsOf(fileOf[n]), v > h[fileOf[n]] PROVE v \in rows
            <4>1. v = latest[n] \/ v < latest[n]
                BY <3>4, <3>8 DEF Versions
            <4>2. h[fileOf[n]] < v
                BY <3>7, <3>8, <3>9 DEF Versions, Id
            <4> QED BY <3>3, <3>6, <4>1, <4>2
        <3> QED BY <3>3, <3>4, <3>9
    <2> HIDE DEF rows, hit
    <2>5. /\ heir'[c] = h /\ doomed'[c] = rows
          /\ \A d \in Clients \ {c} : pc'[d] = pc[d] /\ doomed'[d] = doomed[d] /\ heir'[d] = heir[d]
        BY <1>t, <2>1, <2>2
    <2>6. SUFFICES ASSUME NEW d \in Clients, NEW n \in Names, pc'[d] = "commit", Calm(n),
                          fileOf[n] \in DOMAIN heir'[d]
                   PROVE  /\ doomed'[d] \cap VersionsOf(fileOf[n]) # {}
                          /\ \A v \in VersionsOf(fileOf[n]) : v > heir'[d][fileOf[n]] => v \in doomed'[d]
        BY <2>2, <2>3 DEF HeirIsNext
    <2>7. CASE d = c
        BY <2>4, <2>5, <2>6, <2>7
    <2>8. CASE d # c
        BY <2>5, <2>6, <2>8 DEF HeirIsNext
    <2> QED BY <2>7, <2>8
<1>3. CASE BlankContent(c) \/ Cascade(c)
    <2>1. /\ UNCHANGED <<doomed, heir>>
          /\ \A d \in Clients : pc'[d] = "commit" => pc[d] = "commit"
        BY <1>t, <1>3 DEF BlankContent, Cascade
    <2>2. \A n \in Names : Calm(n)' => Calm(n) /\ fileOf'[n] = fileOf[n]
                                       /\ VersionsOf(fileOf[n])' = VersionsOf(fileOf[n])
        BY <1>3, CalmRows
    <2> QED BY <2>1, <2>2 DEF HeirIsNext
<1>4. CASE SaveUpload(c)
    <2>1. /\ fileOf' = [fileOf EXCEPT ![name[c]] = file[c]]
          /\ pc' = [pc EXCEPT ![c] = "purge"]
          /\ shuffled \subseteq shuffled' /\ raced' = raced
          /\ (\E d \in Deleting(file[c]) : pc[d] = "commit") => file[c] \in shuffled'
          /\ UNCHANGED <<doomed, heir, file>>
        BY <1>4 DEF SaveUpload
    <2>2. SUFFICES ASSUME NEW d \in Clients, NEW n \in Names, pc[d] = "commit", Calm(n)',
                          fileOf'[n] \in DOMAIN heir[d]
                   PROVE  /\ doomed[d] \cap VersionsOf(fileOf[n])' # {}
                          /\ \A v \in VersionsOf(fileOf[n])' : v > heir[d][fileOf'[n]] => v \in doomed[d]
        BY <1>t, <2>1 DEF HeirIsNext
    <2>3. fileOf'[n] = fileOf[n]
        <3>1. SUFFICES ASSUME n = name[c], Inserts(c) PROVE FALSE
            BY <1>t, <1>4, <2>1, SavedFile DEF Files
        <3>2. fileOf'[n] = ver[c]
            BY <1>t, <2>1, <3>1 DEF Inserts
        <3>3. ver[c] \notin DOMAIN heir[d]
            BY <1>4 DEF Files, HeirsDrawn, Pending, SaveUpload
        <3> QED BY <2>2, <3>2, <3>3
    <2>4. Calm(n)
        BY <2>1, <2>2, <2>3 DEF Calm
    <2>5. /\ doomed[d] \cap VersionsOf(fileOf[n]) # {}
          /\ \A v \in VersionsOf(fileOf[n]) : v > heir[d][fileOf[n]] => v \in doomed[d]
        BY <2>2, <2>3, <2>4 DEF HeirIsNext
    <2>6. fileOf[n] # file[c]
        <3>1. SUFFICES ASSUME fileOf[n] = file[c] PROVE FALSE
            OBVIOUS
        <3>2. d \in Deleting(file[c])
            BY <2>2, <2>5, <3>1 DEF Deleting, VersionsOf
        <3> QED BY <2>1, <2>2, <2>3, <3>1, <3>2 DEF Calm
    <2>7. VersionsOf(fileOf[n])' = VersionsOf(fileOf[n])
        <3>1. \A f \in Id : f # file[c] =>
                  {v \in Versions : rowOf'[v] = f /\ f # 0} = VersionsOf(f)
            BY <1>4, SaveRows DEF VersionsOf
        <3> QED BY <1>t, <2>3, <2>6, <3>1 DEF VersionsOf
    <2> QED BY <2>3, <2>5, <2>7
<1>5. CASE CommitDeletion(c)
    <2>1. /\ UNCHANGED <<fileOf, shuffled, doomed, heir>>
          /\ \A d \in Clients : pc'[d] = "commit" => d # c /\ pc[d] = "commit"
        BY <1>t, <1>5 DEF CommitDeletion
    <2>2. SUFFICES ASSUME NEW d \in Clients, NEW n \in Names, d # c, pc[d] = "commit", Calm(n)',
                          fileOf[n] \in DOMAIN heir[d]
                   PROVE  /\ doomed[d] \cap VersionsOf(fileOf[n])' # {}
                          /\ \A v \in VersionsOf(fileOf[n])' : v > heir[d][fileOf[n]] => v \in doomed[d]
        BY <2>1 DEF HeirIsNext
    <2> DEFINE f == fileOf[n]
    <2>3. Calm(n) /\ f \notin raced' /\ VersionsOf(fileOf[n])' = VersionsOf(f) \ doomed[c]
        <3>1. \A g \in Id : /\ {v \in Versions : rowOf'[v] = g /\ g # 0} = VersionsOf(g) \ doomed[c]
                            /\ g \notin raced' => g \notin raced
            BY <1>5, CommitRows DEF VersionsOf
        <3> QED BY <1>t, <2>1, <2>2, <3>1 DEF VersionsOf, Calm
    <2>4. /\ doomed[d] \cap VersionsOf(f) # {}
          /\ \A v \in VersionsOf(f) : v > heir[d][f] => v \in doomed[d]
        BY <2>2, <2>3 DEF HeirIsNext
    <2>5. doomed[c] \cap VersionsOf(f) = {}
        BY <1>t, <1>5, <2>2, <2>3, <2>4, CommitRows DEF Loose
    <2> QED BY <2>3, <2>4, <2>5
<1>6. CASE Starts(c)
    <2>1. PICK n \in Names :
            \/ CheckUpload(c, n)
            \/ CheckDeleteFile(c, n)
            \/ \E v \in Versions : CheckDeleteVersion(c, n, v)
        BY <1>6 DEF Starts
    <2>2. CASE CheckUpload(c, n) \/ CheckDeleteFile(c, n)
        BY <1>t, <1>1, <2>2 DEF CheckUpload, CheckDeleteFile
    <2>3. CASE \E v \in Versions : CheckDeleteVersion(c, n, v)
        BY <1>t, <1>1, <2>3 DEF CheckDeleteVersion
    <2> QED BY <2>1, <2>2, <2>3
<1>7. CASE End(c) /\ UNCHANGED <<fileOf, rowOf, raced, shuffled>>
    BY <1>t, <1>1, <1>7 DEF End
<1>8. CASE BeginUpload(c) \/ CreateFile(c) \/ PutObject(c) \/ ListSurplus(c) \/ DeleteContent(c)
    BY <1>t, <1>1, <1>8 DEF BeginUpload, CreateFile, PutObject, ListSurplus, DeleteContent
<1>9. CASE CleanObjects(c)
    BY <1>t, <1>1, <1>7, <1>9 DEF CleanObjects
<1> QED
    BY <1>2, <1>3, <1>4, <1>5, <1>6, <1>7, <1>8, <1>9
    DEF Uploads, Deletes, CreateFails, UploadFails, NothingToPurge, DeletionFails, CascadeFails,
        Tally, TallyFails, Crash

\* A file loses its last version only where two deletions overlapped in it, and its
\* latest version, while it has one, only there or where its uploads were saved out
\* of order: delete_project_file_version refuses the last version, the purge keeps
\* the newest, and the signal handler hands latest_version on to the next one left.
THEOREM NeverEmptiedAlways == Spec => []NeverEmptied
<1> DEFINE Kept == NoReinsert /\ Remain /\ LatestIsLast /\ HeirIsNext
<1>1. Init => Kept
    BY DEF Init, NoReinsert, Remain, LatestIsLast, HeirIsNext, Calm
<1>2. ASSUME Types, Placed, Own, Files, Files', Stamped, Kept, [Next]_vars
      PROVE  Kept'
    <2>1. CASE UNCHANGED vars
        BY <1>2, <2>1
        DEF vars, NoReinsert, Remain, LatestIsLast, HeirIsNext, Calm, Loose, VersionsOf
    <2>2. CASE Next
        BY <1>2, <2>2, NextIsAStep, NoReinsertNext, RemainNext, LatestIsLastNext, HeirIsNextNext
        DEF Files
    <2> QED BY <1>2, <2>1, <2>2
<1>3. ASSUME Types, Kept PROVE NeverEmptied
    <2>1. \A n \in Names : 0 \notin VersionsOf(fileOf[n])
        BY DEF VersionsOf, Versions
    <2> QED BY <1>3, <2>1 DEF NeverEmptied, Remain, LatestIsLast, Calm
<1> QED BY <1>1, <1>2, <1>3, FilesAlways, PTL DEF Spec
=============================================================================
