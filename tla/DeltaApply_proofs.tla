--------------------------- MODULE DeltaApply_proofs ---------------------------
(***************************************************************************)
(* Proofs about DeltaApply, for any clients, layers, values and keys, and  *)
(* any number of deltas, retries and failures.                             *)
(***************************************************************************)
EXTENDS DeltaApply, FiniteSetTheorems, SequenceTheorems, WellFoundedInduction, TLAPS

-----------------------------------------------------------------------------
(* The invariant.                                                          *)

Loop == {"next", "edited", "refused", "conflict"}
Working == Loop \cup {"stopped", "succeeded"}

\* The deltas of a job are its own and each is taken once; only what was applied
\* has a key.
JobInv ==
    /\ phase \in {"idle", "started"} => log = <<>>
    /\ phase \in {"idle", "stopped", "succeeded"} => todo = <<>>
    /\ phase = "succeeded" => unsent = {}
    /\ \A i \in DOMAIN todo : todo[i] \in DOMAIN deltas /\ status[todo[i]] = "started"
    /\ \A i \in DOMAIN log : log[i].delta \in DOMAIN deltas /\ status[log[i].delta] = "started"
    /\ \A i, j \in DOMAIN todo : todo[i] = todo[j] => i = j
    /\ \A i, j \in DOMAIN log : log[i].delta = log[j].delta => i = j
    /\ \A i \in DOMAIN todo, j \in DOMAIN log : todo[i] # log[j].delta
    /\ \A i \in DOMAIN log : log[i].status = "applied" <=> log[i].pk # None
    /\ \A e \in DOMAIN deltas : modifiedPk[e] # None => status[e] = "applied" /\ hit[e] # None
    /\ \A i \in DOMAIN log : log[i].status = "applied" => hit[log[i].delta] # None

\* What the first delta has made of a layer: a new feature, or another value or the
\* end of one it has found by its key.
Makes(d, old, new) ==
    CASE deltas[d].method = "create" -> old = None /\ new = [val |-> deltas[d].new, by |-> d]
      [] deltas[d].method = "patch" -> IsFeature(old) /\ new = [old EXCEPT !.val = deltas[d].new]
      [] OTHER -> IsFeature(old) /\ new = Gone

EditInv ==
    /\ edit = [l \in Layers |-> edit[l]]
    /\ phase = "next" => \A l \in Layers : edit[l] = None
    /\ phase \in Loop \ {"next"} =>
          todo # <<>> /\ \A l \in Layers : edit[l] # None => l = deltas[Head(todo)].layer
    /\ phase = "edited" =>
          LET d == Head(todo)
              l == deltas[d].layer IN
          /\ at \in Pks /\ edit[l] = [Committed(l) EXCEPT ![at] = edit[l][at]]
          /\ edit[l] # None /\ Makes(d, Committed(l)[at], edit[l][at])
          /\ deltas[d].method # "create" => at \in SourcePks(d)

By(f, d) == IsFeature(f) /\ f.by = d

\* No feature of the delta.
Free(table, d) == \A p \in Pks : ~By(table[p], d)

\* The first key keeps its feature, and the others have one of a delta of the
\* layer at most.
Sound(table, l) ==
    /\ table[1] = Gone \/ By(table[1], 0)
    /\ \A p \in Pks :
          IsFeature(table[p]) /\ table[p].by # 0 =>
             table[p].by \in DOMAIN deltas /\ deltas[table[p].by].layer = l
    /\ \A d \in DeltaIds \ spilt : \A p, q \in Pks : By(table[p], d) /\ By(table[q], d) => p = q

\* Not applied yet, by an earlier job or by this one.
NotYet(d) ==
    d \in DOMAIN deltas =>
       /\ status[d] # "applied"
       /\ \A i \in DOMAIN log : log[i].delta = d => log[i].status # "applied"

\* What was not applied has left no feature, and what this job has applied had
\* none before, unless a job that failed has spilt it.
FreeInv ==
    /\ \A l \in Layers : Sound(data[l], l) /\ (l \in FileLayers => Sound(work[l], l))
    /\ \A d \in DeltaIds \ spilt : NotYet(d) =>
          /\ \A l \in Layers : Free(data[l], d)
          /\ phase \in Working => \A l \in Layers : Free(Committed(l), d)
    /\ phase \in Working \/ log # <<>> =>
          \A d \in DeltaIds \ spilt :
             (d \in DOMAIN deltas => status[d] # "applied") => \A l \in Layers : Free(before[l], d)
    /\ phase \in {"stopped", "succeeded"} => \A l \in FileLayers \ unsent : data[l] = work[l]

\* The feature of that creator, or what is left of it.
Same(f, creator) == f = Gone \/ By(f, creator)

\* A key leads to the feature that the delta it is known from has changed.
HitInv ==
    /\ \A e \in DOMAIN deltas : modifiedPk[e] # None =>
          /\ Same(data[deltas[e].layer][modifiedPk[e]], hit[e])
          /\ phase \in Working => Same(Committed(deltas[e].layer)[modifiedPk[e]], hit[e])
          /\ deltas[e].method = "create" => hit[e] = e
    /\ \A i \in DOMAIN log : log[i].status = "applied" =>
          /\ phase \in Working =>
                Same(Committed(deltas[log[i].delta].layer)[log[i].pk], hit[log[i].delta])
          /\ deltas[log[i].delta].method = "create" => hit[log[i].delta] = log[i].delta

\* A client has the first feature from its package and any other from a creation of
\* its own, one for each key.
KeysInv ==
    /\ \A c \in Clients, l \in Layers, p \in Pks :
          local[c][l][p] # None <=>
             \/ p = 1
             \/ \E e \in DOMAIN deltas : deltas[e].method = "create" /\ deltas[e].client = c
                                         /\ deltas[e].layer = l /\ deltas[e].pk = p
    /\ \A d \in DOMAIN deltas :
          /\ deltas[d].method = "create" => deltas[d].pk # 1
          /\ deltas[d].method # "delete" => deltas[d].new \in Values
          /\ local[deltas[d].client][deltas[d].layer][deltas[d].pk] # None
    /\ \A d, e \in DOMAIN deltas :
          deltas[d].method = "create" /\ deltas[e].method = "create" /\ e \in Meant(d) => d = e

-----------------------------------------------------------------------------
(* What the model is made of.                                              *)

LEMMA Markers ==
    /\ None # Gone /\ None \notin Values /\ Gone \notin Values
    /\ None \notin Feature /\ Gone \notin Feature /\ None \notin Pks /\ None \notin 0..MaxDeltas
    /\ None \notin Table /\ Pks \subseteq Nat /\ 1 \in Pks /\ IsFiniteSet(Pks) /\ MaxDeltas \in Nat
    /\ Layers = FileLayers \cup OnlineLayers /\ FileLayers \cap OnlineLayers = {}
    /\ FirstValue \in Values
<1>1. /\ None # Gone /\ None \notin Values /\ Gone \notin Values
      /\ None \notin Feature /\ Gone \notin Feature
      /\ Layers = FileLayers \cup OnlineLayers /\ FileLayers \cap OnlineLayers = {}
    BY DeltaApplyAssumption DEF Layers
<1>2. None \notin Pks /\ None \notin 0..MaxDeltas /\ None \notin Table /\ IsFiniteSet(Pks) /\ MaxDeltas \in Nat
    BY DeltaApplyAssumption
<1>3. Pks \subseteq Nat /\ 1 \in Pks
    <2>1. PICK n : n = Cardinality(Pks)
        OBVIOUS
    <2>2. n \in Nat /\ Pks = 1..n /\ Pks # {}
        BY <1>2, <2>1, FS_CardinalityType, DeltaApplyAssumption
    <2> QED BY <2>2
<1>4. FirstValue \in Values
    BY DeltaApplyAssumption DEF FirstValue
<1> QED BY <1>1, <1>2, <1>3, <1>4

\* The first key that was never used.
LEMMA FirstFreeIs ==
    ASSUME NEW table, HasRoom(table)
    PROVE  FirstFree(table) \in Pks /\ table[FirstFree(table)] = None
<1> DEFINE R == {z \in Nat \X Nat : z[1] < z[2]}
           free == {p \in Pks : table[p] = None}
<1>1. IsWellFoundedOn(R, Nat)
    BY NatLessThanWellFounded DEF OpToRel
<1>2. free \subseteq Nat /\ free # {}
    BY Markers DEF HasRoom
<1> HIDE DEF R
<1>3. PICK p \in free : \A q \in free : ~(<<q, p>> \in R)
    BY <1>1, <1>2, WFMin
<1>4. \A q \in 1..p - 1 : table[q] # None
    <2> TAKE q \in 1..p - 1
    <2>1. q \in Pks
        <3>1. PICK n : n = Cardinality(Pks)
            OBVIOUS
        <3>2. n \in Nat /\ Pks = 1..n
            BY <3>1, Markers, FS_CardinalityType, DeltaApplyAssumption
        <3> QED BY <1>2, <3>2
    <2>2. <<q, p>> \in Nat \X Nat /\ <<q, p>>[1] = q /\ <<q, p>>[2] = p /\ q < p
        BY <1>2, <2>1, Markers
    <2>3. <<q, p>> \in R
        BY <2>2 DEF R
    <2> QED BY <1>3, <2>1, <2>3
<1>5. \E r \in Pks : table[r] = None /\ \A q \in 1..r - 1 : table[q] # None
    BY <1>3, <1>4
<1> QED BY <1>5 DEF FirstFree

\* Every delta of a job is in the order once.
LEMMA Ordered ==
    ASSUME NEW S, IsFiniteSet(S), NEW f \in Orders(S)
    PROVE  /\ f \in Seq(S) /\ DOMAIN f = 1..Cardinality(S) /\ Cardinality(S) \in Nat
           /\ \A i, j \in DOMAIN f : f[i] = f[j] => i = j
           /\ \A i \in DOMAIN f : f[i] \in S
<1>1. Cardinality(S) \in Nat
    BY FS_CardinalityType
<1> DEFINE n == Cardinality(S)
<1>2. f \in [1..n -> S] /\ \A d \in S : \E i \in 1..n : f[i] = d
    BY DEF Orders
<1>3. f \in Surjection(1..n, S)
    BY <1>2 DEF Surjection
<1>4. IsFiniteSet(1..n) /\ Cardinality(1..n) = n
    BY <1>1, FS_Interval
<1>5. f \in Injection(1..n, S)
    BY <1>3, <1>4, FS_Surjection
<1>6. \A i, j \in 1..n : f[i] = f[j] => i = j
    BY <1>5 DEF Injection, IsInjective
<1>7. f \in Seq(S)
    BY <1>1, <1>2
<1> QED BY <1>1, <1>2, <1>6, <1>7

\* What a layer has under a key.
LEMMA FeatureOf ==
    ASSUME NEW table \in Table, NEW p \in Pks
    PROVE  /\ table[p] \in Feature \cup {None, Gone}
           /\ IsFeature(table[p]) <=> table[p] \in Feature
           /\ IsFeature(table[p]) => table[p].val \in Values /\ table[p].by \in 0..MaxDeltas
<1>1. table[p] \in Feature \cup {None, Gone}
    BY DEF Table
<1>2. IsFeature(table[p]) <=> table[p] \in Feature
    BY <1>1, Markers DEF IsFeature
<1> QED BY <1>1, <1>2 DEF Feature

\* Reading a replay that was worked out.
IsReplay(tables, l) ==
    tables = [n \in 0..Len(log) |->
                 IF n = 0 THEN before[l]
                 ELSE IF log[n].status = "applied" /\ deltas[log[n].delta].layer = l
                      THEN Effect(tables[n - 1], log[n])
                      ELSE tables[n - 1]]

LEMMA OneReplay ==
    ASSUME NEW l, NEW s, IsReplay(s, l)
    PROVE  \E t : IsReplay(t, l) /\ Replay(l) = t[Len(log)]
<1>1. Replay(l) = (CHOOSE t : IsReplay(t, l))[Len(log)]
    BY DEF Replay, IsReplay
<1>2. IsReplay(CHOOSE t : IsReplay(t, l), l)
    OBVIOUS
<1> QED BY <1>1, <1>2

\* A state of the layer for each entry, from the one downloaded to the present one.
Replayed(l) ==
    \E s : IsReplay(s, l) /\ s[Len(log)] = Committed(l)

LEMMA ReplayIs ==
    ASSUME NEW l, Replayed(l), log \in Seq(Entry) PROVE Replay(l) = Committed(l)
<1>1. PICK s : IsReplay(s, l) /\ s[Len(log)] = Committed(l)
    BY DEF Replayed
<1>2. PICK t : IsReplay(t, l) /\ Replay(l) = t[Len(log)]
    BY <1>1, OneReplay
<1>3. Len(log) \in Nat
    OBVIOUS
<1>4. \A n \in 0..Len(log) : s[n] = t[n]
    <2> DEFINE R == {z \in Nat \X Nat : z[1] < z[2]}
               apart == {n \in 0..Len(log) : s[n] # t[n]}
    <2>1. IsWellFoundedOn(R, Nat) /\ apart \subseteq Nat
        BY <1>3, NatLessThanWellFounded DEF OpToRel
    <2> HIDE DEF R
    <2>2. SUFFICES ASSUME apart # {} PROVE FALSE
        OBVIOUS
    <2>3. PICK n \in apart : \A m \in apart : ~(<<m, n>> \in R)
        BY <2>1, <2>2, WFMin
    <2>4. n \in 0..Len(log) /\ n \in Nat /\ s[n] # t[n]
        BY <1>3, <2>3
    <2>5. s[0] = before[l] /\ t[0] = before[l]
        BY <1>1, <1>2, <1>3 DEF IsReplay
    <2>6. n # 0 /\ n - 1 \in 0..Len(log) /\ n - 1 \in Nat /\ n - 1 < n
        BY <1>3, <2>4, <2>5
    <2>7. <<n - 1, n>> \in R
        <3>1. <<n - 1, n>> \in Nat \X Nat /\ <<n - 1, n>>[1] = n - 1 /\ <<n - 1, n>>[2] = n
            BY <2>4, <2>6
        <3> QED BY <2>6, <3>1 DEF R
    <2>8. s[n - 1] = t[n - 1]
        BY <2>3, <2>6, <2>7
    <2>9. /\ s[n] = IF log[n].status = "applied" /\ deltas[log[n].delta].layer = l
                    THEN Effect(s[n - 1], log[n]) ELSE s[n - 1]
          /\ t[n] = IF log[n].status = "applied" /\ deltas[log[n].delta].layer = l
                    THEN Effect(t[n - 1], log[n]) ELSE t[n - 1]
        BY <1>1, <1>2, <2>4, <2>6 DEF IsReplay
    <2> QED BY <2>4, <2>8, <2>9
<1> QED BY <1>1, <1>2, <1>3, <1>4

-----------------------------------------------------------------------------
(* Types.                                                                  *)

ReplayInv == phase \in Working => \A l \in Layers : Replayed(l)

Inv == TypeOK /\ JobInv /\ EditInv /\ FreeInv /\ HitInv /\ KeysInv /\ ReplayInv

LEMMA Rows ==
    ASSUME TypeOK
    PROVE  /\ Len(deltas) \in Nat /\ DOMAIN deltas = 1..Len(deltas) /\ DOMAIN deltas \subseteq DeltaIds
           /\ IsFiniteSet(DOMAIN deltas) /\ 0 \notin DOMAIN deltas
           /\ DOMAIN status = DOMAIN deltas /\ DOMAIN modifiedPk = DOMAIN deltas
           /\ DOMAIN hit = DOMAIN deltas
           /\ \A d \in DOMAIN deltas :
                 /\ deltas[d] \in Delta /\ deltas[d].client \in Clients /\ deltas[d].layer \in Layers
                 /\ deltas[d].method \in {"create", "patch", "delete"} /\ deltas[d].pk \in Pks
                 /\ deltas[d].new \in Values \cup {None}
<1>1. deltas \in Seq(Delta) /\ Len(deltas) <= MaxDeltas /\ MaxDeltas \in Nat
    BY Markers DEF TypeOK
<1>2. Len(deltas) \in Nat /\ DOMAIN deltas = 1..Len(deltas)
    BY <1>1
<1>3. DOMAIN deltas \subseteq DeltaIds
    BY <1>1, <1>2 DEF DeltaIds
<1>4. IsFiniteSet(DOMAIN deltas)
    BY <1>2, FS_Interval
<1>5. DOMAIN status = DOMAIN deltas /\ DOMAIN modifiedPk = DOMAIN deltas /\ DOMAIN hit = DOMAIN deltas
    BY DEF TypeOK
<1>6. ASSUME NEW d \in DOMAIN deltas
      PROVE  /\ deltas[d] \in Delta /\ deltas[d].client \in Clients /\ deltas[d].layer \in Layers
             /\ deltas[d].method \in {"create", "patch", "delete"} /\ deltas[d].pk \in Pks
             /\ deltas[d].new \in Values \cup {None}
    <2>1. deltas[d] \in Delta
        BY <1>1, <1>2, <1>6
    <2> QED BY <2>1 DEF Delta
<1> QED BY <1>2, <1>3, <1>4, <1>5, <1>6

\* The layers the container works on.
LEMMA CommittedIs ==
    ASSUME TypeOK, NEW l \in Layers
    PROVE  /\ Committed(l) \in Table /\ data[l] \in Table
           /\ l \in FileLayers => work[l] \in Table /\ Committed(l) = work[l]
           /\ l \in OnlineLayers => Committed(l) = data[l]
    BY Markers DEF TypeOK, Committed

\* A delta that is at hand.
LEMMA FirstDelta ==
    ASSUME TypeOK, JobInv, todo # <<>>
    PROVE  /\ Head(todo) \in DOMAIN deltas /\ Head(todo) \in DeltaIds /\ Head(todo) = todo[1]
           /\ 1 \in DOMAIN todo /\ Tail(todo) \in Seq(DeltaIds) /\ Len(todo) \in Nat
           /\ DOMAIN todo = 1..Len(todo)
           /\ \A i \in DOMAIN Tail(todo) : i + 1 \in DOMAIN todo /\ Tail(todo)[i] = todo[i + 1] /\ i \in Nat \ {0}
           /\ deltas[Head(todo)].layer \in Layers
<1>1. todo \in Seq(DeltaIds) /\ Len(todo) \in Nat /\ Len(todo) # 0
    BY DEF TypeOK
<1>2. Head(todo) = todo[1] /\ 1 \in DOMAIN todo /\ DOMAIN todo = 1..Len(todo)
      /\ Tail(todo) \in Seq(DeltaIds)
    BY <1>1
<1>3. \A i \in DOMAIN Tail(todo) : i + 1 \in DOMAIN todo /\ Tail(todo)[i] = todo[i + 1] /\ i \in Nat \ {0}
    BY <1>1
<1>4. Head(todo) \in DOMAIN deltas
    BY <1>2 DEF JobInv
<1>5. Head(todo) \in DeltaIds /\ deltas[Head(todo)].layer \in Layers
    BY <1>4, Rows
<1> QED BY <1>1, <1>2, <1>3, <1>4, <1>5

\* An entry more in the log.
LEMMA Logging ==
    ASSUME TypeOK, NEW e \in Entry
    PROVE  /\ Append(log, e) \in Seq(Entry) /\ Len(log) \in Nat /\ DOMAIN log = 1..Len(log)
           /\ Len(Append(log, e)) = Len(log) + 1
           /\ DOMAIN Append(log, e) = DOMAIN log \cup {Len(log) + 1} /\ Len(log) + 1 \notin DOMAIN log
           /\ Append(log, e)[Len(log) + 1] = e
           /\ \A i \in DOMAIN log : Append(log, e)[i] = log[i]
<1>1. log \in Seq(Entry) /\ Len(log) \in Nat
    BY DEF TypeOK
<1> QED BY <1>1

\* What a delta at hand makes is a row of the layer.
LEMMA Made ==
    ASSUME TypeOK, NEW d \in DOMAIN deltas, NEW old \in Feature \cup {None, Gone}, NEW new,
           Makes(d, old, new), deltas[d].method # "delete" => deltas[d].new \in Values
    PROVE  /\ new \in Feature \cup {None, Gone} /\ new # None
           /\ (deltas[d].method = "create" /\ old = None /\ By(new, d))
              \/ (deltas[d].method # "create" /\ IsFeature(old) /\ (new = Gone \/ By(new, old.by)))
<1>1. d \in 0..MaxDeltas /\ deltas[d].method \in {"create", "patch", "delete"}
    BY Rows, Markers DEF DeltaIds
<1>2. CASE deltas[d].method = "create"
    <2>1. old = None /\ new = [val |-> deltas[d].new, by |-> d]
        BY <1>2 DEF Makes
    <2>2. new \in Feature /\ new.by = d
        BY <1>1, <1>2, <2>1 DEF Feature
    <2> QED BY <1>2, <2>1, <2>2, Markers DEF By, IsFeature
<1>3. CASE deltas[d].method = "patch"
    <2>1. IsFeature(old) /\ new = [old EXCEPT !.val = deltas[d].new] /\ old \in Feature
        BY <1>3 DEF Makes, IsFeature
    <2>2. new \in Feature /\ new.by = old.by
        BY <1>3, <2>1 DEF Feature
    <2> QED BY <1>3, <2>1, <2>2, Markers DEF By, IsFeature
<1>4. CASE deltas[d].method = "delete"
    BY <1>4, Markers DEF Makes
<1> QED BY <1>1, <1>2, <1>3, <1>4

-----------------------------------------------------------------------------
(* Steps that leave the layers alone.                                      *)

LEMMA SameReplay ==
    ASSUME NEW l, UNCHANGED <<log, before, deltas>>, Committed(l)' = Committed(l)
    PROVE  Replayed(l)' <=> Replayed(l)
<1>1. \A table, e : Effect(table, e)' = Effect(table, e)
    BY DEF Effect
<1>2. \A s : IsReplay(s, l)' <=> IsReplay(s, l)
    BY <1>1 DEF IsReplay
<1> QED BY <1>2 DEF Replayed

LEMMA OnlyEdits ==
    ASSUME Inv, phase' \in Loop \cup {"error"}, phase' \in Loop => phase \in Loop,
           UNCHANGED <<local, deltas, status, modifiedPk, data, todo, work, log, unsent, before, hit, spilt>>
    PROVE  JobInv' /\ FreeInv' /\ HitInv' /\ KeysInv' /\ ReplayInv'
<1> USE DEF Inv
<1>1. JobInv'
    BY DEF JobInv, Loop
<1>2. \A l : Committed(l)' = Committed(l)
    BY DEF Committed
<1>3. phase' \in Working => phase \in Working
    BY DEF Working, Loop
<1>4. FreeInv'
    <2>1. \A table, l : Sound(table, l)' = Sound(table, l)
        BY DEF Sound
    <2>2. \A d : NotYet(d)' = NotYet(d)
        BY DEF NotYet
    <2>3. \A table, d : Free(table, d)' = Free(table, d)
        BY DEF Free
    <2>4. phase' \notin {"stopped", "succeeded"}
        BY DEF Loop
    <2> QED BY <1>2, <1>3, <2>1, <2>2, <2>3, <2>4 DEF FreeInv
<1>5. HitInv'
    BY <1>2, <1>3 DEF HitInv, Same, By, IsFeature
<1>6. KeysInv'
    BY DEF KeysInv, Meant
<1>7. ReplayInv'
    BY <1>2, <1>3, SameReplay DEF ReplayInv
<1> QED BY <1>1, <1>4, <1>5, <1>6, <1>7

\* Keys are known of deltas.
LEMMA SourcePksTyped ==
    ASSUME Inv, todo # <<>> PROVE SourcePks(Head(todo)) \subseteq Pks
<1>1. Head(todo) \in DOMAIN deltas
    BY FirstDelta DEF Inv
<1>2. \A e \in DOMAIN deltas : modifiedPk[e] \in Pks \cup {None}
    BY DEF Inv, TypeOK
<1>3. deltas[Head(todo)].pk \in Pks
    BY <1>1, Rows DEF Inv
<1> QED BY <1>2, <1>3 DEF SourcePks, ClientPks

-----------------------------------------------------------------------------
(* The loop of apply_deltas.                                               *)

\* A buffer is written to or started.
LEMMA BufferTyped ==
    ASSUME TypeOK, EditInv, NEW l \in Layers, NEW table \in Table, edit' = [edit EXCEPT ![l] = table]
    PROVE  /\ edit' = [k \in Layers |-> edit'[k]] /\ edit'[l] = table
           /\ \A k \in Layers : edit'[k] = None \/ edit'[k] \in Table
           /\ \A k \in Layers \ {l} : edit'[k] = edit[k]
<1>1. edit = [k \in Layers |-> edit[k]]
    BY DEF EditInv
<1>2. edit' = [k \in Layers |-> IF k = l THEN table ELSE edit[k]]
    BY <1>1
<1>3. \A k \in Layers : edit[k] = None \/ edit[k] \in Table
    BY DEF TypeOK
<1> QED BY <1>2, <1>3

LEMMA EditedKept ==
    ASSUME Inv, phase = "next", todo # <<>>,
           NEW d, d = Head(todo), NEW l, l = deltas[d].layer, NEW p \in Pks, NEW f,
           edit' = [edit EXCEPT ![l] = [Edited(l) EXCEPT ![p] = f]], at' = p,
           Makes(d, Edited(l)[p], f), deltas[d].method # "create" => p \in SourcePks(d),
           phase' = "edited",
           UNCHANGED <<data, overwrite, todo, work, log, unsent, before, hit, failures>>, serverUnchanged
    PROVE  Inv'
<1> USE DEF Inv
<1>1. /\ d \in DOMAIN deltas /\ l \in Layers
      /\ deltas[d].method # "delete" => deltas[d].new \in Values
    BY FirstDelta DEF KeysInv
<1>2. Edited(l) = Committed(l) /\ Committed(l) \in Table
    <2>1. edit[l] = None
        BY <1>1 DEF EditInv
    <2> QED BY <1>1, <2>1, CommittedIs DEF Edited
<1>3. f \in Feature \cup {None, Gone}
    BY <1>1, <1>2, FeatureOf, Made
<1>4. PICK table : table = [Committed(l) EXCEPT ![p] = f]
    OBVIOUS
<1>5. table \in Table /\ table[p] = f
    BY <1>2, <1>3, <1>4 DEF Table
<1>6. /\ edit' = [k \in Layers |-> edit'[k]] /\ edit'[l] = table
      /\ \A k \in Layers : edit'[k] = None \/ edit'[k] \in Table
      /\ \A k \in Layers \ {l} : edit'[k] = edit[k]
    BY <1>1, <1>2, <1>4, <1>5, BufferTyped
<1>7. TypeOK'
    BY <1>6 DEF TypeOK, serverUnchanged
<1>8. EditInv'
    <2>1. \A k \in Layers : edit'[k] # None => k = l
        BY <1>6 DEF EditInv
    <2>2. Committed(l)' = Committed(l) /\ SourcePks(d)' = SourcePks(d)
        BY DEF Committed, SourcePks, ClientPks, SameKey, serverUnchanged
    <2>3. Makes(d, Committed(l)[p], f)' <=> Makes(d, Committed(l)[p], f)
        BY <2>2 DEF Makes, IsFeature, serverUnchanged
    <2>4. edit'[l] = [Committed(l)' EXCEPT ![p] = edit'[l][p]] /\ edit'[l] # None /\ edit'[l][p] = f
        BY <1>4, <1>5, <1>6, <2>2, Markers
    <2>5. Makes(d, Committed(l)[at], edit[l][at])'
        BY <1>2, <2>2, <2>4 DEF Makes, IsFeature, serverUnchanged
    <2>6. (deltas[d].method # "create" => at \in SourcePks(d))'
        BY <2>2 DEF serverUnchanged
    <2> QED BY <1>6, <2>1, <2>2, <2>4, <2>5, <2>6 DEF EditInv, serverUnchanged, Loop
<1>9. JobInv' /\ FreeInv' /\ HitInv' /\ KeysInv' /\ ReplayInv'
    BY OnlyEdits DEF serverUnchanged, Loop
<1> QED BY <1>7, <1>8, <1>9

LEMMA RefusedKept ==
    ASSUME Inv, phase = "next", todo # <<>>, StartEditing(deltas[Head(todo)].layer),
           phase' \in {"refused", "conflict", "error"},
           UNCHANGED <<data, overwrite, todo, work, log, unsent, before, hit, failures>>, serverUnchanged
    PROVE  Inv'
<1> USE DEF Inv
<1>1. PICK l \in Layers : l = deltas[Head(todo)].layer
    BY FirstDelta
<1>2. Edited(l) = Committed(l) /\ Committed(l) \in Table
    <2>1. edit[l] = None
        BY DEF EditInv
    <2> QED BY <2>1, CommittedIs DEF Edited
<1>3. edit' = [edit EXCEPT ![l] = Edited(l)] /\ at' = at
    BY <1>1 DEF StartEditing
<1>4. /\ edit' = [k \in Layers |-> edit'[k]]
      /\ \A k \in Layers : edit'[k] = None \/ edit'[k] \in Table
      /\ \A k \in Layers \ {l} : edit'[k] = edit[k]
    BY <1>2, <1>3, BufferTyped
<1>5. TypeOK'
    BY <1>3, <1>4 DEF TypeOK, serverUnchanged
<1>6. EditInv'
    <2>1. \A k \in Layers : edit'[k] # None => k = l
        BY <1>4 DEF EditInv
    <2> QED BY <1>1, <1>4, <2>1 DEF EditInv, serverUnchanged, Loop
<1>7. JobInv' /\ FreeInv' /\ HitInv' /\ KeysInv' /\ ReplayInv'
    BY OnlyEdits DEF serverUnchanged, Loop
<1> QED BY <1>5, <1>6, <1>7

LEMMA FeatureKept ==
    ASSUME Inv, CreateFeature \/ RefuseFeature \/ PatchFeature \/ DeleteFeature PROVE Inv'
<1> DEFINE d == Head(todo)
           l == deltas[d].layer
<1>1. CASE CreateFeature
    <2>1. /\ phase = "next" /\ todo # <<>> /\ deltas[d].method = "create" /\ HasRoom(Edited(l))
          /\ WriteBuffer(l, FirstFree(Edited(l)), [val |-> deltas[d].new, by |-> d]) /\ Goto("edited")
        BY <1>1 DEF CreateFeature
    <2>2. PICK p \in Pks : p = FirstFree(Edited(l)) /\ Edited(l)[p] = None
        BY <2>1, FirstFreeIs
    <2>3. PICK f : f = [val |-> deltas[d].new, by |-> d]
        OBVIOUS
    <2>4. Makes(d, Edited(l)[p], f)
        BY <2>1, <2>2, <2>3 DEF Makes
    <2>5. edit' = [edit EXCEPT ![l] = [Edited(l) EXCEPT ![p] = f]] /\ at' = p
        BY <2>1, <2>2, <2>3 DEF WriteBuffer
    <2> QED BY <2>1, <2>4, <2>5, EditedKept DEF Goto
<1>2. CASE RefuseFeature
    <2>1. phase = "next" /\ todo # <<>> /\ StartEditing(l) /\ (Goto("refused") \/ Goto("conflict"))
        BY <1>2 DEF RefuseFeature
    <2> QED BY <2>1, RefusedKept DEF Goto
<1>3. CASE PatchFeature
    <2>1. PICK p \in SourcePks(d) :
             /\ IsFeature(Edited(l)[p])
             /\ IF deltas[d].old = Missing
                THEN StartEditing(l) /\ Goto("error")
                ELSE /\ WriteBuffer(l, p, [Edited(l)[p] EXCEPT !.val = deltas[d].new])
                     /\ Goto("edited")
        BY <1>3 DEF PatchFeature
    <2>2. phase = "next" /\ todo # <<>> /\ deltas[d].method = "patch"
        BY <1>3 DEF PatchFeature
    <2>3. CASE deltas[d].old = Missing
        BY <2>1, <2>2, <2>3, RefusedKept DEF Goto
    <2>4. CASE deltas[d].old # Missing
        <3>1. PICK f : f = [Edited(l)[p] EXCEPT !.val = deltas[d].new]
            OBVIOUS
        <3>2. Makes(d, Edited(l)[p], f)
            BY <2>1, <2>2, <3>1 DEF Makes
        <3>3. edit' = [edit EXCEPT ![l] = [Edited(l) EXCEPT ![p] = f]] /\ at' = p /\ Goto("edited")
            BY <2>1, <2>4, <3>1 DEF WriteBuffer
        <3>4. p \in Pks
            BY <2>2, SourcePksTyped
        <3> QED BY <2>2, <3>2, <3>3, <3>4, EditedKept DEF Goto
    <2> QED BY <2>3, <2>4
<1>4. CASE DeleteFeature
    <2>1. PICK p \in SourcePks(d) : IsFeature(Edited(l)[p]) /\ WriteBuffer(l, p, Gone)
        BY <1>4 DEF DeleteFeature
    <2>2. phase = "next" /\ todo # <<>> /\ deltas[d].method = "delete" /\ Goto("edited")
        BY <1>4 DEF DeleteFeature
    <2>3. Makes(d, Edited(l)[p], Gone)
        BY <2>1, <2>2 DEF Makes
    <2>4. edit' = [edit EXCEPT ![l] = [Edited(l) EXCEPT ![p] = Gone]] /\ at' = p
        BY <2>1 DEF WriteBuffer
    <2>5. p \in Pks
        BY <2>2, SourcePksTyped
    <2> QED BY <2>1, <2>2, <2>3, <2>4, <2>5, EditedKept DEF Goto
<1> QED BY <1>1, <1>2, <1>3, <1>4

LEMMA FailureKept ==
    ASSUME Inv, EditFails \/ StepFails PROVE Inv'
<1> USE DEF Inv
<1>1. /\ phase' \in {"refused", "error"} /\ (phase' = "refused" => phase = "edited")
      /\ failures' = failures + 1 /\ failures < MaxFailures
      /\ UNCHANGED <<data, overwrite, todo, work, edit, at, log, unsent, before, hit>> /\ serverUnchanged
    BY DEF EditFails, StepFails
<1>2. TypeOK'
    <2>1. failures' \in 0..MaxFailures
        BY <1>1, DeltaApplyAssumption DEF TypeOK
    <2> QED BY <1>1, <2>1 DEF TypeOK, serverUnchanged
<1>3. EditInv'
    BY <1>1 DEF EditInv, serverUnchanged, Loop
<1>4. JobInv' /\ FreeInv' /\ HitInv' /\ KeysInv' /\ ReplayInv'
    BY <1>1, OnlyEdits DEF serverUnchanged, Loop
<1> QED BY <1>2, <1>3, <1>4

\* The delta at hand goes from the deltas to come to the log.
LEMMA TodoMoves ==
    ASSUME TypeOK, JobInv, phase \in Loop, phase' = "next", UNCHANGED <<deltas, status, modifiedPk, unsent>>,
           NEW d \in DOMAIN deltas, 1 \in DOMAIN todo, todo[1] = d,
           \A i \in DOMAIN todo' : i + 1 \in DOMAIN todo /\ todo'[i] = todo[i + 1] /\ i \in Nat \ {0},
           NEW e, e.delta = d, e.status = "applied" <=> e.pk # None,
           NEW n, n \notin DOMAIN log, DOMAIN log' = DOMAIN log \cup {n}, log'[n] = e,
           \A i \in DOMAIN log : log'[i] = log[i],
           \A x \in DOMAIN deltas \ {d} : hit'[x] = hit[x],
           e.status = "applied" => hit'[d] # None, e.status # "applied" => hit'[d] = hit[d]
    PROVE  JobInv'
<1>1. status[d] = "started" /\ \A i \in DOMAIN log : log[i].delta # d /\ log[i].delta \in DOMAIN deltas
    BY DEF JobInv
<1>2. DOMAIN deltas' = DOMAIN deltas
    OBVIOUS
<1>3. \A i \in DOMAIN todo' : todo'[i] \in DOMAIN deltas /\ status[todo'[i]] = "started" /\ todo'[i] # d
    BY DEF JobInv
<1>4. \A i \in DOMAIN log' : log'[i].delta \in DOMAIN deltas /\ status[log'[i].delta] = "started"
    BY <1>1 DEF JobInv
<1>5. \A i, j \in DOMAIN todo' : todo'[i] = todo'[j] => i = j
    BY DEF JobInv
<1>6. \A i, j \in DOMAIN log' : log'[i].delta = log'[j].delta => i = j
    BY <1>1 DEF JobInv
<1>7. \A i \in DOMAIN todo', j \in DOMAIN log' : todo'[i] # log'[j].delta
    BY <1>3 DEF JobInv
<1>8. \A i \in DOMAIN log' : log'[i].status = "applied" <=> log'[i].pk # None
    BY DEF JobInv
<1>9. \A x \in DOMAIN deltas : modifiedPk[x] # None => status[x] = "applied" /\ hit'[x] # None
    BY <1>1 DEF JobInv
<1>10. \A i \in DOMAIN log' : log'[i].status = "applied" => hit'[log'[i].delta] # None
    BY <1>1 DEF JobInv
<1> QED BY <1>2, <1>3, <1>4, <1>5, <1>6, <1>7, <1>8, <1>9, <1>10 DEF JobInv

\* A log with an entry more is replayed to what the entry makes of the layer.
LEMMA ReplayStep ==
    ASSUME TypeOK, NEW e \in Entry, log' = Append(log, e), UNCHANGED <<before, deltas>>,
           NEW l, Replayed(l),
           Committed(l)' = IF e.status = "applied" /\ deltas[e.delta].layer = l
                           THEN Effect(Committed(l), e) ELSE Committed(l)
    PROVE  Replayed(l)'
<1>1. PICK s : IsReplay(s, l) /\ s[Len(log)] = Committed(l)
    BY DEF Replayed
<1>2. PICK n \in Nat : n = Len(log)
    BY Logging
<1>3. /\ Len(log') = n + 1 /\ log'[n + 1] = e /\ \A i \in 1..n : log'[i] = log[i]
    BY <1>2, Logging
<1> DEFINE more == [i \in 0..(n + 1) |-> IF i = n + 1 THEN Committed(l)' ELSE s[i]]
<1>4. /\ s[0] = before[l]
      /\ \A i \in 1..n : s[i] = IF log[i].status = "applied" /\ deltas[log[i].delta].layer = l
                                THEN Effect(s[i - 1], log[i]) ELSE s[i - 1]
    BY <1>1, <1>2 DEF IsReplay
<1>5. \A table, x : Effect(table, x)' = Effect(table, x)
    BY DEF Effect
<1>6. PICK t : t = more
    OBVIOUS
<1>7. /\ t[n + 1] = Committed(l)' /\ \A i \in 0..n : t[i] = s[i]
      /\ t = [i \in 0..(n + 1) |-> t[i]]
    BY <1>6
<1> HIDE DEF more
<1>8. \A i \in 0..(n + 1) :
         t[i] = IF i = 0 THEN before'[l]
                ELSE IF log'[i].status = "applied" /\ deltas'[log'[i].delta].layer = l
                     THEN Effect(t[i - 1], log'[i])
                     ELSE t[i - 1]
    <2> TAKE i \in 0..(n + 1)
    <2>1. CASE i = 0
        BY <1>4, <1>7, <2>1
    <2>2. CASE i \in 1..n
        <3>1. i # 0 /\ i - 1 \in 0..n /\ i \in 0..n
            BY <2>2
        <3> QED BY <1>3, <1>4, <1>7, <2>2, <3>1
    <2>3. CASE i = n + 1
        <3>1. t[i - 1] = Committed(l) /\ i # 0
            <4>1. i - 1 = n /\ i # 0 /\ n \in 0..n
                BY <2>3
            <4> QED BY <1>1, <1>2, <1>7, <4>1
        <3> QED BY <1>3, <1>7, <2>3, <3>1
    <2>4. i = 0 \/ i \in 1..n \/ i = n + 1
        OBVIOUS
    <2> QED BY <2>1, <2>2, <2>3, <2>4
<1>9. IsReplay(t, l)'
    BY <1>3, <1>5, <1>7, <1>8 DEF IsReplay
<1>10. (t[Len(log)] = Committed(l))'
    BY <1>3, <1>7
<1> QED BY <1>9, <1>10 DEF Replayed

LEMMA LogFailureKept ==
    ASSUME Inv, LogFailure PROVE Inv'
<1> USE DEF Inv
<1>1. /\ phase \in {"refused", "conflict"} /\ phase' = "next" /\ at' = None
      /\ todo' = Tail(todo)
      /\ UNCHANGED <<data, overwrite, work, unsent, before, hit, failures>> /\ serverUnchanged
    BY DEF LogFailure
<1>2. UNCHANGED <<local, deltas, status, modifiedPk, spilt, retries>>
    BY <1>1 DEF serverUnchanged
<1>3. PICK d \in DOMAIN deltas, l \in Layers :
         /\ d = Head(todo) /\ l = deltas[d].layer /\ todo # <<>> /\ d \in DeltaIds
         /\ \A k \in Layers : edit[k] # None => k = l
    BY <1>1, FirstDelta DEF EditInv, Loop
<1>4. edit' = [edit EXCEPT ![l] = None]
    BY <1>3 DEF LogFailure, RolledBack
<1>5. \A k \in Layers : edit'[k] = None
    BY <1>3, <1>4 DEF EditInv
<1>6. edit' = [k \in Layers |-> edit'[k]]
    BY <1>4 DEF EditInv
<1>7. PICK e : e = [delta |-> d, pk |-> None,
                    status |-> IF phase = "conflict" THEN "conflict" ELSE "not_applied"]
    OBVIOUS
<1>8. /\ e \in Entry /\ e.delta = d /\ e.pk = None /\ e.status # "applied" /\ log' = Append(log, e)
    BY <1>3, <1>7 DEF LogFailure, Entry
<1>9. PICK n : n = Len(log) + 1
    OBVIOUS
<1>10. /\ DOMAIN log' = DOMAIN log \cup {n} /\ n \notin DOMAIN log /\ log'[n] = e
       /\ \A i \in DOMAIN log : log'[i] = log[i]
       /\ log' \in Seq(Entry)
    BY <1>8, <1>9, Logging
<1>11. /\ todo' \in Seq(DeltaIds)
       /\ \A i \in DOMAIN todo' : i + 1 \in DOMAIN todo /\ todo'[i] = todo[i + 1] /\ i \in Nat \ {0}
       /\ 1 \in DOMAIN todo /\ todo[1] = d
    BY <1>1, <1>3, FirstDelta
<1>12. TypeOK'
    BY <1>1, <1>2, <1>5, <1>10, <1>11 DEF TypeOK
<1>13. JobInv'
    BY <1>1, <1>2, <1>3, <1>8, <1>10, <1>11, TodoMoves DEF Loop
<1>14. EditInv'
    BY <1>1, <1>5, <1>6 DEF EditInv, Loop
<1>15. \A k : Committed(k)' = Committed(k)
    BY <1>1 DEF Committed
<1>16. phase \in Working /\ phase' \in Working
    BY <1>1 DEF Working, Loop
<1>17. FreeInv'
    <2>1. \A table, k : Sound(table, k)' = Sound(table, k)
        BY <1>2 DEF Sound
    <2>2. \A x : NotYet(x)' => NotYet(x)
        BY <1>2, <1>10 DEF NotYet
    <2>3. \A table, x : Free(table, x)' = Free(table, x)
        BY DEF Free
    <2> QED BY <1>1, <1>2, <1>15, <1>16, <2>1, <2>2, <2>3 DEF FreeInv
<1>18. HitInv'
    BY SMTT(60), <1>1, <1>2, <1>8, <1>10, <1>15, <1>16 DEF HitInv, Same, By, IsFeature
<1>19. KeysInv'
    BY <1>2 DEF KeysInv, Meant
<1>20. ReplayInv'
    BY <1>1, <1>2, <1>8, <1>15, <1>16, ReplayStep DEF ReplayInv
<1> QED BY <1>12, <1>13, <1>14, <1>17, <1>18, <1>19, <1>20

\* What a commit writes to the layer of its delta.
LEMMA Written ==
    ASSUME Inv, phase = "edited"
    PROVE  \E d \in DOMAIN deltas, l \in Layers, p \in Pks, old \in Table, new \in Table :
              /\ d = Head(todo) /\ l = deltas[d].layer /\ p = at /\ todo # <<>> /\ d \in DeltaIds
              /\ old = Committed(l) /\ new = edit[l] /\ new = [old EXCEPT ![p] = new[p]]
              /\ Makes(d, old[p], new[p]) /\ \A q \in Pks \ {p} : new[q] = old[q]
              /\ \/ deltas[d].method = "create" /\ old[p] = None /\ By(new[p], d)
                 \/ /\ deltas[d].method # "create" /\ IsFeature(old[p]) /\ p \in SourcePks(d)
                    /\ new[p] = Gone \/ By(new[p], old[p].by)
              /\ status[d] = "started" /\ NotYet(d)
              /\ \A k \in Layers : edit[k] # None => k = l
<1> USE DEF Inv
<1>1. PICK d \in DOMAIN deltas, l \in Layers :
         /\ d = Head(todo) /\ l = deltas[d].layer /\ todo # <<>> /\ d \in DeltaIds
         /\ 1 \in DOMAIN todo /\ todo[1] = d
         /\ \A k \in Layers : edit[k] # None => k = l
    BY FirstDelta DEF EditInv, Loop
<1>2. PICK p \in Pks : p = at
    BY DEF EditInv
<1>3. /\ edit[l] = [Committed(l) EXCEPT ![p] = edit[l][p]] /\ edit[l] # None
      /\ Makes(d, Committed(l)[p], edit[l][p])
      /\ deltas[d].method # "create" => p \in SourcePks(d)
    BY <1>1, <1>2 DEF EditInv
<1>4. PICK old \in Table, new \in Table : old = Committed(l) /\ new = edit[l]
    BY <1>3, CommittedIs DEF TypeOK
<1>5. new = [old EXCEPT ![p] = new[p]] /\ Makes(d, old[p], new[p])
    BY <1>3, <1>4
<1>6. \A q \in Pks \ {p} : new[q] = old[q]
    BY <1>5 DEF Table
<1>7. /\ \/ deltas[d].method = "create" /\ old[p] = None /\ By(new[p], d)
         \/ /\ deltas[d].method # "create" /\ IsFeature(old[p])
            /\ new[p] = Gone \/ By(new[p], old[p].by)
    <2>1. old[p] \in Feature \cup {None, Gone}
        BY FeatureOf
    <2>2. deltas[d].method # "delete" => deltas[d].new \in Values
        BY DEF KeysInv
    <2> QED BY <1>5, <2>1, <2>2, Made
<1>8. status[d] = "started" /\ \A i \in DOMAIN log : log[i].delta # d
    BY <1>1 DEF JobInv
<1>9. NotYet(d)
    BY <1>8 DEF NotYet
<1> QED BY <1>1, <1>2, <1>3, <1>4, <1>5, <1>6, <1>7, <1>8, <1>9

\* The features of the layer stay sound, free and the same.
LEMMA WrittenIsSound ==
    ASSUME Inv, NEW d \in DOMAIN deltas, NEW l \in Layers, l = deltas[d].layer,
           NEW p \in Pks, NEW old \in Table, NEW new \in Table,
           Sound(old, l), d \notin spilt => Free(old, d), \A q \in Pks \ {p} : new[q] = old[q],
           \/ deltas[d].method = "create" /\ old[p] = None /\ By(new[p], d)
           \/ /\ deltas[d].method # "create" /\ IsFeature(old[p])
              /\ new[p] = Gone \/ By(new[p], old[p].by)
    PROVE  /\ Sound(new, l)
           /\ \A e \in DeltaIds : e # d /\ Free(old, e) => Free(new, e)
           /\ \A q \in Pks : \A x : Same(old[q], x) => Same(new[q], x)
<1>1. \A q \in Pks : \A x : Same(old[q], x) => Same(new[q], x)
    BY Markers DEF Same, By, IsFeature
<1>2. \A q \in Pks : \A e : By(new[q], e) => By(old[q], e) \/ (q = p /\ e = d /\ old[p] = None)
    BY Markers DEF By, IsFeature
<1>3. Sound(new, l)
    <2>1. new[1] = Gone \/ By(new[1], 0)
        BY <1>1, Markers DEF Sound, Same
    <2>2. ASSUME NEW q \in Pks, IsFeature(new[q]), new[q].by # 0
          PROVE  new[q].by \in DOMAIN deltas /\ deltas[new[q].by].layer = l
        <3>1. By(new[q], new[q].by)
            BY <2>2 DEF By
        <3>2. CASE By(old[q], new[q].by)
            BY <2>2, <3>2 DEF Sound, By
        <3>3. CASE new[q].by = d
            BY <3>3
        <3> QED BY <1>2, <3>1, <3>2, <3>3
    <2>3. ASSUME NEW e \in DeltaIds \ spilt, NEW q \in Pks, NEW r \in Pks, By(new[q], e), By(new[r], e)
          PROVE  q = r
        <3>1. CASE By(old[q], e) /\ By(old[r], e)
            BY <3>1 DEF Sound
        <3>2. CASE e = d
            <4>1. Free(old, d)
                BY <2>3, <3>2
            <4> QED BY <1>2, <2>3, <3>2, <4>1 DEF Free
        <3> QED BY <1>2, <2>3, <3>1, <3>2
    <2> QED BY <2>1, <2>2, <2>3 DEF Sound
<1>4. \A e \in DeltaIds : e # d /\ Free(old, e) => Free(new, e)
    BY <1>2 DEF Free
<1> QED BY <1>1, <1>3, <1>4

LEMMA CommitKept ==
    ASSUME Inv, CommitChanges PROVE Inv'
<1> USE DEF Inv
<1>1. /\ phase = "edited" /\ phase' = "next" /\ at' = None /\ todo' = Tail(todo)
      /\ UNCHANGED <<overwrite, unsent, before, failures>> /\ serverUnchanged
    BY DEF CommitChanges
<1>2. UNCHANGED <<local, deltas, status, modifiedPk, spilt, retries, before>>
    BY <1>1 DEF serverUnchanged
<1>3. PICK d \in DOMAIN deltas, l \in Layers, p \in Pks, old \in Table, new \in Table :
         /\ d = Head(todo) /\ l = deltas[d].layer /\ p = at /\ todo # <<>> /\ d \in DeltaIds
         /\ old = Committed(l) /\ new = edit[l] /\ new = [old EXCEPT ![p] = new[p]]
         /\ Makes(d, old[p], new[p]) /\ \A q \in Pks \ {p} : new[q] = old[q]
         /\ \/ deltas[d].method = "create" /\ old[p] = None /\ By(new[p], d)
            \/ /\ deltas[d].method # "create" /\ IsFeature(old[p]) /\ p \in SourcePks(d)
               /\ new[p] = Gone \/ By(new[p], old[p].by)
         /\ status[d] = "started" /\ NotYet(d)
         /\ \A k \in Layers : edit[k] # None => k = l
    BY <1>1, Written
<1>4. PICK x : x = Identity(l)
    OBVIOUS
<1>5. /\ IF l \in OnlineLayers
         THEN data' = [data EXCEPT ![l] = new] /\ UNCHANGED work
         ELSE work' = [work EXCEPT ![l] = new] /\ UNCHANGED data
      /\ edit' = [edit EXCEPT ![l] = None]
      /\ log' = Append(log, [delta |-> d, status |-> "applied", pk |-> p])
      /\ hit' = [hit EXCEPT ![d] = x]
    BY <1>3, <1>4 DEF CommitChanges
<1>6. Same(new[p], x) /\ x \in 0..MaxDeltas /\ x # None /\ (deltas[d].method = "create" => x = d)
    <2>1. x = IF IsFeature(new[p]) THEN new[p].by ELSE old[p].by
        BY <1>3, <1>4 DEF Identity
    <2>2. (IsFeature(new[p]) => new[p].by \in 0..MaxDeltas)
          /\ (IsFeature(old[p]) => old[p].by \in 0..MaxDeltas)
        BY FeatureOf
    <2>3. Same(new[p], x) /\ x \in 0..MaxDeltas /\ (deltas[d].method = "create" => x = d)
        BY <1>3, <2>1, <2>2 DEF By, Same, IsFeature
    <2> QED BY <2>3, Markers
<1>7. PICK e : e = [delta |-> d, status |-> "applied", pk |-> p]
    OBVIOUS
<1>8. e \in Entry /\ e.delta = d /\ e.pk = p /\ e.status = "applied" /\ log' = Append(log, e) /\ p # None
    <2>1. p # None
        BY Markers
    <2> QED BY <1>3, <1>5, <1>7, <2>1 DEF Entry
<1>9. PICK n : n = Len(log) + 1
    OBVIOUS
<1>10. /\ DOMAIN log' = DOMAIN log \cup {n} /\ n \notin DOMAIN log /\ log'[n] = e
       /\ \A i \in DOMAIN log : log'[i] = log[i]
       /\ log' \in Seq(Entry)
    BY <1>8, <1>9, Logging
<1>11. /\ todo' \in Seq(DeltaIds)
       /\ \A i \in DOMAIN todo' : i + 1 \in DOMAIN todo /\ todo'[i] = todo[i + 1] /\ i \in Nat \ {0}
       /\ 1 \in DOMAIN todo /\ todo[1] = d
    BY <1>1, <1>3, FirstDelta
<1>12. /\ \A k \in Layers \ {l} : Committed(k)' = Committed(k)
       /\ Committed(l)' = new
       /\ \A k \in Layers : data'[k] = data[k] \/ (k = l /\ l \in OnlineLayers /\ data'[k] = new)
       /\ \A k \in FileLayers : work'[k] = work[k] \/ (k = l /\ work'[k] = new)
       /\ data' \in [Layers -> Table] /\ work' \in [FileLayers -> Table]
    <2>1. data \in [Layers -> Table] /\ work \in [FileLayers -> Table]
        BY DEF TypeOK
    <2>2. CASE l \in OnlineLayers
        BY <1>5, <2>1, <2>2, Markers DEF Committed
    <2>3. CASE l \notin OnlineLayers
        BY <1>5, <2>1, <2>3, Markers DEF Committed
    <2> QED BY <2>2, <2>3
<1>13. hit' \in [DOMAIN deltas -> 0..MaxDeltas \cup {None}] /\ hit'[d] = x
       /\ \A y \in DOMAIN deltas \ {d} : hit'[y] = hit[y]
    BY <1>5, <1>6 DEF TypeOK
<1>14. edit' = [k \in Layers |-> edit'[k]] /\ \A k \in Layers : edit'[k] = None
    <2>1. edit = [k \in Layers |-> edit[k]]
        BY DEF EditInv
    <2> QED BY <1>3, <1>5, <2>1
<1>15. TypeOK'
    BY <1>1, <1>2, <1>10, <1>11, <1>12, <1>13, <1>14 DEF TypeOK
<1>16. JobInv'
    <2>1. phase \in Loop
        BY <1>1 DEF Loop
    <2> QED BY <1>1, <1>2, <1>6, <1>8, <1>10, <1>11, <1>13, <2>1, TodoMoves
<1>17. EditInv'
    BY <1>1, <1>14 DEF EditInv, Loop
<1>18. phase \in Working /\ phase' \in Working
    BY <1>1 DEF Working, Loop
<1>19. /\ Sound(new, l)
       /\ \A y \in DeltaIds : y # d /\ Free(old, y) => Free(new, y)
       /\ \A q \in Pks : \A y : Same(old[q], y) => Same(new[q], y)
    <2>1. Sound(old, l)
        BY <1>3, CommittedIs, Markers DEF FreeInv
    <2>2. d \notin spilt => Free(old, d)
        BY <1>3, <1>18 DEF FreeInv
    <2>3. l = deltas[d].layer /\ \A q \in Pks \ {p} : new[q] = old[q]
        BY <1>3
    <2>4. \/ deltas[d].method = "create" /\ old[p] = None /\ By(new[p], d)
          \/ /\ deltas[d].method # "create" /\ IsFeature(old[p])
             /\ new[p] = Gone \/ By(new[p], old[p].by)
        BY <1>3
    <2> QED BY <2>1, <2>2, <2>3, <2>4, WrittenIsSound
<1>20. FreeInv'
    <2>1. \A table, k : Sound(table, k)' = Sound(table, k)
        BY <1>2 DEF Sound
    <2>2. \A y : NotYet(y)' => NotYet(y) /\ y # d
        BY <1>2, <1>8, <1>10 DEF NotYet
    <2>3. \A table, y : Free(table, y)' = Free(table, y)
        BY DEF Free
    <2>4. \A k \in Layers : Sound(data[k], k)' /\ (k \in FileLayers => Sound(work[k], k)')
        BY <1>2, <1>12, <1>19, <2>1 DEF FreeInv, Sound
    <2>5. ASSUME NEW y \in DeltaIds \ spilt, NotYet(y)'
          PROVE  \A k \in Layers : Free(data'[k], y) /\ Free(Committed(k)', y)
        <3>1. NotYet(y) /\ y # d /\ \A k \in Layers : Free(data[k], y) /\ Free(Committed(k), y)
            BY <1>18, <2>2, <2>5 DEF FreeInv
        <3>2. Free(new, y)
            BY <1>3, <1>19, <3>1
        <3> QED BY <1>12, <3>1, <3>2
    <2>6. \A y \in DeltaIds \ spilt :
             (y \in DOMAIN deltas => status[y] # "applied") => \A k \in Layers : Free(before[k], y)
        BY <1>18 DEF FreeInv
    <2> QED BY <1>1, <1>2, <1>18, <2>3, <2>4, <2>5, <2>6 DEF FreeInv
<1>21. HitInv'
    <2>1. \A k \in Layers, q \in Pks : \A y :
             /\ Same(data[k][q], y) => Same(data'[k][q], y)
             /\ Same(Committed(k)[q], y) => Same(Committed(k)'[q], y)
        <3> TAKE k \in Layers, q \in Pks
        <3> TAKE y
        <3>1. l \in OnlineLayers => old = data[l]
            BY <1>3, CommittedIs
        <3> QED BY <1>3, <1>12, <1>19, <3>1
    <2>2. ASSUME NEW y \in DOMAIN deltas, modifiedPk[y] # None,
                 NEW k \in Layers, k = deltas[y].layer, NEW q \in Pks, q = modifiedPk[y]
          PROVE  /\ Same(data'[k][q], hit'[y]) /\ Same(Committed(k)'[q], hit'[y])
                 /\ deltas[y].method = "create" => hit'[y] = y
        <3>1. y # d
            BY <1>3, <2>2 DEF JobInv
        <3>2. /\ Same(data[k][q], hit[y]) /\ Same(Committed(k)[q], hit[y])
              /\ deltas[y].method = "create" => hit[y] = y
            BY <1>18, <2>2 DEF HitInv
        <3> QED BY <1>13, <2>1, <3>1, <3>2
    <2>3. ASSUME NEW i \in DOMAIN log', log'[i].status = "applied",
                 NEW y \in DOMAIN deltas, y = log'[i].delta,
                 NEW k \in Layers, k = deltas[y].layer, NEW q \in Pks, q = log'[i].pk
          PROVE  Same(Committed(k)'[q], hit'[y]) /\ (deltas[y].method = "create" => hit'[y] = y)
        <3>1. CASE i = n
            <4>1. y = d /\ k = l /\ q = p
                BY <1>3, <1>8, <1>10, <2>3, <3>1
            <4> QED BY <1>6, <1>12, <1>13, <4>1
        <3>2. CASE i \in DOMAIN log
            <4>1. log'[i] = log[i] /\ y = log[i].delta /\ q = log[i].pk /\ log[i].status = "applied"
                BY <1>10, <2>3, <3>2
            <4>2. y # d
                BY <1>11, <3>2, <4>1 DEF JobInv
            <4>3. Same(Committed(k)[q], hit[y]) /\ (deltas[y].method = "create" => hit[y] = y)
                BY <1>18, <2>3, <3>2, <4>1 DEF HitInv
            <4> QED BY <1>13, <2>1, <4>2, <4>3
        <3> QED BY <1>10, <2>3, <3>1, <3>2
    <2>4. ASSUME NEW y \in DOMAIN deltas
          PROVE  deltas[y].layer \in Layers /\ modifiedPk[y] \in Pks \cup {None}
        BY Rows DEF TypeOK
    <2>5. ASSUME NEW i \in DOMAIN log', log'[i].status = "applied"
          PROVE  log'[i].delta \in DOMAIN deltas /\ log'[i].pk \in Pks
        <3>1. log'[i].delta \in DOMAIN deltas' /\ log'[i].pk # None
            BY <1>16, <2>5 DEF JobInv
        <3>2. log'[i] \in Entry
            <4>1. \A j \in DOMAIN log : log[j] \in Entry
                BY DEF TypeOK
            <4> QED BY <1>8, <1>10, <2>5, <4>1
        <3> QED BY <1>2, <3>1, <3>2 DEF Entry
    <2>6. ASSUME NEW y \in DOMAIN deltas', (modifiedPk[y] # None)'
          PROVE  /\ Same(data[deltas[y].layer][modifiedPk[y]], hit[y])'
                 /\ Same(Committed(deltas[y].layer)[modifiedPk[y]], hit[y])'
                 /\ (deltas[y].method = "create" => hit[y] = y)'
        BY <1>2, <2>2, <2>4, <2>6 DEF Same, By, IsFeature
    <2>7. ASSUME NEW i \in DOMAIN log', (log[i].status = "applied")'
          PROVE  /\ Same(Committed(deltas[log[i].delta].layer)[log[i].pk], hit[log[i].delta])'
                 /\ (deltas[log[i].delta].method = "create" => hit[log[i].delta] = log[i].delta)'
        BY <1>2, <2>3, <2>4, <2>5, <2>7 DEF Same, By, IsFeature
    <2> QED BY <2>6, <2>7 DEF HitInv
<1>22. KeysInv'
    BY <1>2 DEF KeysInv, Meant
<1>23. ReplayInv'
    <2>1. Effect(old, e) = new
        BY <1>3, <1>8 DEF Effect, Makes
    <2>2. ASSUME NEW k \in Layers PROVE Replayed(k)'
        <3>1. Committed(k)' = IF e.status = "applied" /\ deltas[e.delta].layer = k
                              THEN Effect(Committed(k), e) ELSE Committed(k)
            BY <1>3, <1>8, <1>12, <2>1
        <3>2. Replayed(k)
            BY <1>18 DEF ReplayInv
        <3> QED BY <1>2, <1>8, <3>1, <3>2, ReplayStep
    <2> QED BY <2>2 DEF ReplayInv
<1> QED BY <1>15, <1>16, <1>17, <1>20, <1>21, <1>22, <1>23

-----------------------------------------------------------------------------
(* The steps around the loop.                                              *)

\* The invariants speak of the status of a delta only as far as this.
LEMMA StatusMoves ==
    ASSUME Inv, status' \in [DOMAIN deltas -> DeltaStatus],
           \A d \in DOMAIN deltas : status'[d] = "applied" <=> status[d] = "applied",
           \A d \in DOMAIN deltas : status[d] = "started" => status'[d] = "started",
           phase' = phase \/ (phase = "idle" /\ phase' = "started"),
           IF phase' = phase THEN todo' = todo
           ELSE /\ todo' \in Seq(DeltaIds) /\ \A i, j \in DOMAIN todo' : todo'[i] = todo'[j] => i = j
                /\ \A i \in DOMAIN todo' : todo'[i] \in DOMAIN deltas /\ status'[todo'[i]] = "started",
           overwrite' \in BOOLEAN, retries' \in 0..MaxRetries,
           UNCHANGED <<local, deltas, modifiedPk, data, work, edit, at, log, unsent, before, hit, spilt, failures>>
    PROVE  Inv'
<1> USE DEF Inv
<1>1. TypeOK'
    BY DEF TypeOK
<1>2. phase' # phase => log = <<>>
    BY DEF JobInv
<1>3. JobInv'
    BY <1>2 DEF JobInv
<1>4. EditInv'
    <2>1. CASE phase' = phase
        <3>1. \A d, old, new : Makes(d, old, new)' = Makes(d, old, new)
            BY DEF Makes, IsFeature
        <3>2. /\ \A l : Committed(l)' = Committed(l)
              /\ \A d : SourcePks(d)' = SourcePks(d)
            BY DEF Committed, SourcePks, ClientPks, SameKey
        <3>3. EditInv
            OBVIOUS
        <3> QED BY <2>1, <3>1, <3>2, <3>3 DEF EditInv
    <2>2. CASE phase' = "started"
        BY <2>2 DEF EditInv, Loop
    <2> QED BY <2>1, <2>2
<1>5. \A k : Committed(k)' = Committed(k)
    BY DEF Committed
<1>6. phase' \in Working => phase \in Working
    BY DEF Working, Loop
<1>7. FreeInv'
    <2>1. \A table, k : Sound(table, k)' = Sound(table, k)
        BY DEF Sound
    <2>2. \A d : NotYet(d)' => NotYet(d)
        BY DEF NotYet
    <2>3. \A table, d : Free(table, d)' = Free(table, d)
        BY DEF Free
    <2>4. phase' \in {"stopped", "succeeded"} => phase \in {"stopped", "succeeded"}
        OBVIOUS
    <2> QED BY <1>5, <1>6, <2>1, <2>2, <2>3, <2>4 DEF FreeInv
<1>8. HitInv'
    BY <1>5, <1>6 DEF HitInv, Same, By, IsFeature
<1>9. KeysInv'
    BY DEF KeysInv, Meant
<1>10. ReplayInv'
    BY <1>5, <1>6, SameReplay DEF ReplayInv
<1> QED BY <1>1, <1>3, <1>4, <1>7, <1>8, <1>9, <1>10

LEMMA TakeKept ==
    ASSUME Inv, TakeDeltas PROVE Inv'
<1> USE DEF Inv
<1>1. /\ phase = "idle" /\ phase' = "started" /\ log' = <<>> /\ todo' \in Orders(Pending)
      /\ overwrite' \in BOOLEAN
      /\ status' = [d \in DOMAIN deltas |-> IF d \in Pending THEN "started" ELSE status[d]]
      /\ UNCHANGED <<local, deltas, modifiedPk, data, work, edit, at, unsent, before, hit,
                     spilt, retries, failures>>
    BY DEF TakeDeltas
<1>2. log' = log
    BY <1>1 DEF JobInv
<1>3. /\ Pending \subseteq DOMAIN deltas /\ IsFiniteSet(Pending) /\ DOMAIN deltas \subseteq DeltaIds
      /\ \A d \in Pending : status[d] = "pending"
    <2>1. Pending \subseteq DOMAIN deltas /\ \A d \in Pending : status[d] = "pending"
        BY DEF Pending
    <2> QED BY <2>1, Rows, FS_Subset
<1>4. /\ todo' \in Seq(Pending) /\ DOMAIN todo' = 1..Cardinality(Pending)
      /\ \A i, j \in DOMAIN todo' : todo'[i] = todo'[j] => i = j
      /\ \A i \in DOMAIN todo' : todo'[i] \in Pending
    BY <1>1, <1>3, Ordered
<1>5. todo' \in Seq(DeltaIds)
    BY <1>3, <1>4
<1>6. \A i \in DOMAIN todo' : todo'[i] \in DOMAIN deltas /\ status'[todo'[i]] = "started"
    BY <1>1, <1>3, <1>4
<1>7. status' \in [DOMAIN deltas -> DeltaStatus]
    BY <1>1 DEF TypeOK, DeltaStatus
<1>8. /\ \A d \in DOMAIN deltas : status'[d] = "applied" <=> status[d] = "applied"
      /\ \A d \in DOMAIN deltas : status[d] = "started" => status'[d] = "started"
    BY <1>1, <1>3
<1>9. retries' \in 0..MaxRetries
    BY <1>1 DEF TypeOK
<1>10. /\ phase' = phase \/ (phase = "idle" /\ phase' = "started")
       /\ IF phase' = phase THEN todo' = todo
          ELSE /\ todo' \in Seq(DeltaIds) /\ \A i, j \in DOMAIN todo' : todo'[i] = todo'[j] => i = j
               /\ \A i \in DOMAIN todo' : todo'[i] \in DOMAIN deltas /\ status'[todo'[i]] = "started"
    BY <1>1, <1>4, <1>5, <1>6
<1> QED BY <1>1, <1>2, <1>7, <1>8, <1>9, <1>10, StatusMoves

LEMMA RetryKept ==
    ASSUME Inv, NEW d \in DeltaIds, Retry(d) PROVE Inv'
<1> USE DEF Inv
<1>1. /\ d \in DOMAIN deltas /\ status[d] \in {"error", "conflict", "not_applied"}
      /\ retries < MaxRetries /\ retries' = retries + 1
      /\ status' = [status EXCEPT ![d] = "pending"]
      /\ UNCHANGED <<local, deltas, modifiedPk, data, jobVars, hit, spilt, failures>>
    BY DEF Retry
<1>2. UNCHANGED <<phase, overwrite, todo, work, edit, at, log, unsent, before>>
    BY <1>1 DEF jobVars
<1>3. retries' \in 0..MaxRetries
    BY <1>1, DeltaApplyAssumption DEF TypeOK
<1>4. status' \in [DOMAIN deltas -> DeltaStatus]
    BY <1>1 DEF TypeOK, DeltaStatus
<1>5. /\ \A e \in DOMAIN deltas : status'[e] = "applied" <=> status[e] = "applied"
      /\ \A e \in DOMAIN deltas : status[e] = "started" => status'[e] = "started"
    BY <1>1 DEF TypeOK
<1>6. overwrite' \in BOOLEAN
    BY <1>2 DEF TypeOK
<1> QED BY <1>1, <1>2, <1>3, <1>4, <1>5, <1>6, StatusMoves

LEMMA DownloadKept ==
    ASSUME Inv, Download PROVE Inv'
<1> USE DEF Inv
<1>1. /\ phase = "started" /\ phase' = "next"
      /\ work' = [l \in FileLayers |-> data[l]] /\ before' = data
      /\ edit' = [l \in Layers |-> None]
      /\ UNCHANGED <<data, overwrite, todo, at, log, unsent, hit, failures,
                     local, deltas, status, modifiedPk, spilt, retries>>
    BY DEF Download, serverUnchanged
<1>2. log = <<>> /\ log' = <<>> /\ Len(log') = 0
    BY <1>1 DEF JobInv
<1>3. \A l \in Layers : data[l] \in Table /\ Committed(l)' = data[l] /\ before'[l] = data[l]
    BY <1>1, Markers DEF TypeOK, Committed
<1>4. TypeOK'
    <2>1. work' \in [FileLayers -> Table]
        BY <1>1, <1>3, Markers
    <2> QED BY <1>1, <2>1 DEF TypeOK
<1>5. JobInv'
    BY <1>1 DEF JobInv
<1>6. EditInv'
    BY <1>1 DEF EditInv, Loop
<1>7. FreeInv'
    <2>1. \A table, k : Sound(table, k)' = Sound(table, k)
        BY <1>1 DEF Sound
    <2>2. \A d : NotYet(d)' = NotYet(d)
        BY <1>1 DEF NotYet
    <2>3. \A table, d : Free(table, d)' = Free(table, d)
        BY DEF Free
    <2>4. \A k \in FileLayers : work'[k] = data[k] /\ k \in Layers
        BY <1>1, Markers
    <2>5. \A d \in DeltaIds : (d \in DOMAIN deltas => status[d] # "applied") => NotYet(d)
        BY <1>2 DEF NotYet
    <2>6. \A l \in Layers : Sound(data[l], l)' /\ (l \in FileLayers => Sound(work[l], l)')
        BY <1>1, <2>1, <2>4 DEF FreeInv, Sound
    <2>7. \A d \in DeltaIds \ spilt : NotYet(d) => \A l \in Layers : Free(data[l], d)
        BY DEF FreeInv
    <2> QED BY <1>1, <1>3, <2>2, <2>3, <2>5, <2>6, <2>7 DEF FreeInv
<1>8. HitInv'
    <2>1. ASSUME NEW e \in DOMAIN deltas, modifiedPk[e] # None, NEW l \in Layers, l = deltas[e].layer
          PROVE  Same(data[l][modifiedPk[e]], hit[e])' /\ Same(Committed(l)[modifiedPk[e]], hit[e])'
        BY <1>1, <1>3, <2>1 DEF HitInv, Same, By, IsFeature
    <2>2. \A e \in DOMAIN deltas : deltas[e].layer \in Layers
        BY Rows
    <2> QED BY <1>1, <1>2, <2>1, <2>2 DEF HitInv
<1>9. KeysInv'
    BY <1>1 DEF KeysInv, Meant
<1>10. ReplayInv'
    <2>1. ASSUME NEW l \in Layers PROVE Replayed(l)'
        <3>1. PICK s : s = [n \in 0..0 |-> data[l]]
            OBVIOUS
        <3>2. /\ s[0] = data[l] /\ s = [n \in 0..0 |-> s[n]] /\ \A n \in 0..0 : n = 0
            BY <3>1
        <3>3. IsReplay(s, l)'
            BY <1>2, <1>3, <3>2 DEF IsReplay
        <3> QED BY <1>2, <1>3, <3>2, <3>3 DEF Replayed
    <2> QED BY <2>1 DEF ReplayInv
<1> QED BY <1>4, <1>5, <1>6, <1>7, <1>8, <1>9, <1>10

LEMMA StopKept ==
    ASSUME Inv, StopQgis PROVE Inv'
<1> USE DEF Inv
<1>1. /\ phase = "next" /\ todo = <<>> /\ unsent' = FileLayers /\ phase' = "stopped"
      /\ UNCHANGED <<data, overwrite, todo, work, edit, at, log, before, hit, failures,
                     local, deltas, status, modifiedPk, spilt, retries>>
    BY DEF StopQgis, AllApplied, serverUnchanged
<1>2. TypeOK'
    BY <1>1 DEF TypeOK
<1>3. JobInv'
    BY <1>1 DEF JobInv
<1>4. EditInv'
    BY <1>1 DEF EditInv, Loop
<1>5. \A k : Committed(k)' = Committed(k)
    BY <1>1 DEF Committed
<1>6. phase \in Working /\ phase' \in Working
    BY <1>1 DEF Working, Loop
<1>7. FreeInv'
    <2>1. \A table, k : Sound(table, k)' = Sound(table, k)
        BY <1>1 DEF Sound
    <2>2. \A d : NotYet(d)' = NotYet(d)
        BY <1>1 DEF NotYet
    <2>3. \A table, d : Free(table, d)' = Free(table, d)
        BY DEF Free
    <2> QED BY <1>1, <1>5, <1>6, <2>1, <2>2, <2>3 DEF FreeInv
<1>8. HitInv'
    BY <1>1, <1>5, <1>6 DEF HitInv, Same, By, IsFeature
<1>9. KeysInv'
    BY <1>1 DEF KeysInv, Meant
<1>10. ReplayInv'
    BY <1>1, <1>5, <1>6, SameReplay DEF ReplayInv
<1> QED BY <1>2, <1>3, <1>4, <1>7, <1>8, <1>9, <1>10

LEMMA UploadKept ==
    ASSUME Inv, NEW l \in FileLayers, UploadLayer(l) PROVE Inv'
<1> USE DEF Inv
<1>1. /\ phase = "stopped" /\ data' = [data EXCEPT ![l] = work[l]] /\ unsent' = unsent \ {l}
      /\ phase' \in {"stopped", "succeeded"} /\ (phase' = "succeeded" => unsent' = {})
      /\ UNCHANGED <<overwrite, todo, work, edit, at, log, before, hit, failures,
                     local, deltas, status, modifiedPk, spilt, retries>>
    BY DEF UploadLayer, serverUnchanged
<1>2. /\ l \in Layers /\ data' \in [Layers -> Table] /\ data'[l] = work[l] /\ work[l] = Committed(l)
      /\ \A k \in Layers \ {l} : data'[k] = data[k]
      /\ \A k \in Layers : Committed(k)' = Committed(k)
    BY <1>1, Markers DEF TypeOK, Committed
<1>3. TypeOK'
    BY <1>1, <1>2 DEF TypeOK
<1>4. JobInv'
    BY <1>1 DEF JobInv
<1>5. EditInv'
    BY <1>1 DEF EditInv, Loop
<1>6. phase \in Working /\ phase' \in Working
    BY <1>1 DEF Working, Loop
<1>7. FreeInv'
    <2>1. \A table, k : Sound(table, k)' = Sound(table, k)
        BY <1>1 DEF Sound
    <2>2. \A d : NotYet(d)' = NotYet(d)
        BY <1>1 DEF NotYet
    <2>3. \A table, d : Free(table, d)' = Free(table, d)
        BY DEF Free
    <2>4. \A k \in Layers : Sound(data'[k], k) /\ (k \in FileLayers => Sound(work[k], k))
        BY <1>2 DEF FreeInv
    <2>5. \A d \in DeltaIds \ spilt : NotYet(d) =>
              \A k \in Layers : Free(data'[k], d) /\ Free(Committed(k), d)
        BY <1>2, <1>6 DEF FreeInv
    <2>6. \A k \in FileLayers \ unsent' : data'[k] = work[k]
        BY <1>1, <1>2, Markers DEF FreeInv
    <2>7. \A k \in Layers : Sound(data[k], k)' /\ (k \in FileLayers => Sound(work[k], k)')
        BY <1>1, <2>1, <2>4 DEF Sound
    <2> QED BY <1>1, <1>2, <1>6, <2>2, <2>3, <2>5, <2>6, <2>7 DEF FreeInv
<1>8. HitInv'
    <2>1. ASSUME NEW e \in DOMAIN deltas, modifiedPk[e] # None, NEW k \in Layers, k = deltas[e].layer
          PROVE  Same(data[k][modifiedPk[e]], hit[e])' /\ Same(Committed(k)[modifiedPk[e]], hit[e])'
        <3>1. Same(data[k][modifiedPk[e]], hit[e]) /\ Same(Committed(k)[modifiedPk[e]], hit[e])
            BY <1>6, <2>1 DEF HitInv
        <3> QED BY <1>1, <1>2, <3>1 DEF Same, By, IsFeature
    <2>2. \A e \in DOMAIN deltas : deltas[e].layer \in Layers
        BY Rows
    <2>3. ASSUME NEW i \in DOMAIN log, log[i].status = "applied", NEW e \in DOMAIN deltas, e = log[i].delta,
                 NEW k \in Layers, k = deltas[e].layer
          PROVE  Same(Committed(k)[log[i].pk], hit[e])'
        BY <1>1, <1>2, <1>6, <2>3 DEF HitInv, Same, By, IsFeature
    <2>4. \A i \in DOMAIN log : log[i].delta \in DOMAIN deltas
        BY DEF JobInv
    <2>5. \A e \in DOMAIN deltas' : (modifiedPk[e] # None)' =>
              /\ Same(data[deltas[e].layer][modifiedPk[e]], hit[e])'
              /\ Same(Committed(deltas[e].layer)[modifiedPk[e]], hit[e])'
              /\ (deltas[e].method = "create" => hit[e] = e)'
        BY <1>1, <2>1, <2>2 DEF HitInv
    <2>6. \A i \in DOMAIN log' : (log[i].status = "applied")' =>
              /\ Same(Committed(deltas[log[i].delta].layer)[log[i].pk], hit[log[i].delta])'
              /\ (deltas[log[i].delta].method = "create" => hit[log[i].delta] = log[i].delta)'
        BY <1>1, <2>2, <2>3, <2>4 DEF HitInv
    <2> QED BY <2>5, <2>6 DEF HitInv
<1>9. KeysInv'
    BY <1>1 DEF KeysInv, Meant
<1>10. ReplayInv'
    BY <1>1, <1>2, <1>6, SameReplay DEF ReplayInv
<1> QED BY <1>3, <1>4, <1>5, <1>7, <1>8, <1>9, <1>10

-----------------------------------------------------------------------------
(* The hooks and the clients.                                              *)

LEMMA AfterRunKept ==
    ASSUME Inv, AfterRun PROVE Inv'
<1> USE DEF Inv
<1>1. /\ phase = "succeeded" /\ phase' = "idle" /\ log' = <<>>
      /\ UNCHANGED <<local, deltas, data, overwrite, todo, work, edit, at, unsent, before, hit,
                     spilt, retries, failures>>
    BY DEF AfterRun
<1>2. ASSUME NEW d \in DOMAIN deltas
      PROVE  \/ /\ status'[d] = status[d] /\ modifiedPk'[d] = modifiedPk[d]
                /\ \A i \in DOMAIN log : log[i].delta # d
             \/ \E i \in DOMAIN log :
                   log[i].delta = d /\ status'[d] = log[i].status /\ modifiedPk'[d] = log[i].pk
    <2>1. CASE Logged(d) = {}
        BY <2>1 DEF AfterRun, Logged
    <2>2. CASE Logged(d) # {}
        <3>1. PICK i : i = CHOOSE j \in Logged(d) : TRUE
            OBVIOUS
        <3>2. i \in Logged(d)
            BY <2>2, <3>1
        <3>3. status'[d] = log[i].status /\ modifiedPk'[d] = log[i].pk
            BY <2>2, <3>1 DEF AfterRun
        <3> QED BY <3>2, <3>3 DEF Logged
    <2> QED BY <2>1, <2>2
<1>3. \A i \in DOMAIN log : log[i] \in Entry /\ log[i].status \in DeltaStatus /\ log[i].pk \in Pks \cup {None}
    <2>1. \A i \in DOMAIN log : log[i] \in Entry
        BY DEF TypeOK
    <2> QED BY <2>1 DEF Entry, DeltaStatus
<1>4. TypeOK'
    <2>1. \A d \in DOMAIN deltas : status[d] \in DeltaStatus /\ modifiedPk[d] \in Pks \cup {None}
        BY DEF TypeOK
    <2>2. \A d \in DOMAIN deltas : status'[d] \in DeltaStatus /\ modifiedPk'[d] \in Pks \cup {None}
        BY <1>2, <1>3, <2>1
    <2>3. /\ status' = [d \in DOMAIN deltas |-> status'[d]]
          /\ modifiedPk' = [d \in DOMAIN deltas |-> modifiedPk'[d]]
        BY DEF AfterRun
    <2>4. /\ status' \in [DOMAIN deltas -> DeltaStatus]
          /\ modifiedPk' \in [DOMAIN deltas -> Pks \cup {None}]
        BY <2>2, <2>3
    <2> QED BY <1>1, <2>4 DEF TypeOK
<1>5. JobInv'
    <2>1. \A e \in DOMAIN deltas : modifiedPk'[e] # None => status'[e] = "applied" /\ hit[e] # None
        BY <1>2 DEF JobInv
    <2> QED BY <1>1, <2>1 DEF JobInv
<1>6. EditInv'
    BY <1>1 DEF EditInv, Loop
<1>7. \A d : NotYet(d)' => NotYet(d)
    <2> TAKE d
    <2>1. CASE d \in DOMAIN deltas
        <3>1. \A i, j \in DOMAIN log : log[i].delta = log[j].delta => i = j
            BY DEF JobInv
        <3>2. \A i \in DOMAIN log : log[i].delta = d => status[d] = "started"
            BY DEF JobInv
        <3> QED BY <1>1, <1>2, <2>1, <3>1, <3>2 DEF NotYet
    <2> QED BY <2>1 DEF NotYet
<1>8. FreeInv'
    <2>1. \A table, k : Sound(table, k)' = Sound(table, k)
        BY <1>1 DEF Sound
    <2>2. \A table, d : Free(table, d)' = Free(table, d)
        BY DEF Free
    <2>3. phase' \notin Working
        BY <1>1 DEF Working, Loop
    <2>4. \A l \in Layers : Sound(data[l], l)' /\ (l \in FileLayers => Sound(work[l], l)')
        BY <1>1, <2>1 DEF FreeInv, Sound
    <2> QED BY <1>1, <1>7, <2>2, <2>3, <2>4 DEF FreeInv
<1>9. HitInv'
    <2>1. ASSUME NEW e \in DOMAIN deltas, modifiedPk'[e] # None
          PROVE  /\ Same(data[deltas[e].layer][modifiedPk'[e]], hit[e])
                 /\ deltas[e].method = "create" => hit[e] = e
        <3>1. CASE modifiedPk'[e] = modifiedPk[e]
            BY <2>1, <3>1 DEF HitInv
        <3>2. ASSUME NEW i \in DOMAIN log, log[i].delta = e, modifiedPk'[e] = log[i].pk
              PROVE  /\ Same(data[deltas[e].layer][modifiedPk'[e]], hit[e])
                     /\ deltas[e].method = "create" => hit[e] = e
            <4>1. log[i].status = "applied"
                BY <2>1, <3>2 DEF JobInv
            <4>2. Committed(deltas[e].layer) = data[deltas[e].layer]
                <5>1. deltas[e].layer \in Layers /\ unsent = {}
                    BY <1>1, Rows DEF JobInv
                <5>2. deltas[e].layer \in FileLayers => data[deltas[e].layer] = work[deltas[e].layer]
                    BY <1>1, <5>1 DEF FreeInv
                <5> QED BY <5>1, <5>2, CommittedIs, Markers
            <4>3. phase \in Working
                BY <1>1 DEF Working
            <4> QED BY <3>2, <4>1, <4>2, <4>3 DEF HitInv
        <3> QED BY <1>2, <3>1, <3>2
    <2>2. phase' \notin Working
        BY <1>1 DEF Working, Loop
    <2> QED BY <1>1, <2>1, <2>2 DEF HitInv, Same, By, IsFeature
<1>10. KeysInv'
    BY <1>1 DEF KeysInv, Meant
<1>11. ReplayInv'
    BY <1>1 DEF ReplayInv, Working, Loop
<1> QED BY <1>4, <1>5, <1>6, <1>8, <1>9, <1>10, <1>11

LEMMA AfterExceptionKept ==
    ASSUME Inv, AfterException PROVE Inv'
<1> USE DEF Inv
<1>1. /\ phase = "error" /\ phase' = "idle" /\ todo' = <<>> /\ log' = <<>> /\ unsent' = {}
      /\ edit' = [l \in Layers |-> None] /\ at' = None
      /\ UNCHANGED <<local, deltas, data, overwrite, work, before, retries, failures>>
    BY DEF AfterException
<1>2. PICK mine : mine = {d \in DOMAIN deltas : status[d] = "started"}
    OBVIOUS
<1>3. /\ status' = [d \in DOMAIN deltas |-> IF d \in mine THEN "error" ELSE status[d]]
      /\ modifiedPk' = [d \in DOMAIN deltas |-> IF d \in mine THEN None ELSE modifiedPk[d]]
      /\ hit' = [d \in DOMAIN deltas |-> IF d \in mine THEN None ELSE hit[d]]
      /\ spilt' = spilt \cup {d \in mine : Reached(d)}
    BY <1>2 DEF AfterException
<1>4. \A d \in DOMAIN deltas : d \in mine <=> status[d] = "started"
    BY <1>2
<1>5. TypeOK'
    <2>1. /\ status' \in [DOMAIN deltas -> DeltaStatus]
          /\ modifiedPk' \in [DOMAIN deltas -> Pks \cup {None}]
          /\ hit' \in [DOMAIN deltas -> 0..MaxDeltas \cup {None}]
        BY <1>3 DEF TypeOK, DeltaStatus
    <2>2. spilt' \subseteq DeltaIds
        BY <1>2, <1>3, Rows DEF TypeOK
    <2> QED BY <1>1, <2>1, <2>2 DEF TypeOK
<1>6. \A e \in DOMAIN deltas : modifiedPk'[e] # None =>
          /\ modifiedPk'[e] = modifiedPk[e] /\ hit'[e] = hit[e] /\ modifiedPk[e] # None
          /\ status'[e] = "applied"
    BY <1>3, <1>4 DEF JobInv
<1>7. JobInv'
    BY <1>1, <1>6 DEF JobInv
<1>8. EditInv'
    BY <1>1 DEF EditInv, Loop
<1>9. FreeInv'
    <2>1. ASSUME NEW table, NEW k, Sound(table, k) PROVE Sound(table, k)'
        BY <1>1, <1>3, <2>1 DEF Sound
    <2>2. ASSUME NEW d \in DeltaIds \ spilt', NotYet(d)', NEW l \in Layers PROVE Free(data[l], d)
        <3>1. d \in DeltaIds \ spilt
            BY <1>3, <2>2
        <3>2. CASE NotYet(d)
            BY <3>1, <3>2 DEF FreeInv
        <3>3. CASE ~NotYet(d)
            <4>1. d \in DOMAIN deltas /\ status'[d] # "applied"
                BY <1>1, <2>2, <3>3 DEF NotYet
            <4>2. status[d] # "applied"
                BY <1>3, <1>4, <4>1
            <4>3. PICK i \in DOMAIN log : log[i].delta = d /\ log[i].status = "applied"
                BY <3>3, <4>2 DEF NotYet
            <4>4. d \in mine /\ log # <<>>
                BY <1>4, <4>1, <4>3 DEF JobInv
            <4>5. data[deltas[d].layer] = before[deltas[d].layer]
                BY <1>3, <2>2, <4>3, <4>4 DEF Reached, Logged
            <4>6. Free(before[l], d)
                BY <3>1, <4>2, <4>4 DEF FreeInv
            <4>7. CASE l = deltas[d].layer
                BY <4>5, <4>6, <4>7
            <4>8. CASE l # deltas[d].layer
                <5>1. Sound(data[l], l) /\ d # 0
                    BY <2>2 DEF FreeInv, DeltaIds
                <5> QED BY <4>8, <5>1 DEF Sound, Free, By
            <4> QED BY <4>7, <4>8
        <3> QED BY <3>2, <3>3
    <2>3. \A table, d : Free(table, d)' = Free(table, d)
        BY DEF Free
    <2>4. phase' \notin Working
        BY <1>1 DEF Working, Loop
    <2>5. ASSUME NEW l \in Layers PROVE Sound(data[l], l)' /\ (l \in FileLayers => Sound(work[l], l)')
        <3>1. PICK t, u : t = data[l] /\ u = work[l]
            OBVIOUS
        <3>2. Sound(t, l) /\ (l \in FileLayers => Sound(u, l))
            BY <3>1 DEF FreeInv
        <3>3. Sound(t, l)' /\ (l \in FileLayers => Sound(u, l)')
            BY <2>1, <3>2
        <3>4. t = data'[l] /\ u = work'[l]
            BY <1>1, <3>1
        <3> QED BY <3>3, <3>4 DEF Sound
    <2> QED BY <1>1, <2>2, <2>3, <2>4, <2>5 DEF FreeInv
<1>10. HitInv'
    <2>1. phase' \notin Working
        BY <1>1 DEF Working, Loop
    <2> QED BY <1>1, <1>6, <2>1 DEF HitInv, Same, By, IsFeature
<1>11. KeysInv'
    BY <1>1 DEF KeysInv, Meant
<1>12. ReplayInv'
    BY <1>1 DEF ReplayInv, Working, Loop
<1> QED BY <1>5, <1>7, <1>8, <1>9, <1>10, <1>11, <1>12

KeyOrNone == Pks \cup {None}
CreatorOrNone == 0..MaxDeltas \cup {None}

\* Deltas keep their rows.
LEMMA PushKept ==
    ASSUME Inv, NEW c \in Clients, NEW l \in Layers, NEW method \in {"create", "patch", "delete"},
           NEW pk \in Pks, NEW old \in Values \cup {None, Missing}, NEW new \in Values \cup {None},
           Push(c, l, method, pk, old, new),
           IF method = "create" THEN local[c][l][pk] = None ELSE local[c][l][pk] \in Values,
           method # "delete" => new \in Values
    PROVE  Inv'
<1> USE DEF Inv
<1>1. /\ Len(deltas) < MaxDeltas /\ phase = "idle"
      /\ deltas' = Append(deltas, [client |-> c, layer |-> l, method |-> method,
                                   pk |-> pk, old |-> old, new |-> new])
      /\ status' = Append(status, "pending") /\ modifiedPk' = Append(modifiedPk, None)
      /\ hit' = Append(hit, None)
      /\ UNCHANGED <<data, phase, overwrite, todo, work, edit, at, log, unsent, before,
                     spilt, retries, failures>>
    BY DEF Push, jobVars
<1>2. PICK row : row = [client |-> c, layer |-> l, method |-> method, pk |-> pk, old |-> old, new |-> new]
    OBVIOUS
<1>3. /\ row \in Delta /\ row.client = c /\ row.layer = l /\ row.method = method /\ row.pk = pk
      /\ row.new = new
    BY <1>2 DEF Delta
<1>4. PICK n : n = Len(deltas)
    OBVIOUS
<1>5. n \in Nat /\ DOMAIN deltas = 1..n /\ n + 1 \notin 1..n /\ 1..n + 1 = 1..n \cup {n + 1}
    BY <1>4, Rows
<1>6. /\ deltas' \in Seq(Delta) /\ Len(deltas') = n + 1 /\ DOMAIN deltas' = 1..n + 1
      /\ deltas'[n + 1] = row /\ \A d \in 1..n : deltas'[d] = deltas[d]
    BY <1>1, <1>2, <1>3, <1>4, <1>5 DEF TypeOK
<1>7. /\ status' \in [1..n + 1 -> DeltaStatus] /\ status'[n + 1] = "pending"
      /\ \A d \in 1..n : status'[d] = status[d]
    <2>1. PICK f \in [1..n -> DeltaStatus] : f = status
        BY <1>5 DEF TypeOK
    <2>2. PICK g : g = Append(f, "pending")
        OBVIOUS
    <2>3. g \in [1..n + 1 -> DeltaStatus] /\ g[n + 1] = "pending" /\ \A d \in 1..n : g[d] = f[d]
        <3> HIDE DEF Inv
        <3>1. n \in Nat /\ "pending" \in DeltaStatus
            BY <1>5 DEF DeltaStatus
        <3>2. f \in Seq(DeltaStatus) /\ Len(f) = n
            BY <3>1
        <3>3. g \in Seq(DeltaStatus) /\ Len(g) = n + 1 /\ g[n + 1] = "pending"
              /\ \A d \in 1..n : g[d] = f[d]
            BY <2>2, <3>1, <3>2
        <3> QED BY <3>1, <3>3
    <2> QED BY <1>1, <2>1, <2>2, <2>3
<1>8. /\ modifiedPk' \in [1..n + 1 -> Pks \cup {None}] /\ modifiedPk'[n + 1] = None
      /\ \A d \in 1..n : modifiedPk'[d] = modifiedPk[d]
    <2>1. PICK x \in KeyOrNone, f \in [1..n -> KeyOrNone] : x = None /\ f = modifiedPk
        BY <1>5 DEF TypeOK, KeyOrNone
    <2>2. PICK g : g = Append(f, x)
        OBVIOUS
    <2>3. g \in [1..n + 1 -> KeyOrNone] /\ g[n + 1] = x /\ \A d \in 1..n : g[d] = f[d]
        <3> HIDE DEF Inv
        <3>1. n \in Nat
            BY <1>5
        <3>2. f \in Seq(KeyOrNone) /\ Len(f) = n
            BY <3>1
        <3>3. g \in Seq(KeyOrNone) /\ Len(g) = n + 1 /\ g[n + 1] = x /\ \A d \in 1..n : g[d] = f[d]
            BY <2>2, <3>2
        <3> QED BY <3>1, <3>3
    <2> QED BY <1>1, <2>1, <2>2, <2>3 DEF KeyOrNone
<1>9. /\ hit' \in [1..n + 1 -> 0..MaxDeltas \cup {None}] /\ \A d \in 1..n : hit'[d] = hit[d]
    <2>1. PICK x \in CreatorOrNone, f \in [1..n -> CreatorOrNone] : x = None /\ f = hit
        BY <1>5 DEF TypeOK, CreatorOrNone
    <2>2. PICK g : g = Append(f, x)
        OBVIOUS
    <2>3. g \in [1..n + 1 -> CreatorOrNone] /\ g[n + 1] = x /\ \A d \in 1..n : g[d] = f[d]
        <3> HIDE DEF Inv
        <3>1. n \in Nat
            BY <1>5
        <3>2. f \in Seq(CreatorOrNone) /\ Len(f) = n
            BY <3>1
        <3>3. g \in Seq(CreatorOrNone) /\ Len(g) = n + 1 /\ g[n + 1] = x /\ \A d \in 1..n : g[d] = f[d]
            BY <2>2, <3>2
        <3> QED BY <3>1, <3>3
    <2> QED BY <1>1, <2>1, <2>2, <2>3 DEF CreatorOrNone
<1>10. PICK value : value = (IF method = "delete" THEN Gone ELSE new)
    OBVIOUS
<1>11. value \in Values \cup {Gone} /\ value # None
    BY <1>10, Markers
<1>12. /\ local' \in [Clients -> [Layers -> [Pks -> Values \cup {None, Gone}]]]
       /\ local'[c][l][pk] = value
       /\ \A a \in Clients, k \in Layers, p \in Pks :
             local'[a][k][p] = local[a][k][p] \/ (a = c /\ k = l /\ p = pk)
    <2>1. local' = [local EXCEPT ![c][l][pk] = value]
        BY <1>10 DEF Push
    <2> QED BY <1>11, <2>1 DEF TypeOK
<1>13. TypeOK'
    <2>1. Len(deltas') <= MaxDeltas
        BY <1>1, <1>4, <1>5, <1>6, Markers
    <2> QED BY <1>1, <1>6, <1>7, <1>8, <1>9, <1>12, <2>1 DEF TypeOK
<1>14. JobInv'
    <2>1. log' = <<>> /\ todo' = <<>> /\ phase' = "idle" /\ DOMAIN deltas' = 1..n + 1
        BY <1>1, <1>6 DEF JobInv
    <2>2. \A e \in 1..n + 1 : modifiedPk'[e] # None => status'[e] = "applied" /\ hit'[e] # None
        BY <1>5, <1>7, <1>8, <1>9 DEF JobInv
    <2> QED BY <2>1, <2>2 DEF JobInv
<1>15. EditInv'
    BY <1>1 DEF EditInv, Loop
<1>16. FreeInv'
    <2>1. ASSUME NEW table, NEW k, Sound(table, k) PROVE Sound(table, k)'
        BY <1>1, <1>5, <1>6, <2>1 DEF Sound, By
    <2>2. \A d : NotYet(d)' => NotYet(d)
        BY <1>1, <1>5, <1>6, <1>7 DEF NotYet
    <2>3. \A table, d : Free(table, d)' = Free(table, d)
        BY DEF Free
    <2>4. phase' \notin Working /\ log' = <<>>
        BY <1>1 DEF Working, Loop, JobInv
    <2>5. ASSUME NEW k \in Layers PROVE Sound(data[k], k)' /\ (k \in FileLayers => Sound(work[k], k)')
        <3>1. PICK t, u : t = data[k] /\ u = work[k]
            OBVIOUS
        <3>2. Sound(t, k) /\ (k \in FileLayers => Sound(u, k))
            BY <3>1 DEF FreeInv
        <3>3. Sound(t, k)' /\ (k \in FileLayers => Sound(u, k)')
            BY <2>1, <3>2
        <3>4. t = data'[k] /\ u = work'[k]
            BY <1>1, <3>1
        <3> QED BY <3>3, <3>4 DEF Sound
    <2> QED BY <1>1, <2>2, <2>3, <2>4, <2>5 DEF FreeInv
<1>17. HitInv'
    <2>1. phase' \notin Working /\ log' = <<>>
        BY <1>1 DEF Working, Loop, JobInv
    <2>2. ASSUME NEW e \in 1..n + 1, modifiedPk'[e] # None
          PROVE  /\ Same(data'[deltas'[e].layer][modifiedPk'[e]], hit'[e])
                 /\ deltas'[e].method = "create" => hit'[e] = e
        <3>1. e \in 1..n
            BY <1>5, <1>8, <2>2
        <3>2. /\ modifiedPk'[e] = modifiedPk[e] /\ hit'[e] = hit[e] /\ deltas'[e] = deltas[e]
              /\ data' = data
            BY <1>1, <1>6, <1>8, <1>9, <3>1
        <3> QED BY <1>5, <2>2, <3>1, <3>2 DEF HitInv
    <2> QED BY <1>6, <2>1, <2>2 DEF HitInv, Same, By, IsFeature
<1>18. KeysInv'
    <2>1. /\ \A d \in 1..n : deltas'[d] = deltas[d]
          /\ \A d \in 1..n + 1 : d \in 1..n \/ (d = n + 1 /\ deltas'[d] = row)
          /\ local[c][l][1] # None /\ 1 \in Pks
        BY <1>5, <1>6, Markers DEF KeysInv
    <2>2. \A a \in Clients, k \in Layers, p \in Pks : local[a][k][p] # None => local'[a][k][p] # None
        BY <1>11, <1>12
    <2>3. ASSUME NEW a \in Clients, NEW k \in Layers, NEW p \in Pks
          PROVE  local'[a][k][p] # None <=>
                    \/ p = 1
                    \/ \E e \in 1..n + 1 : deltas'[e].method = "create" /\ deltas'[e].client = a
                                           /\ deltas'[e].layer = k /\ deltas'[e].pk = p
        <3>1. local[a][k][p] # None <=>
                 \/ p = 1
                 \/ \E e \in 1..n : deltas[e].method = "create" /\ deltas[e].client = a
                                    /\ deltas[e].layer = k /\ deltas[e].pk = p
            BY <1>5 DEF KeysInv
        <3>2. CASE method = "create" /\ a = c /\ k = l /\ p = pk
            <4>1. deltas'[n + 1].method = "create" /\ deltas'[n + 1].client = a
                  /\ deltas'[n + 1].layer = k /\ deltas'[n + 1].pk = p /\ n + 1 \in 1..n + 1
                BY <1>3, <1>5, <1>6, <3>2
            <4>2. local'[a][k][p] # None
                BY <1>11, <1>12, <3>2
            <4> QED BY <4>1, <4>2
        <3>3. CASE ~(method = "create" /\ a = c /\ k = l /\ p = pk)
            <4>1. local'[a][k][p] # None <=> local[a][k][p] # None
                <5>1. CASE a = c /\ k = l /\ p = pk
                    <6>1. local[c][l][pk] # None
                        BY <3>3, <5>1, Markers
                    <6> QED BY <1>11, <1>12, <5>1, <6>1
                <5>2. CASE ~(a = c /\ k = l /\ p = pk)
                    BY <1>12, <5>2
                <5> QED BY <5>1, <5>2
            <4>2. \A e \in 1..n + 1 : deltas'[e].method = "create" /\ deltas'[e].client = a
                                      /\ deltas'[e].layer = k /\ deltas'[e].pk = p =>
                                         e \in 1..n /\ deltas'[e] = deltas[e]
                BY <1>3, <2>1, <3>3
            <4>3. \A e \in 1..n : e \in 1..n + 1
                BY <1>5
            <4> QED BY <2>1, <3>1, <4>1, <4>2, <4>3
        <3> QED BY <3>2, <3>3
    <2>4. ASSUME NEW d \in 1..n + 1
          PROVE  /\ deltas'[d].method = "create" => deltas'[d].pk # 1
                 /\ deltas'[d].method # "delete" => deltas'[d].new \in Values
                 /\ local'[deltas'[d].client][deltas'[d].layer][deltas'[d].pk] # None
        <3>1. CASE d \in 1..n
            <4>1. /\ deltas[d].client \in Clients /\ deltas[d].layer \in Layers /\ deltas[d].pk \in Pks
                BY <1>5, <3>1, Rows
            <4> QED BY SMTT(60), <1>5, <2>1, <2>2, <3>1, <4>1 DEF KeysInv
        <3>2. CASE d = n + 1 /\ deltas'[d] = row
            BY <1>3, <1>11, <1>12, <2>1, <3>2
        <3> QED BY <2>1, <3>1, <3>2
    <2>5. ASSUME NEW d \in 1..n, deltas[d].method = "create", deltas[d].client = c,
                 deltas[d].layer = l, deltas[d].pk = pk, method = "create"
          PROVE  FALSE
        BY <1>5, <2>5 DEF KeysInv
    <2>6. ASSUME NEW d \in 1..n + 1, NEW e \in 1..n + 1,
                 deltas'[d].method = "create", deltas'[e].method = "create",
                 deltas'[e].client = deltas'[d].client, deltas'[e].layer = deltas'[d].layer,
                 deltas'[e].pk = deltas'[d].pk
          PROVE  d = e
        <3>1. CASE d \in 1..n /\ e \in 1..n
            BY <1>5, <2>1, <2>6, <3>1 DEF KeysInv, Meant
        <3>2. CASE d \in 1..n /\ e = n + 1 /\ deltas'[e] = row
            BY <1>3, <2>1, <2>5, <2>6, <3>2
        <3>3. CASE e \in 1..n /\ d = n + 1 /\ deltas'[d] = row
            BY <1>3, <2>1, <2>5, <2>6, <3>3
        <3> QED BY <2>1, <3>1, <3>2, <3>3
    <2>7. DOMAIN deltas' = 1..n + 1
        BY <1>6
    <2> QED BY <2>3, <2>4, <2>6, <2>7 DEF KeysInv, Meant
<1>19. ReplayInv'
    BY <1>1 DEF ReplayInv, Working, Loop
<1> QED BY <1>13, <1>14, <1>15, <1>16, <1>17, <1>18, <1>19

LEMMA ClientKept ==
    ASSUME Inv, NEW c \in Clients, NEW l \in Layers,
           PushCreate(c, l) \/ PushPatch(c, l) \/ PushDelete(c, l)
    PROVE  Inv'
<1>1. CASE PushCreate(c, l)
    <2>1. PICK p \in Pks : p = FirstFree(local[c][l]) /\ local[c][l][p] = None
        BY <1>1, FirstFreeIs DEF PushCreate
    <2>2. Push(c, l, "create", p, None, FirstValue)
        BY <1>1, <2>1 DEF PushCreate
    <2> QED BY <2>1, <2>2, Markers, PushKept
<1>2. CASE PushPatch(c, l)
    <2>1. PICK p \in Pks, v \in Values, old \in Values \cup {None, Missing} :
             local[c][l][p] \in Values /\ Push(c, l, "patch", p, old, v)
        BY <1>2 DEF PushPatch
    <2> QED BY <2>1, PushKept
<1>3. CASE PushDelete(c, l)
    <2>1. PICK p \in Pks : local[c][l][p] \in Values /\ Push(c, l, "delete", p, local[c][l][p], None)
        BY <1>3 DEF PushDelete
    <2> QED BY <2>1, PushKept
<1> QED BY <1>1, <1>2, <1>3

LEMMA Pushes ==
    ASSUME ClientStep PROVE \E c, l, method, pk, old, new : Push(c, l, method, pk, old, new)
<1>1. PICK c \in Clients, l \in Layers : PushCreate(c, l) \/ PushPatch(c, l) \/ PushDelete(c, l)
    BY DEF ClientStep
<1>2. CASE PushCreate(c, l)
    BY <1>2 DEF PushCreate
<1>3. CASE PushPatch(c, l)
    <2>1. PICK p \in Pks, v \in Values, old \in Values \cup {Missing} : Push(c, l, "patch", p, old, v)
        BY <1>3 DEF PushPatch
    <2> QED BY <2>1
<1>4. CASE PushDelete(c, l)
    <2>1. PICK p \in Pks : Push(c, l, "delete", p, local[c][l][p], None)
        BY <1>4 DEF PushDelete
    <2> QED BY <2>1
<1> QED BY <1>1, <1>2, <1>3, <1>4

-----------------------------------------------------------------------------
(* The whole specification.                                                *)

LEMMA InvStarts == ASSUME Init PROVE Inv
<1>1. /\ deltas = <<>> /\ status = <<>> /\ modifiedPk = <<>> /\ hit = <<>> /\ log = <<>> /\ todo = <<>>
      /\ phase = "idle" /\ overwrite = FALSE /\ at = None /\ unsent = {} /\ spilt = {}
      /\ retries = 0 /\ failures = 0 /\ edit = [l \in Layers |-> None] /\ before = data
      /\ work = [l \in FileLayers |-> data[l]]
    BY DEF Init
<1>2. PICK first : first = [val |-> FirstValue, by |-> 0]
    OBVIOUS
<1>3. first \in Feature /\ IsFeature(first) /\ first.by = 0 /\ ~IsFeature(None)
    <2>1. first \in Feature /\ first.by = 0
        BY <1>2, Markers DEF Feature
    <2> QED BY <2>1, Markers DEF IsFeature
<1>4. \A l \in Layers, p \in Pks : data[l][p] = IF p = 1 THEN first ELSE None
    BY <1>2 DEF Init
<1>5. PICK table : table = [p \in Pks |-> IF p = 1 THEN first ELSE None]
    OBVIOUS
<1>6. table \in Table
    BY <1>3, <1>5 DEF Table
<1>7. data \in [Layers -> Table] /\ work \in [FileLayers -> Table]
    <2>1. data = [l \in Layers |-> table]
        BY <1>2, <1>5 DEF Init
    <2> QED BY <1>1, <1>6, <2>1, Markers
<1>8. \A c \in Clients, l \in Layers, p \in Pks : local[c][l][p] = IF p = 1 THEN FirstValue ELSE None
    BY DEF Init
<1>9. TypeOK
    <2>1. local \in [Clients -> [Layers -> [Pks -> Values \cup {None, Gone}]]]
        BY Markers DEF Init
    <2>2. /\ deltas \in Seq(Delta) /\ todo \in Seq(DeltaIds) /\ log \in Seq(Entry)
          /\ Len(deltas) = 0 /\ DOMAIN deltas = {}
        BY <1>1
    <2>3. /\ status \in [DOMAIN deltas -> DeltaStatus]
          /\ modifiedPk \in [DOMAIN deltas -> Pks \cup {None}]
          /\ hit \in [DOMAIN deltas -> 0..MaxDeltas \cup {None}]
        <3>1. \A S : <<>> \in [{} -> S]
            OBVIOUS
        <3> QED BY <1>1, <2>2, <3>1
    <2>4. Len(deltas) <= MaxDeltas /\ retries \in 0..MaxRetries /\ failures \in 0..MaxFailures
        BY <1>1, <2>2, DeltaApplyAssumption
    <2> QED BY <1>1, <1>7, <2>1, <2>2, <2>3, <2>4 DEF TypeOK
<1>10. JobInv
    BY <1>1 DEF JobInv
<1>11. EditInv
    BY <1>1 DEF EditInv, Loop
<1>12. FreeInv
    <2>1. \A l \in Layers : Sound(data[l], l)
        BY <1>3, <1>4, Markers DEF Sound, By, DeltaIds
    <2>2. \A l \in FileLayers : work[l] = data[l]
        BY <1>1
    <2>3. \A d \in DeltaIds, l \in Layers : Free(data[l], d)
        BY <1>3, <1>4 DEF Free, By, DeltaIds
    <2> QED BY <1>1, <2>1, <2>2, <2>3 DEF FreeInv, Working, Loop
<1>13. HitInv
    BY <1>1 DEF HitInv
<1>14. KeysInv
    <2>1. \A c \in Clients, l \in Layers, p \in Pks : local[c][l][p] # None <=> p = 1
        BY ZenonT(60), <1>8, Markers
    <2> QED BY <1>1, <2>1 DEF KeysInv
<1>15. ReplayInv
    BY <1>1 DEF ReplayInv, Working, Loop
<1> QED BY <1>9, <1>10, <1>11, <1>12, <1>13, <1>14, <1>15 DEF Inv

LEMMA InvStutters == ASSUME Inv, UNCHANGED vars PROVE Inv'
<1> USE DEF Inv
<1>1. UNCHANGED <<local, deltas, status, modifiedPk, data, phase, overwrite, todo, work, edit, at, log,
                  unsent, before, hit, spilt, retries, failures>>
    BY DEF vars, jobVars
<1>2. \A k : Committed(k)' = Committed(k)
    BY <1>1 DEF Committed
<1>3. TypeOK' /\ JobInv' /\ KeysInv'
    BY <1>1 DEF TypeOK, JobInv, KeysInv, Meant
<1>4. EditInv'
    <2>1. \A d, old, new : Makes(d, old, new)' = Makes(d, old, new)
        BY <1>1 DEF Makes, IsFeature
    <2>2. \A d : SourcePks(d)' = SourcePks(d)
        BY <1>1 DEF SourcePks, ClientPks, SameKey
    <2>3. EditInv
        OBVIOUS
    <2> QED BY <1>1, <1>2, <2>1, <2>2, <2>3 DEF EditInv
<1>5. FreeInv'
    <2>1. \A table, k : Sound(table, k)' = Sound(table, k)
        BY <1>1 DEF Sound
    <2>2. \A d : NotYet(d)' = NotYet(d)
        BY <1>1 DEF NotYet
    <2>3. \A table, d : Free(table, d)' = Free(table, d)
        BY DEF Free
    <2> QED BY <1>1, <1>2, <2>1, <2>2, <2>3 DEF FreeInv
<1>6. HitInv'
    BY <1>1, <1>2 DEF HitInv, Same, By, IsFeature
<1>7. ReplayInv'
    BY <1>1, <1>2, SameReplay DEF ReplayInv
<1> QED BY <1>3, <1>4, <1>5, <1>6, <1>7

LEMMA InvAlways == Spec => []Inv
<1>1. Init => Inv
    BY InvStarts
<1>2. Inv /\ [Next]_vars => Inv'
    <2> SUFFICES ASSUME Inv, [Next]_vars PROVE Inv'
        OBVIOUS
    <2>1. CASE WorkflowStep
        <3>1. CASE CreateFeature \/ RefuseFeature \/ PatchFeature \/ DeleteFeature
            BY <3>1, FeatureKept
        <3>2. CASE EditFails \/ StepFails
            BY <3>2, FailureKept
        <3>3. CASE \E l \in FileLayers : UploadLayer(l)
            BY <3>3, UploadKept
        <3> QED BY <2>1, <3>1, <3>2, <3>3, TakeKept, DownloadKept, CommitKept, LogFailureKept,
                   StopKept, AfterRunKept, AfterExceptionKept DEF WorkflowStep
    <2>2. CASE ClientStep
        BY <2>2, ClientKept DEF ClientStep
    <2>3. CASE \E d \in DeltaIds : Retry(d)
        BY <2>3, RetryKept
    <2>4. CASE UNCHANGED vars
        BY <2>4, InvStutters
    <2> QED BY <2>1, <2>2, <2>3, <2>4 DEF Next
<1> QED BY <1>1, <1>2, PTL DEF Spec

\* The state keeps its types, and the layers that the container works on are, between
\* two deltas and after the last one, those that it downloaded with the applied deltas
\* of its report: QgisApplyDeltas rolls back what it refuses (apply_deltas.py).
THEOREM LayersReplayLogAlways == Spec => []LayersReplayLog
<1>1. Inv => LayersReplayLog
    <2> SUFFICES ASSUME Inv PROVE LayersReplayLog
        OBVIOUS
    <2>1. TypeOK /\ log \in Seq(Entry)
        BY DEF Inv, TypeOK
    <2>2. ASSUME phase \in {"next", "stopped"}, NEW l \in Layers PROVE Committed(l) = Replay(l)
        <3>1. Replayed(l)
            BY <2>2 DEF Inv, ReplayInv, Working, Loop
        <3> QED BY <2>1, <3>1, ReplayIs
    <2> QED BY <2>1, <2>2 DEF LayersReplayLog
<1> QED BY <1>1, InvAlways, PTL

\* A delta creates one feature and no more, however often staff retries it, but where a
\* job has failed after the data had it; a delta reported as refused has created none.
THEOREM CreatedOnceAlways == Spec => []CreatedOnce
<1>1. Inv => CreatedOnce
    <2> SUFFICES ASSUME Inv PROVE CreatedOnce
        OBVIOUS
    <2> USE DEF Inv
    <2>1. ASSUME NEW d \in DOMAIN deltas \ spilt, NEW made,
                 made = {place \in Layers \X Pks :
                            LET f == data[place[1]][place[2]] IN IsFeature(f) /\ f.by = d}
          PROVE  /\ Cardinality(made) <= 1
                 /\ status[d] \in {"conflict", "not_applied"} => made = {}
        <3>1. d \in DeltaIds \ spilt /\ d # 0
            BY Rows
        <3>2. ASSUME NEW x \in made
              PROVE  \E p \in Pks : x = <<deltas[d].layer, p>> /\ By(data[deltas[d].layer][p], d)
            <4>1. PICK l \in Layers, p \in Pks : x = <<l, p>>
                BY <2>1, <3>2
            <4>2. By(data[l][p], d)
                BY <2>1, <3>2, <4>1 DEF By
            <4>3. deltas[d].layer = l
                BY <3>1, <4>2 DEF FreeInv, Sound, By
            <4> QED BY <4>1, <4>2, <4>3
        <3>3. \A x, y \in made : x = y
            <4> SUFFICES ASSUME NEW x \in made, NEW y \in made PROVE x = y
                OBVIOUS
            <4>1. PICK p \in Pks : x = <<deltas[d].layer, p>> /\ By(data[deltas[d].layer][p], d)
                BY <3>2
            <4>2. PICK q \in Pks : y = <<deltas[d].layer, q>> /\ By(data[deltas[d].layer][q], d)
                BY <3>2
            <4>3. p = q
                BY <3>1, <4>1, <4>2, Rows DEF FreeInv, Sound
            <4> QED BY <4>1, <4>2, <4>3
        <3>4. Cardinality(made) <= 1
            <4>1. CASE made = {}
                BY <4>1, FS_EmptySet
            <4>2. CASE made # {}
                <5>1. PICK x : made = {x}
                    BY <3>3, <4>2
                <5>2. Cardinality(made) = 1
                    BY <5>1, FS_Singleton
                <5> QED BY <5>2
            <4> QED BY <4>1, <4>2
        <3>5. ASSUME status[d] \in {"conflict", "not_applied"} PROVE made = {}
            <4>1. NotYet(d)
                BY <3>5 DEF NotYet, JobInv
            <4>2. Free(data[deltas[d].layer], d)
                BY <3>1, <4>1, Rows DEF FreeInv
            <4> QED BY <3>2, <4>2 DEF Free
        <3> QED BY <3>4, <3>5
    <2> QED BY <2>1 DEF CreatedOnce
<1> QED BY <1>1, InvAlways, PTL

\* A file of the project changes only to what the whole job makes of it: upload_project
\* comes after the last delta (workflow.py).
THEOREM FilesChangeByJobsAlways == Spec => FilesChangeByJobs
<1> DEFINE Whole == \A l \in FileLayers : data'[l] # data[l] => todo = <<>> /\ data'[l] = Replay(l)
<1>1. Inv /\ [Next]_vars => [Whole]_vars
    <2> SUFFICES ASSUME Inv, Next, NEW l \in FileLayers, data'[l] # data[l]
                 PROVE  todo = <<>> /\ data'[l] = Replay(l)
        OBVIOUS
    <2> USE DEF Inv
    <2>1. CASE \E k \in FileLayers : UploadLayer(k)
        <3>1. /\ phase = "stopped" /\ data' = [data EXCEPT ![l] = work[l]]
            <4>1. PICK k \in FileLayers : UploadLayer(k)
                BY <2>1
            <4>2. phase = "stopped" /\ data' = [data EXCEPT ![k] = work[k]]
                BY <4>1 DEF UploadLayer
            <4>3. k = l
                BY <4>2
            <4> QED BY <4>2, <4>3
        <3>2. l \in Layers /\ data'[l] = Committed(l)
            BY <3>1, Markers, CommittedIs DEF TypeOK
        <3>3. Replayed(l) /\ log \in Seq(Entry)
            BY <3>1, <3>2 DEF ReplayInv, Working, TypeOK
        <3>4. todo = <<>>
            BY <3>1 DEF JobInv
        <3> QED BY <3>2, <3>3, <3>4, ReplayIs
    <2>2. CASE CommitChanges
        <3>1. \/ data' = data
              \/ \E k \in OnlineLayers : data' = [data EXCEPT ![k] = edit[k]]
            BY <2>2 DEF CommitChanges
        <3>2. CASE \E k \in OnlineLayers : data' = [data EXCEPT ![k] = edit[k]]
            <4>1. PICK k \in OnlineLayers : data' = [data EXCEPT ![k] = edit[k]]
                BY <3>2
            <4>2. k # l
                BY Markers
            <4>3. data'[l] = data[l]
                BY <4>1, <4>2
            <4> QED BY <4>3
        <3> QED BY <3>1, <3>2
    <2>3. CASE UNCHANGED data
        BY <2>3
    <2>4. WorkflowStep => UNCHANGED data \/ CommitChanges \/ \E k \in FileLayers : UploadLayer(k)
        BY DEF WorkflowStep, TakeDeltas, Download, CreateFeature, RefuseFeature, PatchFeature,
               DeleteFeature, EditFails, LogFailure, StopQgis, StepFails, AfterRun, AfterException, Goto
    <2>5. ClientStep => UNCHANGED data
        BY Pushes DEF Push
    <2>6. (\E d \in DeltaIds : Retry(d)) => UNCHANGED data
        BY DEF Retry
    <2> QED BY <2>1, <2>2, <2>3, <2>4, <2>5, <2>6 DEF Next
<1> QED BY <1>1, InvAlways, PTL DEF Spec, FilesChangeByJobs

\* A delta changes the feature its client meant, found by client_pks once an earlier job
\* has created it (wrapper.py), or the one an earlier delta of the same key was misled to.
THEOREM HitsTargetAlways == Spec => HitsTarget
<1> DEFINE Known(d) == Target(d) = 0 \/ (Target(d) # d /\ modifiedPk[Target(d)] # None)
           Meets(d) == hit'[d] \notin {None, hit[d]} /\ Known(d) =>
                          hit'[d] \in {Target(d)} \cup {hit[e] : e \in Misled(d)}
<1>1. ASSUME Inv, CommitChanges, NEW d \in DOMAIN hit, hit'[d] \notin {None, hit[d]}, Known(d)
      PROVE  hit'[d] \in {Target(d)} \cup {hit[e] : e \in Misled(d)}
    <2> USE DEF Inv
    <2>1. PICK l \in Layers, p \in Pks, old \in Table, new \in Table :
             /\ d = Head(todo) /\ d \in DOMAIN deltas /\ l = deltas[d].layer /\ p = at
             /\ old = Committed(l) /\ new = edit[l]
             /\ \/ deltas[d].method = "create"
                \/ /\ deltas[d].method # "create" /\ IsFeature(old[p]) /\ p \in SourcePks(d)
                   /\ new[p] = Gone \/ By(new[p], old[p].by)
             /\ hit'[d] = Identity(l) /\ Sound(old, l)
        <3>1. PICK x \in DOMAIN deltas, l \in Layers, p \in Pks, old \in Table, new \in Table :
                 /\ x = Head(todo) /\ l = deltas[x].layer /\ p = at
                 /\ old = Committed(l) /\ new = edit[l]
                 /\ \/ deltas[x].method = "create"
                    \/ /\ deltas[x].method # "create" /\ IsFeature(old[p]) /\ p \in SourcePks(x)
                       /\ new[p] = Gone \/ By(new[p], old[p].by)
            BY <1>1, Written DEF CommitChanges
        <3>2. hit' = [hit EXCEPT ![x] = Identity(l)]
            BY <1>1, <3>1 DEF CommitChanges
        <3>3. x = d
            BY <1>1, <3>2
        <3>4. Sound(old, l)
            BY <1>1, <3>1, CommittedIs, Markers DEF FreeInv
        <3> QED BY <1>1, <3>1, <3>2, <3>3, <3>4
    <2>2. PICK creates : creates = {e \in Meant(d) : deltas[e].method = "create"}
        OBVIOUS
    <2>3. Target(d) = IF creates = {} THEN 0 ELSE CHOOSE e \in creates : TRUE
        BY <2>2 DEF Target
    <2>4. \A e \in creates : /\ e \in DOMAIN deltas /\ e \in Meant(d) /\ e # 0
                             /\ deltas[e].method = "create"
        BY <1>1, <2>2, Rows DEF Meant
    <2>5. \A e, f \in creates : e = f
        BY <1>1, <2>4 DEF KeysInv, Meant
    <2>6. deltas[d].method # "create"
        <3> SUFFICES ASSUME deltas[d].method = "create" PROVE FALSE
            OBVIOUS
        <3>1. d \in creates
            BY <2>1, <2>2 DEF Meant
        <3>2. Target(d) = d /\ d # 0
            BY <2>3, <2>4, <2>5, <3>1
        <3> QED BY <1>1, <3>2
    <2>7. IsFeature(old[p]) /\ p \in SourcePks(d) /\ hit'[d] = old[p].by
        BY <2>1, <2>6, Markers DEF Identity, By, IsFeature
    <2>8. CASE ClientPks(d) = {}
        <3>1. p = deltas[d].pk
            BY <2>7, <2>8 DEF SourcePks
        <3>2. creates = {}
            <4> SUFFICES ASSUME creates # {} PROVE FALSE
                OBVIOUS
            <4>1. Target(d) \in creates
                BY <2>3
            <4>2. modifiedPk[Target(d)] # None
                BY <1>1, <2>4, <4>1
            <4>3. SameKey(d, Target(d)) /\ Target(d) \in DOMAIN deltas
                BY <2>4, <4>1 DEF Meant, SameKey
            <4> QED BY <2>8, <4>2, <4>3 DEF ClientPks
        <3>3. p = 1
            <4>1. /\ deltas[d].client \in Clients /\ deltas[d].layer \in Layers /\ deltas[d].pk \in Pks
                  /\ local[deltas[d].client][deltas[d].layer][deltas[d].pk] # None
                BY <1>1, <2>1, Rows DEF KeysInv
            <4>2. \/ deltas[d].pk = 1
                  \/ \E e \in DOMAIN deltas :
                        /\ deltas[e].method = "create" /\ deltas[e].client = deltas[d].client
                        /\ deltas[e].layer = deltas[d].layer /\ deltas[e].pk = deltas[d].pk
                BY <1>1, <4>1 DEF KeysInv
            <4> QED BY <2>2, <3>1, <3>2, <4>2 DEF Meant
        <3>4. old[p].by = 0
            BY <2>1, <2>7, <3>3 DEF Sound, By, IsFeature
        <3> QED BY <2>3, <2>7, <3>2, <3>4
    <2>9. CASE ClientPks(d) # {}
        <3>1. PICK e \in DOMAIN deltas : SameKey(d, e) /\ modifiedPk[e] # None /\ p = modifiedPk[e]
            BY <2>7, <2>9 DEF SourcePks, ClientPks
        <3>2. e \in Meant(d) /\ deltas[e].layer = l
            BY <2>1, <3>1 DEF Meant, SameKey
        <3>3. Same(old[p], hit[e]) /\ (deltas[e].method = "create" => hit[e] = e)
            BY <1>1, <2>1, <3>1, <3>2 DEF HitInv, CommitChanges, Working, Loop
        <3>4. hit'[d] = hit[e]
            BY <2>7, <3>3 DEF Same, By, IsFeature
        <3>5. CASE deltas[e].method = "create"
            <4>1. e \in creates
                BY <2>2, <3>2, <3>5
            <4>2. Target(d) = e
                BY <2>3, <2>5, <4>1
            <4> QED BY <3>3, <3>4, <3>5, <4>2
        <3>6. CASE deltas[e].method # "create" /\ hit[e] # Target(d)
            <4>1. e \in Misled(d)
                BY <3>1, <3>2, <3>6 DEF Misled
            <4> QED BY <3>4, <4>1
        <3>7. CASE hit[e] = Target(d)
            BY <3>4, <3>7
        <3> QED BY <3>5, <3>6, <3>7
    <2> QED BY <2>8, <2>9
<1>2. ASSUME Inv, Next, ~CommitChanges, NEW d \in DOMAIN hit PROVE hit'[d] \in {None, hit[d]}
    <2> USE DEF Inv
    <2>1. CASE AfterException
        <3>1. d \in DOMAIN deltas
            BY <1>2 DEF TypeOK
        <3> QED BY <2>1, <3>1 DEF AfterException
    <2>2. CASE UNCHANGED hit
        BY <2>2
    <2>3. CASE hit' = Append(hit, None)
        <3>1. PICK n : n = Len(deltas)
            OBVIOUS
        <3>2. n \in Nat /\ hit \in [1..n -> CreatorOrNone] /\ d \in 1..n
            BY <1>2, <3>1, Rows DEF TypeOK, CreatorOrNone
        <3>3. PICK f \in [1..n -> CreatorOrNone] : f = hit
            BY <3>2
        <3>4. Append(f, None)[d] = f[d]
            BY <3>2
        <3> QED BY <2>3, <3>3, <3>4
    <2>4. WorkflowStep => UNCHANGED hit \/ AfterException
        BY <1>2 DEF WorkflowStep, TakeDeltas, Download, CreateFeature, RefuseFeature, PatchFeature,
               DeleteFeature, EditFails, LogFailure, StopQgis, UploadLayer, StepFails, AfterRun, Goto
    <2>5. ClientStep => hit' = Append(hit, None)
        BY Pushes DEF Push
    <2>6. (\E x \in DeltaIds : Retry(x)) => UNCHANGED hit
        BY DEF Retry
    <2> QED BY <1>2, <2>1, <2>2, <2>3, <2>4, <2>5, <2>6 DEF Next
<1>3. Inv /\ [Next]_vars => [\A d \in DOMAIN hit : Meets(d)]_vars
    BY <1>1, <1>2
<1> QED BY <1>3, InvAlways, PTL DEF Spec, HitsTarget
=============================================================================
