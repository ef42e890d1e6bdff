--------------------------------- MODULE Purge ---------------------------------
(***************************************************************************)
(* The script that removes for good the objects that were deleted from a   *)
(* versioned bucket, while the bucket is in use: a chain of generators     *)
(* pages through all versions, groups what comes for one key, keeps the    *)
(* groups that begin with an old delete marker, and deletes their versions *)
(* in batches.                                                             *)
(*                                                                         *)
(* An entry is a version or a delete marker of a key.  Entries are         *)
(* numbered as they are made; at is LastModified, and several may have the *)
(* same.  The generators are lazy: a version is taken from the page when   *)
(* those before it have been through the whole chain, and a page is        *)
(* fetched when the one before it is used up.                              *)
(***************************************************************************)
EXTENDS Naturals, Sequences, FiniteSets, SequencesExt

CONSTANTS
    LastKey,      \* keys are 1..LastKey, in the order the store lists them
    Retention,    \* --retention-period
    PageSize,     \* LIST_OBJECT_VERSIONS_MAX_KEYS
    BatchSize,    \* DELETE_BATCH_SIZE
    MaxEntries,   \* bound: puts and deletes
    MaxToday      \* bound: the clock

ASSUME PurgeAssumption ==
    /\ LastKey \in Nat /\ Retention \in Nat /\ MaxEntries \in Nat /\ MaxToday \in Nat
    /\ PageSize \in Nat \ {0} /\ BatchSize \in Nat \ {0}

VARIABLES
    bucket,   \* the entries
    today,    \* the clock
    made,     \* entries ever made
    scan,     \* the script: its cutoff, where it is in the listing, its buffers
    last,     \* history: what the last put or delete of a key made, and what it hid
    torn      \* history: keys whose group was not listed or deleted as a whole

purgeVars == <<bucket, today, made, scan, last, torn>>

Keys == 1..LastKey
Entries == [key: Keys, id: 1..MaxEntries, marker: BOOLEAN, at: 0..MaxToday]

(* step: "more" and "last" say whether the listing has another page,       *)
(* "end" that there is nothing left to group.                              *)
Scans == [step: {"idle", "more", "last", "end"}, cutoff: 0..MaxToday,
          after: [key: 0..LastKey, id: 0..MaxEntries],
          page: SUBSET Entries, group: Seq(Entries), batch: Seq(Entries)]

NoScan == [step |-> "idle", cutoff |-> 0, after |-> [key |-> 0, id |-> 0],
           page |-> {}, group |-> <<>>, batch |-> <<>>]

PurgeTypeOK ==
    /\ bucket \subseteq Entries /\ scan \in Scans
    /\ today \in 0..MaxToday /\ made \in 0..MaxEntries /\ torn \subseteq Keys
    /\ last \in [Keys -> [id: 0..MaxEntries, marker: BOOLEAN, at: 0..MaxToday,
                          hid: SUBSET (1..MaxEntries)]]

PurgeInit ==
    /\ bucket = {} /\ today = 0 /\ made = 0 /\ scan = NoScan /\ torn = {}
    /\ last = [k \in Keys |-> [id |-> 0, marker |-> TRUE, at |-> 0, hid |-> {}]]

-----------------------------------------------------------------------------
(* What a GET of the key reads: its newest entry, unless that is a marker. *)
Reads(k) ==
    {e.id : e \in {f \in bucket : /\ f.key = k /\ ~f.marker
                                  /\ \A g \in bucket : g.key = k => g.id <= f.id}}

(* A put, or a delete without a version id, which leaves a marker. *)
Write(k, marker) ==
    /\ made < MaxEntries
    /\ made' = made + 1
    /\ bucket' = bucket \cup {[key |-> k, id |-> made + 1, marker |-> marker, at |-> today]}
    /\ last' = [last EXCEPT ![k] = [id |-> made + 1, marker |-> marker, at |-> today,
                                    hid |-> IF marker THEN Reads(k) ELSE {}]]
    /\ UNCHANGED <<today, scan, torn>>

Tick ==
    /\ today < MaxToday
    /\ today' = today + 1
    /\ UNCHANGED <<bucket, made, scan, last, torn>>

-----------------------------------------------------------------------------
(* The store lists keys in order and the versions of a key from the newest. *)
Before(e, f) == e.key < f.key \/ (e.key = f.key /\ e.id > f.id)

(* sort(key = (Key, LastModified), reverse = True), stable, of a list in   *)
(* which the versions come before the delete markers                       *)
Sooner(e, f) ==
    \/ e.key > f.key
    \/ e.key = f.key /\ e.at > f.at
    \/ e.key = f.key /\ e.at = f.at /\ ~e.marker /\ f.marker
    \/ e.key = f.key /\ e.at = f.at /\ e.marker = f.marker /\ e.id > f.id

KeysIn(S) == {e.key : e \in S}

(* parse_retention_period is evaluated when the script starts. *)
StartScan ==
    /\ scan.step = "idle" /\ today >= Retention
    /\ scan' = [NoScan EXCEPT !.step = "more", !.cutoff = today - Retention]
    /\ UNCHANGED <<bucket, today, made, last, torn>>

(* A page is the first entries of the rest of the listing; end is where it *)
(* goes on.  The last page is not truncated.                               *)
FetchPage ==
    /\ scan.step = "more" /\ scan.page = {} /\ Len(scan.batch) < BatchSize
    /\ LET rest == {e \in bucket : Before(scan.after, e)}
       IN  IF Cardinality(rest) <= PageSize
           THEN /\ scan' = [scan EXCEPT !.page = rest, !.step = "last"]
                /\ UNCHANGED torn
           ELSE \E page \in SUBSET rest : \E end \in page :
                /\ Cardinality(page) = PageSize
                /\ \A e \in page \ {end} : Before(e, end)
                /\ \A e \in rest \ page : Before(end, e)
                /\ scan' = [scan EXCEPT !.page = page, !.after = [key |-> end.key, id |-> end.id]]
                /\ torn' = torn \cup (KeysIn(page) \cap KeysIn(rest \ page))
    /\ UNCHANGED <<bucket, today, made, last>>

(* Mutant: it is enough that a version is old. *)
PurgeableWhenOld(group) == group # <<>> /\ group[1].at <= scan.cutoff

(* analyze_key_history *)
Purgeable(group) == group # <<>> /\ group[1].marker /\ group[1].at <= scan.cutoff

Purged(group) == IF Purgeable(group) THEN group ELSE <<>>

(* iter_logically_deleted, for one version: it joins the group of its key, *)
(* or the group before it is complete, and what is purged of it goes to    *)
(* the batch.                                                              *)
YieldVersion ==
    /\ Len(scan.batch) < BatchSize
    /\ \E e \in scan.page :
       /\ \A f \in scan.page \ {e} : Sooner(e, f)
       /\ scan' = IF scan.group = <<>> \/ scan.group[1].key = e.key
                  THEN [scan EXCEPT !.page = @ \ {e}, !.group = Append(@, e)]
                  ELSE [scan EXCEPT !.page = @ \ {e}, !.group = <<e>>,
                                    !.batch = @ \o Purged(scan.group)]
    /\ UNCHANGED <<bucket, today, made, last, torn>>

(* What is in the group when the listing is at its end is analyzed as well. *)
YieldLastGroup ==
    /\ scan.step = "last" /\ scan.page = {} /\ Len(scan.batch) < BatchSize
    /\ scan' = [scan EXCEPT !.step = "end", !.group = <<>>, !.batch = @ \o Purged(scan.group)]
    /\ UNCHANGED <<bucket, today, made, last, torn>>

(* delete_versions_batch, of a batch that is full or the last one.  The    *)
(* store says which versions it could not delete, or the call fails: both  *)
(* are logged and no more.                                                 *)
DeleteBatch(Failed) ==
    /\ scan.batch # <<>>
    /\ Len(scan.batch) >= BatchSize \/ scan.step = "end"
    /\ LET size == IF Len(scan.batch) < BatchSize THEN Len(scan.batch) ELSE BatchSize
           flushed == Range(SubSeq(scan.batch, 1, size))
           rest == SubSeq(scan.batch, size + 1, Len(scan.batch))
       IN  /\ Failed \subseteq {e.id : e \in flushed}
           /\ bucket' = {e \in bucket : e \notin flushed \/ e.id \in Failed}
           /\ scan' = [scan EXCEPT !.batch = rest]
           /\ torn' = torn \cup (KeysIn(flushed) \cap KeysIn(Range(rest)))
                           \cup {e.key : e \in {f \in flushed : f.id \in Failed}}
    /\ UNCHANGED <<today, made, last>>

(* The script comes to its end, or is interrupted. *)
EndScan ==
    /\ scan.step # "idle"
    /\ scan' = NoScan
    /\ UNCHANGED <<bucket, today, made, last, torn>>

PurgeNext ==
    \/ \E k \in Keys, marker \in BOOLEAN : Write(k, marker)
    \/ Tick \/ StartScan \/ FetchPage \/ YieldVersion \/ YieldLastGroup \/ EndScan
    \/ \E Failed \in SUBSET (1..MaxEntries) : DeleteBatch(Failed)

PurgeSpec == PurgeInit /\ [][PurgeNext]_purgeVars

-----------------------------------------------------------------------------
(* Rows keep their types, and however puts and deletes fall between the    *)
(* pages, the batches and the runs of the script: a key that was put last  *)
(* reads as that put left it; a key that was deleted last cannot be read,  *)
(* and what the delete hid within the retention time can still be brought  *)
(* back.  The two about deleted keys hold for those whose group went       *)
(* through the script as a whole: others may reappear.                     *)
ReadsStay ==
    /\ PurgeTypeOK
    /\ \A k \in Keys :
       /\ ~last[k].marker => Reads(k) = {last[k].id}
       /\ last[k].marker /\ k \notin torn => Reads(k) = {}
       /\ k \notin torn /\ last[k].at + Retention > today
             => \A i \in last[k].hid : \E e \in bucket : e.key = k /\ e.id = i
=============================================================================
