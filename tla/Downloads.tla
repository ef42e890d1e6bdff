------------------------------- MODULE Downloads -------------------------------
(***************************************************************************)
(* Downloads of a file in parts: the view finds the version and its size,  *)
(* checks the range, and tells nginx where the object is; nginx asks the   *)
(* storage for it later.  In between, and between the parts, the file is   *)
(* uploaded again and old versions are deleted (FileVersions has the whole *)
(* of that).  The client keeps what it has and asks for the rest.          *)
(*                                                                         *)
(* The bytes of an upload are known by its number, which is their ETag.    *)
(* Headers that are no range at all are refused like one that is out of    *)
(* the file.                                                               *)
(***************************************************************************)
EXTENDS Naturals, FiniteSets, Sequences

CONSTANTS
    MaxUploads,     \* bound: uploads of the file
    MaxBytes,       \* bound: its size
    MaxParts,       \* bound: parts of a download
    MinimumLength   \* QFIELDCLOUD_MINIMUM_RANGE_HEADER_LENGTH

ASSUME DownloadsAssumption ==
    MaxUploads \in Nat \ {0} /\ MaxBytes \in Nat \ {0} /\ MaxParts \in Nat /\ MinimumLength \in Nat

VARIABLES
    sharedKey,    \* is_attachment() and not are_attachments_versioned
    uploadSizes,  \* history: the sizes of the uploads
    versionRows,  \* FileVersion rows of the file, by the number of the upload
    heldUnder,    \* the upload whose bytes are under a key, 0 when there are none
    download,     \* the client: [named, parts], with the version it names, or 0
    redirect      \* what nginx was told, and has not fetched

downloadVars == <<sharedKey, uploadSizes, versionRows, heldUnder, download, redirect>>

Uploads == 1..MaxUploads

Open == MaxBytes + 1      \* a range without an end

NoRedirect == [key |-> 0]

Part == [etag: Uploads, first: Nat, last: Nat, matched: BOOLEAN]

DownloadsTypeOK ==
    /\ sharedKey \in BOOLEAN
    /\ uploadSizes \in Seq(1..MaxBytes) /\ versionRows \subseteq DOMAIN uploadSizes
    /\ heldUnder \in [Uploads -> 0..Len(uploadSizes)]
    /\ download.named \in 0..MaxUploads /\ download.parts \in Seq(Part)
    /\ \/ redirect = NoRedirect
       \/ /\ redirect.key \in Uploads /\ redirect.first \in 0..MaxBytes
          /\ redirect.last \in 0..Open /\ redirect.ifMatch \in 0..MaxUploads

DownloadsInit ==
    /\ sharedKey \in BOOLEAN
    /\ uploadSizes = <<>> /\ versionRows = {} /\ heldUnder = [k \in Uploads |-> 0]
    /\ download = [named |-> 0, parts |-> <<>>] /\ redirect = NoRedirect

-----------------------------------------------------------------------------
(* get_file_version_upload_to *)
KeyOf(version) == IF sharedKey THEN 1 ELSE version

LatestRow == CHOOSE v \in versionRows : \A w \in versionRows : w <= v

Upload(size) ==
    LET v == Len(uploadSizes) + 1 IN
    /\ v <= MaxUploads
    /\ uploadSizes' = Append(uploadSizes, size)
    /\ versionRows' = versionRows \cup {v}
    /\ heldUnder' = [heldUnder EXCEPT ![KeyOf(v)] = v]
    /\ UNCHANGED <<sharedKey, download, redirect>>

DeleteOld(version) ==
    /\ version \in versionRows \ {LatestRow}
    /\ versionRows' = versionRows \ {version}
    /\ heldUnder' = [heldUnder EXCEPT ![KeyOf(version)] = 0]
    /\ UNCHANGED <<sharedKey, uploadSizes, download, redirect>>

-----------------------------------------------------------------------------
(* The range is in the file, and is open or of two bytes at least. *)
ParsesRange(first, last, size) ==
    first < size /\ (last = Open \/ (first < last /\ last < size))

RangeLength(first, last, size) == (IF last = Open THEN size - 1 ELSE last) - first + 1

(* get_range: otherwise InvalidRangeError. *)
GetsRange(first, last, size) ==
    ParsesRange(first, last, size) /\ RangeLength(first, last, size) >= MinimumLength

(* Mutant: the version that is named is not looked for. *)
FoundLatest(named) == LatestRow

(* download_project_file_version: the version that is named, or the latest *)
FoundVersion(named) == IF named # 0 THEN named ELSE LatestRow

Received ==
    IF download.parts = <<>> THEN 0 ELSE download.parts[Len(download.parts)].last + 1

BeginDownload(named) ==
    /\ redirect = NoRedirect
    /\ named = 0 \/ named \in versionRows
    /\ download' = [named |-> named, parts |-> <<>>]
    /\ UNCHANGED <<sharedKey, uploadSizes, versionRows, heldUnder, redirect>>

(* download_field_file: the size is that of the object by now; the range   *)
(* and If-Match go on to the storage as they came.                         *)
AskForRest(last, matching) ==
    /\ redirect = NoRedirect /\ Len(download.parts) < MaxParts
    /\ versionRows # {} /\ download.named \in versionRows \cup {0}
    /\ matching => download.parts # <<>>
    /\ LET key == KeyOf(FoundVersion(download.named)) IN
       /\ heldUnder[key] # 0
       /\ GetsRange(Received, last, uploadSizes[heldUnder[key]])
       /\ redirect' = [key |-> key, first |-> Received, last |-> last,
                       ifMatch |-> IF matching THEN download.parts[1].etag ELSE 0]
    /\ UNCHANGED <<sharedKey, uploadSizes, versionRows, heldUnder, download>>

-----------------------------------------------------------------------------
(* The storage, by the rules of RFC 9110, and the connection, which may    *)
(* break after any byte.                                                   *)
Fetched ==
    LET etag == heldUnder[redirect.key] IN
    IF \/ etag = 0
       \/ redirect.ifMatch \notin {0, etag}
       \/ redirect.first >= uploadSizes[etag]
    THEN {}
    ELSE {[etag |-> etag, first |-> redirect.first, last |-> b,
           matched |-> redirect.ifMatch # 0] :
            b \in {c \in redirect.first..(uploadSizes[etag] - 1) : c <= redirect.last}}

FetchPart ==
    /\ redirect # NoRedirect
    /\ \E part \in Fetched : download' = [download EXCEPT !.parts = Append(@, part)]
    /\ redirect' = NoRedirect
    /\ UNCHANGED <<sharedKey, uploadSizes, versionRows, heldUnder>>

(* 404, 412 or 416 (which nginx makes 500), or nothing at all: the client  *)
(* asks again, or gives up.                                                *)
FetchFails ==
    /\ redirect # NoRedirect
    /\ redirect' = NoRedirect
    /\ UNCHANGED <<sharedKey, uploadSizes, versionRows, heldUnder, download>>

DownloadsNext ==
    \/ \E size \in 1..MaxBytes : Upload(size)
    \/ \E version \in versionRows : DeleteOld(version)
    \/ \E named \in versionRows \cup {0} : BeginDownload(named)
    \/ \E last \in 0..Open, matching \in BOOLEAN : AskForRest(last, matching)
    \/ FetchPart \/ FetchFails

DownloadsSpec == DownloadsInit /\ [][DownloadsNext]_downloadVars

-----------------------------------------------------------------------------
(* What makes a part one of the bytes the first part came from: it was     *)
(* asked for with its ETag, or by a version that has a key of its own.     *)
Bound(part) == part.matched \/ (download.named # 0 /\ ~sharedKey)

(* Rows keep their types; the parts of a download follow each other within *)
(* the bytes they are of; and those of a client that names the version of  *)
(* a versioned file, or sends the ETag it was told, are all of one upload, *)
(* whatever is uploaded and deleted between the check of a range, the      *)
(* answer of the storage and the next part.                                *)
PartsFit ==
    /\ DownloadsTypeOK
    /\ \A i \in DOMAIN download.parts :
          LET part == download.parts[i] IN
          /\ part.first <= part.last /\ part.last < uploadSizes[part.etag]
          /\ part.first = IF i = 1 THEN 0 ELSE download.parts[i - 1].last + 1
          /\ Bound(part) => part.etag = download.parts[1].etag
=============================================================================
