------------------------------- MODULE Listing -------------------------------
(***************************************************************************)
(* Paginated listings of a bucket: ListObjects (filesystem.go),            *)
(* ListObjectVersions, ListMultipartUploads and ListParts (listing.go),    *)
(* with the markers their handlers hand out (s3api/list_handlers.go).      *)
(*                                                                         *)
(* A client fetches page after page, passing on the marker of the page     *)
(* before; between two pages other requests add and remove entries.  An    *)
(* entry is <<key, id>>: id is the upload, the part number or the time of  *)
(* writing of a version, and 0 for an object and an unversioned version.   *)
(* Versions written in a Suspended bucket all have the version id "null":  *)
(* the next one takes the place of the last one, at a later time.  A key   *)
(* is a sequence of characters, numbered in the order of their bytes: the  *)
(* markers are compared, cut and extended.                                 *)
(***************************************************************************)
EXTENDS Naturals, FiniteSets, SequencesExt

CONSTANTS Kinds,          \* listings that are checked
          Keys,           \* object keys
          Ids,            \* versions (in the order of LastModified) or uploads of a key,
                          \* part numbers
          LaterIds,       \* versions that are written while the client lists
          NullIds,        \* versions among them written as "null"
          QueryPrefixes,  \* prefix parameters, <<>> for none
          Delimiter,      \* the character used as delimiter
          PageSizes,      \* max-keys parameters
          FolderObjects,  \* TRUE: an object may be named like the prefix
          MarkerDeleted,  \* TRUE: the version a page ended on may be deleted
          MaxChanges      \* bound: entries added and removed meanwhile

AllKinds == {"objects", "versions", "uploads", "parts"}

ASSUME ListingAssumption ==
    /\ Kinds \subseteq AllKinds
    /\ \A k \in Keys \cup QueryPrefixes : k \in Seq(Nat)
    /\ Ids \cup LaterIds \subseteq Nat \ {0} /\ PageSizes \subseteq Nat \ {0}
    /\ NullIds \subseteq Ids \cup LaterIds
    /\ FolderObjects \in BOOLEAN /\ MarkerDeleted \in BOOLEAN /\ MaxChanges \in Nat

VARIABLES
    kind, prefix, delimited, maxKeys,  \* the query
    content,     \* the entries in the database
    marker,      \* the marker of the last page
    page,        \* the items of the last page
    done,        \* whether the last page was not truncated
    got, twice,  \* history: the items received, and those received again,
    stable, gone,  \* the entries that were there all the time, those removed,
    moved,         \* the keys whose marker version was written again
    changes        \* counter

vars == <<kind, prefix, delimited, maxKeys, content, marker, page, done, got, twice,
          stable, gone, moved, changes>>
query == <<kind, prefix, delimited, maxKeys>>

Entries(k) == CASE k = "objects" -> Keys \X {0}
                [] k = "versions" -> Keys \X (Ids \cup LaterIds \cup {0})
                [] k = "uploads" -> Keys \X Ids
                [] k = "parts" -> {<<>>} \X Ids

(* The version id that a listing shows and a marker holds; all the "null"  *)
(* versions share one.                                                     *)
VersionID(e) == IF kind = "versions" /\ e[2] \in NullIds THEN Min(NullIds) ELSE e[2]

(* Byte order of keys; NUL is before and 0xff after every character. *)
Nul == 0
Last255 == 255

Before(s, t) ==
    \E i \in 1..Len(t) :
        /\ \A j \in 1..(i - 1) : j <= Len(s) /\ s[j] = t[j]
        /\ i > Len(s) \/ (i <= Len(s) /\ s[i] < t[i])

NoMarker == <<<<>>, 0>>

(* Where the first delimiter after the prefix ends. *)
Cuts(key) == {i \in (Len(prefix) + 1)..Len(key) : delimited /\ key[i] = Delimiter}

(* What a listing shows of an entry: itself, or the common prefix that its *)
(* key is rolled up into.                                                  *)
ItemOf(e) == IF Cuts(e[1]) = {} THEN [name |-> e[1], id |-> VersionID(e), rolled |-> FALSE]
             ELSE [name |-> SubSeq(e[1], 1, Min(Cuts(e[1]))), id |-> 0, rolled |-> TRUE]

(* The order of the database; the versions of a key are sorted newest first. *)
Precedes(a, b) == \/ Before(a[1], b[1])
                  \/ a[1] = b[1] /\ (IF kind = "versions" THEN b[2] < a[2] ELSE a[2] < b[2])

(* What the cursor visits from where it is sought, until the first entry   *)
(* outside the prefix.                                                     *)
Visited(sought) ==
    {e \in sought : \A x \in sought : ~IsPrefix(prefix, x[1]) => Precedes(e, x)}

(* A common prefix is emitted once per page. *)
Emitted(scan) ==
    {e \in scan : ItemOf(e).rolled => ~\E x \in scan : Precedes(x, e) /\ ItemOf(x) = ItemOf(e)}

(* ListObjects: the greatest item emitted, object or common prefix. *)
AdvanceObjectsOnly(full) ==
    LET names == {<<>>} \cup {ItemOf(e).name : e \in {x \in full : ~ItemOf(x).rolled}}
    IN <<CHOOSE n \in names : \A m \in names : ~Before(n, m), 0>>

AdvanceToken(full) ==
    LET names == {ItemOf(e).name : e \in full}
    IN <<CHOOSE n \in names : \A m \in names : ~Before(n, m), 0>>

(* The other listings: the last entry. *)
LastEntry(full) ==
    LET e == CHOOSE x \in full : \A y \in full : ~Precedes(x, y) IN <<e[1], VersionID(e)>>

(* A page is full with max-keys items; one that did not fit makes it a     *)
(* truncated page, and the marker comes from the last ones that did.       *)
CutPage(emitted) ==
    LET full == {e \in emitted : Cardinality({x \in emitted : Precedes(x, e)}) < maxKeys}
        mark == IF kind = "objects" THEN AdvanceToken(full) ELSE LastEntry(full)
    IN [items |-> {ItemOf(e) : e \in full}, truncated |-> full # emitted,
        next |-> IF full # emitted THEN mark ELSE NoMarker]
-----------------------------------------------------------------------------
(***************************************************************************)
(* ListObjects: the cursor is sought past the token, and past everything   *)
(* below it when the token looks like a common prefix.                     *)
(***************************************************************************)
EndsInDelimiter(key) == delimited /\ key # <<>> /\ key[Len(key)] = Delimiter

SeekPastChildren(start) == IF start = <<>> THEN prefix ELSE Append(start, Last255)

SeekKey(start) ==
    IF start = <<>> THEN prefix
    ELSE Append(start, IF EndsInDelimiter(start) THEN Last255 ELSE Nul)

ListObjects == Visited({e \in content : ~Before(e[1], SeekKey(marker[1]))})
-----------------------------------------------------------------------------
(***************************************************************************)
(* ListObjectVersions: from the key of the marker on, key by key, the      *)
(* versions of a key newest first.  Nothing is emitted before the marker's *)
(* entry has been met.                                                     *)
(***************************************************************************)
IsMarker(e) == e[1] = marker[1] /\ marker[2] \in {0, VersionID(e)}

Started(e) == marker # NoMarker => \E x \in content : IsMarker(x) /\ Precedes(x, e)

ListObjectVersions ==
    LET seek == IF marker # NoMarker THEN marker[1] ELSE prefix
    IN {e \in Visited({x \in content : ~Before(x[1], seek)}) : Started(e)}
-----------------------------------------------------------------------------
(***************************************************************************)
(* ListMultipartUploads: the records are stored in the order of the        *)
(* listing; the marker's own record is skipped.                            *)
(***************************************************************************)
FromMarker(e) ==
    IF marker # NoMarker THEN ~Precedes(e, marker) ELSE ~Before(e[1], prefix)

PastMarker(e) ==
    IF marker # NoMarker THEN ~Precedes(e, marker) /\ e # marker ELSE ~Before(e[1], prefix)

ListMultipartUploads == Visited({e \in content : PastMarker(e)})

(* ListParts: sorted by number; the handler cuts the page out. *)
ListParts == {e \in content : e[2] > marker[2]}

(* What a listing goes through; CutPage ends it where the page is full. *)
List == CASE kind = "objects" -> ListObjects
          [] kind = "versions" -> ListObjectVersions
          [] kind = "uploads" -> ListMultipartUploads
          [] kind = "parts" -> ListParts
-----------------------------------------------------------------------------
(* The two situations in which a listing loses entries: see StableListed.  *)
FolderTrap == /\ kind = "objects" /\ maxKeys = 1
              /\ EndsInDelimiter(prefix) /\ <<prefix, 0>> \in content
MarkerTrap == /\ kind = "versions" /\ marker # NoMarker
              /\ \A e \in content : ~IsMarker(e)

Admitted == (FolderTrap => FolderObjects) /\ (MarkerTrap => MarkerDeleted)

(* The entries that go when e is written: PutObjectMeta keeps no version   *)
(* beside an unversioned one and overwrites the record of "null".          *)
Replaced(e) ==
    {x \in content : /\ kind = "versions" /\ x[1] = e[1]
                     /\ 0 \in {x[2], e[2]} \/ VersionID(x) = VersionID(e)}

Init ==
    /\ kind \in Kinds /\ prefix \in QueryPrefixes /\ delimited \in BOOLEAN /\ maxKeys \in PageSizes
    /\ kind \in {"uploads", "parts"} => ~delimited
    /\ kind = "parts" => prefix = <<>>
    /\ content \in SUBSET {e \in Entries(kind) : e[2] \notin LaterIds}
    /\ \A e \in content : Replaced(e) \subseteq {e}
    /\ marker = NoMarker /\ page = {} /\ done = FALSE
    /\ got = {} /\ twice = {} /\ stable = content
    /\ gone = {} /\ moved = {} /\ changes = 0
    /\ Admitted

FetchPage ==
    /\ ~done
    /\ \E scan \in {List} : \E emitted \in {Emitted(scan)} : \E fetched \in {CutPage(emitted)} :
          /\ page' = fetched.items
          /\ done' = ~fetched.truncated
          /\ marker' = fetched.next
          /\ got' = got \cup fetched.items
          /\ twice' = twice \cup (got \cap fetched.items)
    /\ UNCHANGED <<query, content, stable, gone, moved, changes>>

(* Another request commits between two pages. *)
Change(added, removed) ==
    /\ ~done /\ marker # NoMarker /\ changes < MaxChanges
    /\ changes' = changes + 1
    /\ content' = (content \ removed) \cup added
    /\ stable' = stable \ removed
    /\ gone' = gone \cup removed
    /\ moved' = moved \cup {e[1] : e \in {x \in added : kind = "versions" /\ <<x[1], VersionID(x)>> = marker}}
    /\ UNCHANGED <<query, marker, page, done, got, twice>>
    /\ Admitted'

(* A new object, version, upload or part.  Uploads get fresh random ids    *)
(* and versions a later LastModified, under a fresh uuid or, in a          *)
(* Suspended bucket, as "null": then a PUT or a delete marker replaces the *)
(* "null" that is there, which moves to the front of its key's versions.   *)
Add(e) ==
    /\ e \notin content
    /\ kind \in {"versions", "uploads"} => e \notin gone
    /\ kind = "versions" => \A x \in content \cup gone : x[1] = e[1] => x[2] < e[2] \/ e[2] = 0
    /\ Change({e}, Replaced(e))

Delete(e) == e \in content /\ Change({}, {e})

Finished == done /\ UNCHANGED vars

Next == FetchPage \/ (\E e \in Entries(kind) : Add(e) \/ Delete(e)) \/ Finished

(* The client goes on until a page is not truncated. *)
Spec == Init /\ [][Next]_vars /\ WF_vars(FetchPage)
-----------------------------------------------------------------------------
(* However the bucket changes between two pages, an entry that is there    *)
(* all the time is listed, or rolled up into a common prefix that is.      *)
(* Exceptions that the code does not handle: an object named like the      *)
(* prefix that fills a page of one (its key is taken for a common prefix   *)
(* and everything below is skipped), and a version listing whose marker    *)
(* version is deleted meanwhile (the scan never starts again).  A "null"   *)
(* version that is written again is a new entry, not one that stays.       *)
StableListed == done => \A e \in stable : IsPrefix(prefix, e[1]) => ItemOf(e) \in got

(* No entry is listed twice, and no common prefix of objects is: "the next *)
(* page re-emitted those prefixes" (ListObjects).  Version listings may    *)
(* repeat a common prefix, because their marker is an entry below it; an   *)
(* entry deleted and written again may be seen again.  When the marker is  *)
(* the "null" version of a key and is written again, it is now the first   *)
(* of that key, and the versions before it are listed again.  And a page   *)
(* has at most max-keys items, common prefixes included, all below the     *)
(* prefix.                                                                 *)
ListedOnce ==
    /\ \A item \in twice : \/ kind = "versions" /\ (item.rolled \/ item.name \in moved)
                           \/ \E e \in gone : ItemOf(e) = item
    /\ Cardinality(page) <= maxKeys
    /\ \A item \in page : IsPrefix(prefix, item.name)

(* "... and paging could never make progress": every listing ends. *)
PagingEnds == <>done
=============================================================================
