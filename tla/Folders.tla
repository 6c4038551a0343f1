------------------------------- MODULE Folders -------------------------------
(***************************************************************************)
(* Listing a remote folder in batches, with a look behind each symbolic    *)
(* link, while other programs create, remove and replace its items         *)
(* (src-tauri/src/files/mod.rs: list, files_list).                         *)
(*                                                                         *)
(* Items are numbers, in the order of their names.  An item that is there  *)
(* from the opening on is delivered once before the end; one that comes or *)
(* goes meanwhile may be.                                                  *)
(***************************************************************************)
EXTENDS Naturals, FiniteSets

CONSTANTS Item,            \* names an item may have, a set of numbers
          DirectoryLimit,  \* DIRECTORY_LIMIT
          MaxMoves         \* bound: changes by other programs

ASSUME FolderAssumption ==
  IsFiniteSet(Item) /\ Item \subseteq Nat /\ DirectoryLimit \in Nat /\ MaxMoves \in Nat

VARIABLES
  items,    \* the folder: what each name is; a link leads to a directory or nowhere
  listing,  \* the operation: step, the batch that is left, rows so far, delivered names
  stayed,   \* history: items as they have been since the opening
  moves     \* changes so far

folderVars == <<items, listing, stayed, moves>>
-----------------------------------------------------------------------------
ItemKind == {"absent", "file", "directory", "link", "broken"}
There == {i \in Item : items[i] # "absent"}

FolderInit ==
  /\ items \in [Item -> ItemKind]
  /\ listing = [at |-> "open", batch |-> {}, rows |-> {}, given |-> {}, shown |-> <<>>]
  /\ stayed = {} /\ moves = 0

ListTo(at) == listing' = [listing EXCEPT !.at = at]

OpenFolder ==
  /\ listing.at = "open"
  /\ ListTo("batch")
  /\ stayed' = There
  /\ UNCHANGED <<items, moves>>

\* readdir: some more items, with what they were at that moment.
NextBatch ==
  /\ listing.at = "batch" /\ listing.batch = {}
  /\ \E more \in (SUBSET (There \ listing.given)) \ {{}} :
       listing' = [listing EXCEPT !.batch = {[name |-> i, kind |-> items[i]] : i \in more},
                                  !.given = @ \union more]
  /\ UNCHANGED <<items, stayed, moves>>

EndOfFolder ==
  /\ listing.at = "batch" /\ listing.batch = {} /\ stayed \subseteq listing.given
  /\ ListTo("close")
  /\ UNCHANGED <<items, stayed, moves>>

\* What a link leads to is looked up when its entry is taken; a failure leaves it a link.
RowKind(entry) ==
  CASE entry.kind \in {"file", "directory"} -> {entry.kind}
    [] entry.kind = "broken"                -> {"symlink"}
    [] entry.kind = "link" -> {"symlink"} \union (IF items[entry.name] = "link" THEN {"directory"} ELSE {})

\* Variant: a full list leaves the rest of the folder out.
TakeEntryCut ==
  /\ listing.at = "batch"
  /\ \E entry \in listing.batch :
       IF Cardinality(listing.rows) = DirectoryLimit THEN listing' = [listing EXCEPT !.batch = {}]
       ELSE \E kind \in RowKind(entry) :
              listing' = [listing EXCEPT !.batch = @ \ {entry},
                                         !.rows = @ \union {[name |-> entry.name, kind |-> kind]}]
  /\ UNCHANGED <<items, stayed, moves>>

TakeEntry ==
  /\ listing.at = "batch"
  /\ \E entry \in listing.batch :
       IF Cardinality(listing.rows) = DirectoryLimit THEN ListTo("refused")
       ELSE \E kind \in RowKind(entry) :
              listing' = [listing EXCEPT !.batch = @ \ {entry},
                                         !.rows = @ \union {[name |-> entry.name, kind |-> kind]}]
  /\ UNCHANGED <<items, stayed, moves>>

\* Directories first, then by name.
RowBefore(a, b) ==
  IF (a.kind = "directory") # (b.kind = "directory") THEN a.kind = "directory" ELSE a.name < b.name

Sorted(rows) ==
  {row \in [1 .. Cardinality(rows) -> rows] : \A m, n \in DOMAIN row : m < n => RowBefore(row[m], row[n])}

\* The handle is closed whatever came of the batches; an error of either is the answer.
CloseFolder ==
  /\ listing.at = "close"
  /\ \E row \in Sorted(listing.rows) : listing' = [listing EXCEPT !.at = "shown", !.shown = row]
  /\ UNCHANGED <<items, stayed, moves>>

ListFails ==
  /\ listing.at \in {"open", "batch", "close"}
  /\ ListTo("refused")
  /\ UNCHANGED <<items, stayed, moves>>

OthersMove ==
  /\ moves < MaxMoves
  /\ \E i \in Item : \E kind \in ItemKind \ {items[i]} :
       items' = [items EXCEPT ![i] = kind] /\ stayed' = stayed \ {i}
  /\ moves' = moves + 1
  /\ UNCHANGED listing

FolderNext ==
  OpenFolder \/ NextBatch \/ TakeEntry \/ EndOfFolder \/ CloseFolder \/ ListFails \/ OthersMove

FolderSpec == FolderInit /\ [][FolderNext]_folderVars
-----------------------------------------------------------------------------
\* A folder that is shown has every item that stayed as it was, once and as what it is,
\* directories before the others: never a part of a folder that has more (list).
ListingWhole ==
  listing.at = "shown" =>
    LET rows == listing.shown IN
      /\ \A i \in stayed : Cardinality({n \in DOMAIN rows : rows[n].name = i}) = 1
      /\ \A n \in DOMAIN rows : rows[n].name \in stayed /\ items[rows[n].name] \in {"file", "directory"}
                                  => rows[n].kind = items[rows[n].name]
      /\ \A m, n \in DOMAIN rows : m < n => RowBefore(rows[m], rows[n])
=============================================================================
