---------------------------- MODULE MenuVersions ----------------------------
(* The menu versions of one restaurant: drafts, their publication by          *)
(* MenuManagementService, the cloned catalog of the Phase 4 seed, and a       *)
(* customer whose order is priced from the active menu.  Transactions of the  *)
(* publishers interleave statement by statement, on PostgreSQL (row locks) or *)
(* on SQLite (one writer, FOR UPDATE ignored).                                *)
EXTENDS Naturals, Sequences, FiniteSets

CONSTANTS
  Publishers,    \* processes that create and publish menus
  Customers,     \* customers who confirm an order
  MaxVersions,   \* bound on the versions
  MaxChanges,    \* bound on the publications
  Lines          \* bound on the lines of an order

ASSUME MenuAssumption ==
  /\ MaxVersions \in Nat \ {0} /\ MaxChanges \in Nat /\ Lines \in Nat \ {0}
  /\ IsFiniteSet(Publishers)

\* A version is its number.
Versions == 1 .. MaxVersions
None     == 0

VARIABLES
  rowLocks,   \* PostgreSQL, or SQLite
  status,     \* of each version; "none": no such row
  active,     \* active_menu_version_id of the active branches
  pc,         \* where each publisher's transaction is
  target,     \* the version it publishes
  current,    \* the published version it has read
  history,    \* history: the publications, in order
  seen,       \* the version a customer's draft was priced from
  since,      \* publications when the customer's confirmation began
  ptr,        \* the branch row the confirmation has read
  lines,      \* the versions of the lines read so far
  ordered     \* the versions of the customer's confirmed order

publishing == << pc, target, current >>
confirming == << since, ptr, lines, ordered >>
vars == << rowLocks, status, active, publishing, history, seen, confirming >>

Busy == { "selecting", "cloning", "cloned", "waiting", "selected" }

\* Every variable is of its type, and a row that a transaction has locked stays
\* published until that transaction ends.
MenuTypeOK ==
  /\ rowLocks \in BOOLEAN
  /\ status \in [ Versions -> { "none", "DRAFT", "PUBLISHED", "ARCHIVED" } ]
  /\ active \in Versions
  /\ pc \in [ Publishers -> Busy \union { "idle" } ]
  /\ target \in [ Publishers -> Versions \union { None } ]
  /\ current \in [ Publishers -> Versions \union { None } ]
  /\ history \in Seq(Versions)
  /\ seen \in [ Customers -> Versions ]
  /\ since \in [ Customers -> Nat ]
  /\ ptr \in [ Customers -> Versions \union { None } ]
  /\ lines \in [ Customers -> Seq(Versions) ]
  /\ ordered \in [ Customers -> Seq(Versions) ]
  /\ \A p \in Publishers : rowLocks /\ pc[p] = "selected" /\ current[p] # None =>
       status[current[p]] = "PUBLISHED"

-----------------------------------------------------------------------------
(* The database *)

Published == { v \in Versions : status[v] = "PUBLISHED" }

\* next_version_number, while a number is left
Fresh == { v \in Versions : \A w \in Versions : w >= v <=> status[w] = "none" }

\* p has inserted a version that is not committed.
Inserting(p) == pc[p] \in { "cloned", "waiting", "selected" } /\ status[target[p]] = "none"

\* A statement of p that writes waits for the insertion of another: for its
\* version number on PostgreSQL, for the file's only writer on SQLite.
MayInsert(p, v) == \A q \in Publishers \ { p } : Inserting(q) => rowLocks /\ target[q] # v

MayWrite(p) == rowLocks \/ \A q \in Publishers \ { p } : ~ Inserting(q)

\* The published row is locked by another transaction.
Locked(p, v) ==
  rowLocks /\ v # None /\ \E q \in Publishers \ { p } : pc[q] = "selected" /\ current[q] = v

\* Bug: no partial unique index.
IndexAllows_Always(archived, v) == TRUE

\* uq_menu_versions_one_published_per_restaurant
IndexAllows(archived, v) == Published \subseteq { archived, v }

\* The bounds: a number is left for every insertion, and a publication.
Spare == Cardinality({ q \in Publishers : pc[q] = "cloning" \/ Inserting(q) })
           < Cardinality({ v \in Versions : status[v] = "none" })

MayBegin == Len(history) + Cardinality({ q \in Publishers : pc[q] # "idle" }) <= MaxChanges

-----------------------------------------------------------------------------
(* Publishers *)

\* create_draft
CreateDraft(p) ==
  \E v \in Fresh :
    /\ pc[p] = "idle" /\ MayInsert(p, v) /\ MayWrite(p) /\ Spare
    /\ status' = [status EXCEPT ![v] = "DRAFT"]
    /\ UNCHANGED << rowLocks, active, publishing, history, seen, confirming >>

Goes(p, to, v, c) ==
  /\ pc' = [pc EXCEPT ![p] = to]
  /\ target' = [target EXCEPT ![p] = v]
  /\ current' = [current EXCEPT ![p] = c]

Elsewhere == UNCHANGED << rowLocks, status, active, history, seen, confirming >>

\* publish reads the version's status.
BeginPublish(p, v) ==
  /\ pc[p] = "idle" /\ status[v] = "DRAFT" /\ MayBegin
  /\ Goes(p, "selecting", v, None)
  /\ Elsewhere

\* publish_phase4_catalog reads the published menu, which is not yet a catalog.
BeginCatalog(p) ==
  /\ pc[p] = "idle" /\ Published # {} /\ MayBegin /\ Spare
  /\ Goes(p, "cloning", None, None)
  /\ Elsewhere

\* clone_phase4_draft
Clones(p) ==
  \E v \in Fresh :
    /\ pc[p] = "cloning" /\ MayInsert(p, v) /\ MayWrite(p)
    /\ Goes(p, "cloned", v, None)
    /\ Elsewhere

\* publish_for_restaurant selects the published version FOR UPDATE, and waits
\* when it is locked.
SelectCurrent(p) ==
  LET others == Published \ { target[p] }
      c == IF others = {} THEN None ELSE CHOOSE v \in others : TRUE
  IN  /\ pc[p] \in { "selecting", "cloned" }
      /\ Goes(p, IF Locked(p, c) THEN "waiting" ELSE "selected", target[p], c)
      /\ Elsewhere

\* PostgreSQL evaluates the row again: it may be archived by now.
Rechecked(v) == IF status[v] = "PUBLISHED" THEN v ELSE None

SelectAfterWait(p) ==
  /\ pc[p] = "waiting" /\ ~ Locked(p, current[p])
  /\ Goes(p, "selected", target[p], Rechecked(current[p]))
  /\ Elsewhere

\* Bug: the transaction is left open.
Conflict_LeftOpen(p) == UNCHANGED vars

\* The database refuses a statement, or the row count is wrong: rolled back.
Conflict(p) ==
  /\ Goes(p, "idle", None, None)
  /\ Elsewhere

\* The update of the active branches.
Switched(v) == v

ArchivesAndPublishes(p) ==
  LET v == target[p]
      c == current[p]
  IN  /\ status' = [ w \in Versions |-> IF w = v THEN "PUBLISHED"
                                        ELSE IF w = c THEN "ARCHIVED" ELSE status[w] ]
      /\ active' = Switched(v)
      /\ history' = Append(history, v)
      /\ Goes(p, "idle", None, None)
      /\ UNCHANGED << rowLocks, seen, confirming >>

\* Whether the archiving and the publishing statements of p can succeed.
Succeeds(p) ==
  /\ current[p] # None => status[current[p]] = "PUBLISHED"
  /\ IndexAllows(current[p], target[p])

\* The rest of publish_for_restaurant, the flush and the commit.
Finish(p) ==
  /\ pc[p] = "selected" /\ MayWrite(p)
  /\ IF Succeeds(p) THEN ArchivesAndPublishes(p) ELSE Conflict(p)

\* SQLite gives up waiting for the file's write lock.
TimesOut(p) ==
  /\ pc[p] \in { "cloning", "selected" } /\ ~ MayWrite(p)
  /\ Conflict(p)

\* The transaction fails or its process stops before the commit.
Abandon(p) ==
  /\ pc[p] \in Busy
  /\ Conflict(p)

-----------------------------------------------------------------------------
(* A customer *)

\* A turn prices the draft from the menu of its MenuService.
Browse(c) ==
  /\ since[c] = 0
  /\ seen' = [seen EXCEPT ![c] = active]
  /\ UNCHANGED << rowLocks, status, active, publishing, history, confirming >>

\* confirm: _authoritative_request opens its unit of work.
BeginConfirm(c) ==
  /\ since[c] = 0
  /\ since' = [since EXCEPT ![c] = Len(history)]
  /\ UNCHANGED << rowLocks, status, active, publishing, history, seen, ptr, lines, ordered >>

\* get_active_version reads the branch, unless the unit of work still has it.
ReadBranch(c) ==
  /\ since[c] > 0 /\ Len(lines[c]) < Lines
  /\ ptr' = [ptr EXCEPT ![c] = active]
  /\ UNCHANGED << rowLocks, status, active, publishing, history, seen, since, lines, ordered >>

\* Bug: a line keeps the price of the draft.
LineVersion_Seen(c) == seen[c]

\* get_item_by_code: the items of the branch's version.
LineVersion(c) == ptr[c]

NoConfirmation(c) ==
  /\ since' = [since EXCEPT ![c] = 0]
  /\ ptr' = [ptr EXCEPT ![c] = None]
  /\ lines' = [lines EXCEPT ![c] = << >>]

\* The version's status is read and the line priced; without a published
\* version the item is unavailable.
ReadLine(c) ==
  /\ ptr[c] # None /\ Len(lines[c]) < Lines
  /\ IF status[ptr[c]] = "PUBLISHED"
     THEN lines' = [lines EXCEPT ![c] = Append(@, LineVersion(c))] /\ UNCHANGED << since, ptr >>
     ELSE NoConfirmation(c)
  /\ UNCHANGED << rowLocks, status, active, publishing, history, seen, ordered >>

\* _confirm_transaction stores the lines.
Confirm(c) ==
  /\ Len(lines[c]) = Lines
  /\ ordered' = [ordered EXCEPT ![c] = lines[c]]
  /\ UNCHANGED << rowLocks, status, active, publishing, history, seen, since, ptr, lines >>

-----------------------------------------------------------------------------
(* Specification *)

Init ==
  /\ rowLocks \in BOOLEAN
  /\ status = [ v \in Versions |-> IF v = 1 THEN "PUBLISHED" ELSE "none" ]
  /\ active = 1
  /\ pc = [ p \in Publishers |-> "idle" ]
  /\ target = [ p \in Publishers |-> None ]
  /\ current = [ p \in Publishers |-> None ]
  /\ history = << 1 >>
  /\ seen = [ c \in Customers |-> 1 ]
  /\ since = [ c \in Customers |-> 0 ]
  /\ ptr = [ c \in Customers |-> None ]
  /\ lines = [ c \in Customers |-> << >> ]
  /\ ordered = [ c \in Customers |-> << >> ]

Publishing(p) ==
  \/ CreateDraft(p) \/ BeginCatalog(p) \/ Clones(p)
  \/ \E v \in Versions : BeginPublish(p, v)
  \/ SelectCurrent(p) \/ SelectAfterWait(p) \/ Finish(p) \/ TimesOut(p) \/ Abandon(p)

Next ==
  \/ \E p \in Publishers : Publishing(p)
  \/ \E c \in Customers : Browse(c) \/ BeginConfirm(c) \/ ReadBranch(c) \/ ReadLine(c) \/ Confirm(c)

Spec == Init /\ [][Next]_vars

\* A transaction runs on; PostgreSQL queues what waits for a lock, first come
\* first served, and SQLite's wait is bounded.
FairSpec ==
  /\ Spec
  /\ \A p \in Publishers :
       /\ WF_vars(SelectCurrent(p) \/ Finish(p) \/ TimesOut(p))
       /\ SF_vars(Clones(p))
       /\ SF_vars(SelectAfterWait(p))

-----------------------------------------------------------------------------
(* Properties *)

\* At no time has the restaurant two published menus, or none, on either
\* database (menu_management_service.py:32-45).
OnePublished == Cardinality(Published) = 1

\* Every active branch points at the published menu, whichever publication won.
NoBranchGap == status[active] = "PUBLISHED"

MenuInvariant == MenuTypeOK /\ OnePublished /\ NoBranchGap

\* Every line of a confirmed order has the price of a menu that was published
\* while the order was being confirmed, never of the older menu the draft was
\* shown with.
AuthoritativePrices ==
  \A c \in Customers : \A k \in DOMAIN ordered[c] :
    \E h \in since[c] .. Len(history) : history[h] = ordered[c][k]

\* A publication comes to an end: the waits of publishers are never circular.
PublicationsEnd == \A p \in Publishers : pc[p] \in Busy ~> pc[p] = "idle"
=============================================================================
