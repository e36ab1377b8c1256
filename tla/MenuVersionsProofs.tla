------------------------- MODULE MenuVersionsProofs -------------------------
(* Proofs about MenuVersions, for any number of publishers, customers,       *)
(* versions and lines: the menu invariant and the prices of an order.        *)
EXTENDS MenuVersions, FiniteSetTheorems, SequenceTheorems, TLAPS

(* A publisher past the insertion of its draft has a version to publish. *)
TargetsExist ==
  \A p \in Publishers :
    pc[p] \in { "selecting", "cloned", "waiting", "selected" } => target[p] \in Versions

(* On PostgreSQL no two transactions have selected the same row. *)
RowsAreLocked ==
  rowLocks => \A p, q \in Publishers :
    pc[p] = "selected" /\ pc[q] = "selected" /\ current[p] # None /\ current[p] = current[q]
      => p = q

(* The branches point at the published version and at no other. *)
BranchesFollow == Published = { active }

(* A publication switches the branches and is remembered as the last one. *)
LastIsActive == history # << >> /\ history[Len(history)] = active

PublisherInv == MenuTypeOK /\ TargetsExist /\ RowsAreLocked /\ BranchesFollow /\ LastIsActive

(* A version was published when c's confirmation began, or since. *)
Current(c, v) == \E h \in since[c] .. Len(history) : h \in DOMAIN history /\ history[h] = v

(* What c's confirmation has read so far, and what it has stored. *)
ReadsAreCurrent ==
  \A c \in Customers :
    /\ since[c] <= Len(history)
    /\ ptr[c] # None => Current(c, ptr[c])
    /\ \A k \in DOMAIN lines[c] : Current(c, lines[c][k])
    /\ \A k \in DOMAIN ordered[c] : Current(c, ordered[c][k])

(* Before a confirmation begins it has read nothing, and only one that has *)
(* read all its lines has stored an order.                                  *)
ReadsBelong ==
  \A c \in Customers :
    /\ since[c] = 0 => ptr[c] = None /\ lines[c] = << >>
    /\ ordered[c] # << >> => since[c] > 0 /\ Len(lines[c]) = Lines

CustomerInv == ReadsAreCurrent /\ ReadsBelong

-----------------------------------------------------------------------------
(* Facts about the operators *)

(* A fresh version number has no row. *)
LEMMA FreshHasNoRow ==
  ASSUME MenuTypeOK, NEW v \in Fresh
  PROVE  v \in Versions /\ status[v] = "none"
BY DEF Fresh, MenuTypeOK, Versions

(* Only a new row appears, so the same versions are published. *)
LEMMA DraftsAreNotPublished ==
  ASSUME MenuTypeOK, NEW v \in Fresh, status' = [status EXCEPT ![v] = "DRAFT"]
  PROVE  /\ Published' = Published
         /\ status' \in [ Versions -> { "none", "DRAFT", "PUBLISHED", "ARCHIVED" } ]
         /\ \A w \in Versions : status[w] = "PUBLISHED" => status'[w] = "PUBLISHED"
BY FreshHasNoRow DEF MenuTypeOK, Published

(* A publication that succeeds leaves its version as the only one. *)
LEMMA PublicationReplaces ==
  ASSUME MenuTypeOK, NEW p \in Publishers, target[p] \in Versions,
         Succeeds(p), ArchivesAndPublishes(p)
  PROVE  /\ Published' = { target[p] }
         /\ status' \in [ Versions -> { "none", "DRAFT", "PUBLISHED", "ARCHIVED" } ]
         /\ \A w \in Versions :
              status[w] = "PUBLISHED" /\ w # current[p] => status'[w] = "PUBLISHED"
BY DEF MenuTypeOK, Published, Succeeds, IndexAllows, ArchivesAndPublishes

-----------------------------------------------------------------------------
(* Publishers *)

(* A transaction goes to a step without the row it is to archive. *)
LEMMA GoesOn ==
  ASSUME PublisherInv, NEW p \in Publishers,
         NEW to \in Busy \union { "idle" }, NEW v \in Versions \union { None },
         NEW c \in Versions \union { None },
         Goes(p, to, v, c), Elsewhere,
         to \in { "selecting", "cloned", "waiting", "selected" } => v \in Versions,
         to = "selected" /\ c # None /\ rowLocks => status[c] = "PUBLISHED" /\ ~ Locked(p, c)
  PROVE  PublisherInv'
<1> USE DEF Goes, Elsewhere, confirming
<1>1. MenuTypeOK'
  BY DEF PublisherInv, MenuTypeOK
<1>2. TargetsExist'
  BY DEF PublisherInv, MenuTypeOK, TargetsExist
<1>3. RowsAreLocked'
  BY DEF PublisherInv, MenuTypeOK, RowsAreLocked, Locked
<1>4. BranchesFollow' /\ LastIsActive'
  BY DEF PublisherInv, BranchesFollow, LastIsActive, Published
<1> QED
  BY <1>1, <1>2, <1>3, <1>4 DEF PublisherInv

(* The end of a transaction without a publication. *)
LEMMA GivesUp ==
  ASSUME PublisherInv, NEW p \in Publishers, Conflict(p)
  PROVE  PublisherInv'
BY GoesOn DEF Conflict, Busy

(* The version that SelectCurrent finds is published. *)
LEMMA SelectsPublished ==
  ASSUME PublisherInv, NEW p \in Publishers, SelectCurrent(p)
  PROVE  PublisherInv'
<1> DEFINE others == Published \ { target[p] }
           c == IF others = {} THEN None ELSE CHOOSE v \in others : TRUE
<1>1. c = None \/ c \in Published
  OBVIOUS
<1>2. c \in Versions \union { None } /\ (c # None => status[c] = "PUBLISHED")
  BY <1>1 DEF Published
<1>3. pc[p] \in { "selecting", "cloned" } /\ Elsewhere
      /\ Goes(p, IF Locked(p, c) THEN "waiting" ELSE "selected", target[p], c)
  BY DEF SelectCurrent
<1> HIDE DEF c
<1>4. target[p] \in Versions
  BY <1>3 DEF PublisherInv, TargetsExist
<1>5. CASE Locked(p, c)
  BY <1>2, <1>3, <1>4, <1>5, GoesOn DEF Busy
<1>6. CASE ~ Locked(p, c)
  BY <1>2, <1>3, <1>4, <1>6, GoesOn DEF Busy
<1> QED
  BY <1>5, <1>6

(* A successful publication. *)
LEMMA PublishesOne ==
  ASSUME PublisherInv, NEW p \in Publishers, Finish(p), Succeeds(p)
  PROVE  PublisherInv'
<1>1. target[p] \in Versions /\ ArchivesAndPublishes(p) /\ pc[p] = "selected"
  BY DEF PublisherInv, TargetsExist, Finish
<1>2. /\ Published' = { target[p] }
      /\ status' \in [ Versions -> { "none", "DRAFT", "PUBLISHED", "ARCHIVED" } ]
      /\ \A w \in Versions :
           status[w] = "PUBLISHED" /\ w # current[p] => status'[w] = "PUBLISHED"
  BY <1>1, PublicationReplaces DEF PublisherInv
<1>3. /\ active' = target[p] /\ history' = Append(history, target[p])
      /\ Goes(p, "idle", None, None)
      /\ UNCHANGED << rowLocks, seen, since, ptr, lines, ordered >>
  BY <1>1 DEF ArchivesAndPublishes, Switched, confirming
<1>4. history' \in Seq(Versions) /\ LastIsActive'
  BY <1>1, <1>3 DEF PublisherInv, MenuTypeOK, LastIsActive
<1>5. \A q \in Publishers : rowLocks' /\ pc'[q] = "selected" /\ current'[q] # None =>
        status'[current'[q]] = "PUBLISHED"
  <2> SUFFICES ASSUME NEW q \in Publishers, rowLocks', pc'[q] = "selected", current'[q] # None
               PROVE  status'[current'[q]] = "PUBLISHED"
    OBVIOUS
  <2>1. q # p /\ pc[q] = "selected" /\ current'[q] = current[q] /\ rowLocks
    BY <1>3 DEF Goes, PublisherInv, MenuTypeOK
  <2>2. current[q] \in Versions /\ status[current[q]] = "PUBLISHED"
    BY <2>1 DEF PublisherInv, MenuTypeOK
  <2>3. current[q] # current[p]
    BY <1>1, <2>1, <2>2 DEF PublisherInv, RowsAreLocked
  <2> QED
    BY <1>2, <2>1, <2>2, <2>3
<1>6. MenuTypeOK'
  BY <1>1, <1>2, <1>3, <1>4, <1>5 DEF PublisherInv, MenuTypeOK, Goes
<1>7. TargetsExist' /\ RowsAreLocked'
  BY <1>3 DEF PublisherInv, MenuTypeOK, TargetsExist, RowsAreLocked, Goes
<1>8. BranchesFollow'
  BY <1>2, <1>3 DEF BranchesFollow
<1> QED
  BY <1>4, <1>6, <1>7, <1>8 DEF PublisherInv

(* Every step of a publisher keeps the invariant. *)
LEMMA PublisherSteps ==
  ASSUME PublisherInv, NEW p \in Publishers, Publishing(p)
  PROVE  PublisherInv'
<1>1. CASE CreateDraft(p)
  <2>1. PICK v \in Fresh : status' = [status EXCEPT ![v] = "DRAFT"]
    BY <1>1 DEF CreateDraft
  <2>2. UNCHANGED << rowLocks, active, pc, target, current, history, seen, since, ptr, lines, ordered >>
    BY <1>1 DEF CreateDraft, publishing, confirming
  <2>3. /\ Published' = Published
        /\ status' \in [ Versions -> { "none", "DRAFT", "PUBLISHED", "ARCHIVED" } ]
        /\ \A w \in Versions : status[w] = "PUBLISHED" => status'[w] = "PUBLISHED"
    BY <2>1, DraftsAreNotPublished DEF PublisherInv
  <2>4. MenuTypeOK'
    BY <2>2, <2>3 DEF PublisherInv, MenuTypeOK
  <2> QED
    BY <2>2, <2>3, <2>4 DEF PublisherInv, TargetsExist, RowsAreLocked, BranchesFollow, LastIsActive
<1>2. CASE BeginCatalog(p)
  BY <1>2, GoesOn DEF BeginCatalog, Busy
<1>3. CASE Clones(p)
  <2>1. PICK v \in Fresh : Goes(p, "cloned", v, None) /\ Elsewhere
    BY <1>3 DEF Clones
  <2>2. v \in Versions
    BY <2>1 DEF Fresh
  <2> QED
    BY <2>1, <2>2, GoesOn DEF Busy
<1>4. CASE \E v \in Versions : BeginPublish(p, v)
  BY <1>4, GoesOn DEF BeginPublish, Busy
<1>5. CASE SelectCurrent(p)
  BY <1>5, SelectsPublished
<1>6. CASE SelectAfterWait(p)
  <2>1. /\ pc[p] = "waiting" /\ ~ Locked(p, current[p]) /\ Elsewhere
        /\ Goes(p, "selected", target[p], Rechecked(current[p]))
    BY <1>6 DEF SelectAfterWait
  <2>2. /\ Rechecked(current[p]) \in { None, current[p] }
        /\ Rechecked(current[p]) # None => status[Rechecked(current[p])] = "PUBLISHED"
    BY DEF Rechecked
  <2>3. target[p] \in Versions /\ current[p] \in Versions \union { None }
    BY <2>1 DEF PublisherInv, TargetsExist, MenuTypeOK
  <2> QED
    BY <2>1, <2>2, <2>3, GoesOn DEF Busy
<1>7. CASE Finish(p)
  <2>1. CASE Succeeds(p)
    BY <1>7, <2>1, PublishesOne
  <2>2. CASE ~ Succeeds(p)
    BY <1>7, <2>2, GivesUp DEF Finish
  <2> QED
    BY <2>1, <2>2
<1>8. CASE TimesOut(p) \/ Abandon(p)
  BY <1>8, GivesUp DEF TimesOut, Abandon
<1> QED
  BY <1>1, <1>2, <1>3, <1>4, <1>5, <1>6, <1>7, <1>8 DEF Publishing

-----------------------------------------------------------------------------
(* Customers *)

Reading(c) == Browse(c) \/ BeginConfirm(c) \/ ReadBranch(c) \/ ReadLine(c) \/ Confirm(c)

(* A customer changes nothing of the publishers'. *)
LEMMA CustomersOnlyRead ==
  ASSUME PublisherInv, CustomerInv, NEW c \in Customers, Reading(c)
  PROVE  PublisherInv'
<1>1. UNCHANGED << rowLocks, status, active, pc, target, current, history >>
  BY DEF Reading, Browse, BeginConfirm, ReadBranch, ReadLine, Confirm, publishing
<1> DEFINE Types ==
      /\ seen \in [ Customers -> Versions ] /\ since \in [ Customers -> Nat ]
      /\ ptr \in [ Customers -> Versions \union { None } ]
      /\ lines \in [ Customers -> Seq(Versions) ] /\ ordered \in [ Customers -> Seq(Versions) ]
<1>2. Types /\ active \in Versions /\ Len(history) \in Nat
  BY DEF PublisherInv, MenuTypeOK
<1>3. Types'
  <2>1. CASE Browse(c)
    BY <1>2, <2>1 DEF Browse, confirming
  <2>2. CASE BeginConfirm(c)
    BY <1>2, <2>2 DEF BeginConfirm
  <2>3. CASE ReadBranch(c)
    BY <1>2, <2>3 DEF ReadBranch
  <2>4. CASE ReadLine(c)
    <3>1. CASE status[ptr[c]] = "PUBLISHED"
      <4>1. ptr[c] \in Versions /\ lines[c] \in Seq(Versions)
        BY <1>2, <2>4 DEF ReadLine
      <4>2. lines' = [lines EXCEPT ![c] = Append(lines[c], ptr[c])]
        BY <2>4, <3>1 DEF ReadLine, LineVersion
      <4>3. lines' \in [ Customers -> Seq(Versions) ]
        BY <1>2, <4>1, <4>2
      <4> QED
        BY <1>2, <2>4, <3>1, <4>3 DEF ReadLine
    <3>2. CASE status[ptr[c]] # "PUBLISHED"
      <4>1. /\ lines' = [lines EXCEPT ![c] = << >>] /\ since' = [since EXCEPT ![c] = 0]
            /\ ptr' = [ptr EXCEPT ![c] = None] /\ UNCHANGED << seen, ordered >>
        BY <2>4, <3>2 DEF ReadLine, NoConfirmation
      <4>2. << >> \in Seq(Versions)
        OBVIOUS
      <4>3. lines' \in [ Customers -> Seq(Versions) ]
        BY <1>2, <4>1, <4>2
      <4> QED
        BY <1>2, <4>1, <4>3
    <3> QED
      BY <3>1, <3>2
  <2>5. CASE Confirm(c)
    BY <1>2, <2>5 DEF Confirm
  <2> QED
    BY <2>1, <2>2, <2>3, <2>4, <2>5 DEF Reading
<1>4. MenuTypeOK'
  BY <1>1, <1>3 DEF PublisherInv, MenuTypeOK
<1> QED
  BY <1>1, <1>4 DEF PublisherInv, TargetsExist, RowsAreLocked, BranchesFollow, LastIsActive, Published

(* A publisher's step keeps what was current current. *)
LEMMA PublishingKeepsReads ==
  ASSUME PublisherInv, CustomerInv, NEW p \in Publishers, Publishing(p)
  PROVE  CustomerInv'
<1>1. UNCHANGED << since, ptr, lines, ordered >>
  BY DEF Publishing, CreateDraft, BeginCatalog, Clones, BeginPublish, SelectCurrent,
         SelectAfterWait, Finish, TimesOut, Abandon, Conflict, ArchivesAndPublishes,
         Elsewhere, confirming
<1>2. history' = history \/ \E v \in Versions : history' = Append(history, v)
  BY DEF Publishing, CreateDraft, BeginCatalog, Clones, BeginPublish, SelectCurrent,
         SelectAfterWait, Finish, TimesOut, Abandon, Conflict, ArchivesAndPublishes,
         Elsewhere, PublisherInv, TargetsExist
<1>3. /\ Len(history) <= Len(history') /\ Len(history) \in Nat /\ Len(history') \in Nat
      /\ \A h \in DOMAIN history : h \in DOMAIN history' /\ history'[h] = history[h]
  <2>1. history \in Seq(Versions)
    BY DEF PublisherInv, MenuTypeOK
  <2>2. CASE history' = history
    BY <2>1, <2>2
  <2>3. ASSUME NEW v \in Versions, history' = Append(history, v)
        PROVE  /\ Len(history') = Len(history) + 1 /\ Len(history) \in Nat
               /\ \A h \in DOMAIN history : h \in DOMAIN history' /\ history'[h] = history[h]
    BY <2>1, <2>3
  <2> QED
    BY <1>2, <2>2, <2>3, <2>1
<1>4. \A c \in Customers : \A v : Current(c, v) => Current(c, v)'
  BY <1>1, <1>3 DEF Current, PublisherInv, MenuTypeOK
<1>5. ReadsAreCurrent'
  BY <1>1, <1>3, <1>4 DEF CustomerInv, ReadsAreCurrent, PublisherInv, MenuTypeOK
<1>6. ReadsBelong'
  BY <1>1 DEF CustomerInv, ReadsBelong
<1> QED
  BY <1>5, <1>6 DEF CustomerInv

(* An element of a sequence with e appended is e or was there before. *)
LEMMA Appended ==
  ASSUME NEW S, NEW s \in Seq(S), NEW e \in S, NEW k \in DOMAIN Append(s, e)
  PROVE  \/ Append(s, e)[k] = e
         \/ k \in DOMAIN s /\ Append(s, e)[k] = s[k]
<1>1. Append(s, e) \in Seq(S) /\ Len(Append(s, e)) = Len(s) + 1 /\ Len(s) \in Nat
  BY AppendProperties
<1>2. k \in 1 .. Len(s) + 1 /\ DOMAIN s = 1 .. Len(s)
  <2>1. DOMAIN Append(s, e) = 1 .. Len(Append(s, e))
    BY ONLY <1>1
  <2> QED
    BY <1>1, <2>1
<1>3. k = Len(s) + 1 \/ k \in 1 .. Len(s)
  BY <1>1, <1>2
<1>4. /\ Append(s, e)[Len(s) + 1] = e
      /\ \A i \in 1 .. Len(s) : Append(s, e)[i] = s[i]
  BY AppendProperties
<1>5. CASE k = Len(s) + 1
  BY <1>1, <1>4, <1>5
<1>6. CASE k \in 1 .. Len(s)
  BY <1>2, <1>4, <1>6
<1> QED
  BY <1>3, <1>5, <1>6

(* What a confirmation reads is the menu of the moment. *)
LEMMA ReadingIsCurrent ==
  ASSUME PublisherInv, CustomerInv, NEW c \in Customers, Reading(c)
  PROVE  CustomerInv'
<1> USE DEF PublisherInv, MenuTypeOK, CustomerInv, ReadsAreCurrent, ReadsBelong, Current
<1>1. CASE Browse(c)
  BY <1>1 DEF Browse, confirming
<1>2. CASE BeginConfirm(c)
  BY <1>2 DEF BeginConfirm
<1>3. CASE ReadBranch(c)
  <2>1. Len(history) \in since[c] .. Len(history) /\ Len(history) \in DOMAIN history
    BY DEF LastIsActive
  <2> QED
    BY <1>3, <2>1 DEF ReadBranch, LastIsActive
<1>4. CASE ReadLine(c) /\ status[ptr[c]] = "PUBLISHED"
  <2> DEFINE read == Append(lines[c], ptr[c])
  <2>1. /\ ptr[c] \in Versions /\ Current(c, ptr[c]) /\ lines[c] \in Seq(Versions)
        /\ Len(lines[c]) < Lines /\ Len(lines[c]) \in Nat
    BY <1>4 DEF ReadLine
  <2>2. /\ lines' = [lines EXCEPT ![c] = read]
        /\ UNCHANGED << since, ptr, ordered, history >>
    BY <1>4 DEF ReadLine, LineVersion
  <2>3. ASSUME NEW k \in DOMAIN read
        PROVE  Current(c, read[k])
    <3>1. \/ read[k] = ptr[c]
          \/ k \in DOMAIN lines[c] /\ read[k] = lines[c][k]
      BY ONLY <2>1, Appended, k \in DOMAIN read
    <3>2. \A i \in DOMAIN lines[c] : Current(c, lines[c][i])
      OBVIOUS
    <3> HIDE DEF read, Current
    <3> QED
      BY <2>1, <3>1, <3>2
  <2>4. ordered[c] = << >> /\ since[c] # 0
    BY <2>1, <1>4, MenuAssumption DEF ReadLine
  <2>5. lines'[c] = read /\ \A d \in Customers \ { c } : lines'[d] = lines[d]
    BY <2>2
  <2>6. \A d \in Customers : \A v : Current(d, v)' <=> Current(d, v)
    BY <2>2
  <2> HIDE DEF read
  <2>7. ReadsAreCurrent'
    <3> SUFFICES ASSUME NEW d \in Customers
                 PROVE  (/\ since[d] <= Len(history)
                         /\ ptr[d] # None => Current(d, ptr[d])
                         /\ \A k \in DOMAIN lines[d] : Current(d, lines[d][k])
                         /\ \A k \in DOMAIN ordered[d] : Current(d, ordered[d][k]))'
      BY DEF ReadsAreCurrent
    <3>1. CASE d = c
      BY <2>2, <2>3, <2>5, <2>6, <3>1
    <3>2. CASE d # c
      BY <2>2, <2>5, <2>6, <3>2
    <3> QED
      BY <3>1, <3>2
  <2>8. ReadsBelong'
    BY <2>2, <2>4, <2>5
  <2> QED
    BY <2>7, <2>8 DEF CustomerInv
<1>5. CASE ReadLine(c) /\ status[ptr[c]] # "PUBLISHED"
  <2>1. NoConfirmation(c) /\ UNCHANGED << history, ordered >> /\ ordered[c] = << >>
    BY <1>5, MenuAssumption DEF ReadLine
  <2> QED
    BY <2>1 DEF NoConfirmation
<1>6. CASE Confirm(c)
  <2>1. since[c] # 0
    BY <1>6, MenuAssumption DEF Confirm
  <2>2. /\ ordered' = [ordered EXCEPT ![c] = lines[c]] /\ Len(lines[c]) = Lines
        /\ UNCHANGED << history, since, ptr, lines >>
    BY <1>6 DEF Confirm
  <2>3. /\ ordered'[c] = lines[c] /\ \A d \in Customers \ { c } : ordered'[d] = ordered[d]
        /\ \A d \in Customers : \A v : Current(d, v)' <=> Current(d, v)
    BY <2>2
  <2>4. ReadsBelong'
    BY <2>1, <2>2
  <2>5. ReadsAreCurrent'
    <3> SUFFICES ASSUME NEW d \in Customers
                 PROVE  (/\ since[d] <= Len(history)
                         /\ ptr[d] # None => Current(d, ptr[d])
                         /\ \A k \in DOMAIN lines[d] : Current(d, lines[d][k])
                         /\ \A k \in DOMAIN ordered[d] : Current(d, ordered[d][k]))'
      BY DEF ReadsAreCurrent
    <3>1. CASE d = c
      <4>1. \A k \in DOMAIN lines[c] : Current(c, lines[c][k])
        OBVIOUS
      <4>2. \A k \in DOMAIN ordered'[c] : Current(c, ordered'[c][k])
        BY <2>3, <4>1
      <4> QED
        BY <2>2, <2>3, <3>1, <4>1, <4>2
    <3>2. CASE d # c
      BY <2>2, <2>3, <3>2
    <3> QED
      BY <3>1, <3>2
  <2> QED
    BY <2>4, <2>5 DEF CustomerInv
<1> QED
  BY <1>1, <1>2, <1>3, <1>4, <1>5, <1>6 DEF Reading

-----------------------------------------------------------------------------
(* The theorems *)

MenuInv == PublisherInv /\ CustomerInv

LEMMA Initially == Init => MenuInv
<1> SUFFICES ASSUME Init PROVE MenuInv
  OBVIOUS
<1> USE DEF Init
<1>1. MenuTypeOK
  BY MenuAssumption DEF MenuTypeOK, Versions
<1>2. TargetsExist /\ RowsAreLocked /\ BranchesFollow /\ LastIsActive
  BY MenuAssumption DEF TargetsExist, RowsAreLocked, BranchesFollow, LastIsActive, Published, Versions
<1>3. CustomerInv
  BY DEF CustomerInv, ReadsAreCurrent, ReadsBelong
<1> QED
  BY <1>1, <1>2, <1>3 DEF MenuInv, PublisherInv

(* The publishers' and the customers' invariants hold together: what a      *)
(* confirmation reads is current because a branch is switched and a version *)
(* published in one transaction (menu_management_service.py publish,        *)
(* order_persistence_service.py _authoritative_request).                    *)
THEOREM MenuStaysConsistent == Spec => []MenuInv
<1>1. MenuInv /\ [Next]_vars => MenuInv'
  <2> SUFFICES ASSUME PublisherInv, CustomerInv, [Next]_vars PROVE PublisherInv' /\ CustomerInv'
    BY DEF MenuInv
  <2>1. CASE \E p \in Publishers : Publishing(p)
    BY <2>1, PublisherSteps, PublishingKeepsReads
  <2>2. CASE \E c \in Customers : Reading(c)
    BY <2>2, CustomersOnlyRead, ReadingIsCurrent
  <2>3. CASE UNCHANGED vars
    BY <2>3 DEF vars, publishing, confirming, PublisherInv, CustomerInv, MenuTypeOK, TargetsExist,
                RowsAreLocked, BranchesFollow, LastIsActive, Published, ReadsAreCurrent, ReadsBelong, Current
  <2> QED
    BY <2>1, <2>2, <2>3 DEF Next, Reading
<1> QED
  BY Initially, <1>1, PTL DEF Spec

(* A restaurant has exactly one published menu at any time and every active *)
(* branch points at it, on either database, however many processes publish  *)
(* or seed menus at once (menu_management_service.py publish).              *)
THEOREM OneMenuPublished == Spec => []MenuInvariant
<1>1. MenuInv => MenuInvariant
  <2> SUFFICES ASSUME MenuInv PROVE MenuInvariant
    OBVIOUS
  <2>1. Published = { active }
    BY DEF MenuInv, PublisherInv, BranchesFollow
  <2>2. Cardinality(Published) = 1
    BY <2>1, FS_Singleton
  <2>3. status[active] = "PUBLISHED"
    BY <2>1 DEF Published
  <2> QED
    BY <2>2, <2>3 DEF MenuInv, PublisherInv, MenuInvariant, OnePublished, NoBranchGap
<1> QED
  BY <1>1, MenuStaysConsistent, PTL

(* Every line of a confirmed order has the price of a menu that was         *)
(* published while the order was being confirmed                            *)
(* (order_persistence_service.py _authoritative_request).                   *)
THEOREM PricesAreAuthoritative == Spec => []AuthoritativePrices
<1>1. MenuInv => AuthoritativePrices
  BY DEF MenuInv, CustomerInv, ReadsAreCurrent, Current, AuthoritativePrices
<1> QED
  BY <1>1, MenuStaysConsistent, PTL
=============================================================================
