---------------------------- MODULE SessionLocks ----------------------------
(* SessionLockManager (services/text_entry_service.py): one asyncio.Lock per *)
(* session, kept in a table of at most about max_locks records that drops    *)
(* the oldest ones, and the lock a turn of a session is run under.  The      *)
(* event loop's thread runs one action at a time; a turn itself runs in a    *)
(* worker thread between GetLock or Resume and Release.                      *)
(*                                                                           *)
(* asyncio.Lock is external: a free lock without waiters is taken at once;   *)
(* release() frees it and wakes the first waiter, which takes it only when   *)
(* the loop runs it again.  Meanwhile the lock counts as not locked.         *)
EXTENDS Naturals, Sequences, FiniteSets

CONSTANTS
  Sessions,
  Calls,       \* tasks that call handle_text_message, one turn after the other
  SessionOf,   \* the session a task works on
  Locks,       \* identities of lock objects, and a bound on them
  NoLock,
  MaxLocks     \* max_locks

ASSUME SessionLocksAssumption ==
  /\ SessionOf \in [ Calls -> Sessions ]
  /\ NoLock \notin Locks
  /\ MaxLocks \in Nat

VARIABLES
  order,    \* _records: the sessions with a record, the oldest first
  lockOf,   \* the lock of a session's record
  aged,     \* sessions whose record is older than ttl_seconds
  locked,   \* locks that are held
  waiters,  \* asyncio.Lock._waiters
  woken,    \* tasks whose future is set
  turn,     \* what each task is doing
  holds,    \* the lock a task waits for or holds
  lost,     \* history: sessions whose record was dropped between a release
            \* and the turn of the woken waiter, until all their tasks are done
  ahead     \* history: the tasks of its session that waited before a task

lockVars == << order, lockOf, aged, locked, waiters, woken, turn, holds, lost, ahead >>

\* The fields hold what they can hold; the table lists every record once.
LocksTypeOK ==
  /\ order \in Seq(Sessions) /\ \A i, j \in DOMAIN order : order[i] = order[j] => i = j
  /\ { order[i] : i \in DOMAIN order } = { s \in Sessions : lockOf[s] # NoLock }
  /\ lockOf \in [ Sessions -> Locks \union { NoLock } ]
  /\ aged \subseteq Sessions
  /\ locked \subseteq Locks
  /\ waiters \in [ Locks -> Seq(Calls) ]
  /\ woken \subseteq Calls
  /\ turn \in [ Calls -> { "idle", "waiting", "running" } ]
  /\ holds \in [ Calls -> Locks \union { NoLock } ]
  /\ lost \subseteq Sessions
  /\ ahead \in [ Calls -> SUBSET Calls ]

-----------------------------------------------------------------------------
(* The table *)

\* What is left of a sequence with the entries at these positions.
Picked(q, positions) ==
  [ n \in 1 .. Cardinality(positions) |->
      q[CHOOSE i \in positions : Cardinality({ j \in positions : j <= i }) = n] ]

IsLocked(s) == lockOf[s] \in locked

\* Bug: expiry does not look at the lock.
Expired_LockedToo == { s \in aged : lockOf[s] # NoLock }

\* Records nobody asked for within ttl_seconds, unless their lock is held.
Expired == { s \in aged : lockOf[s] # NoLock /\ ~ IsLocked(s) }

\* Bug: the loop stops as soon as it has dropped one record.
Evicted_OneOnly(q) == IF Len(q) > MaxLocks /\ ~ IsLocked(q[1]) THEN { q[1] } ELSE {}

\* The oldest records above max_locks, up to the first whose lock is held.
Evicted(q) ==
  { q[i] : i \in { i \in DOMAIN q :
      /\ i <= Len(q) - MaxLocks
      /\ ~ IsLocked(q[i])
      /\ \A j \in 1 .. i - 1 : ~ IsLocked(q[j]) } }

\* _cleanup
Dropped ==
  LET expired == Expired
  IN  expired \union Evicted(Picked(order, { i \in DOMAIN order : order[i] \notin expired }))

InUse == { lockOf[s] : s \in Sessions } \union { holds[c] : c \in Calls }

\* A new asyncio.Lock: an object no record and no task refers to.
NewLock == CHOOSE l \in Locks : l \notin InUse

\* The records left when s is moved to the end.
Kept(dropped, s) ==
  Picked(order, { i \in DOMAIN order : order[i] \notin dropped /\ order[i] # s })

-----------------------------------------------------------------------------
(* Tasks *)

\* Bug: a free lock is taken past the waiters.
TakenAtOnce_Barging(l) == l \notin locked

\* asyncio.Lock.acquire: whether the caller gets the lock without waiting.
TakenAtOnce(l) == l \notin locked /\ waiters[l] = << >>

\* get_lock, and the lock's acquisition up to its first suspension.
GetLock(c) ==
  LET s == SessionOf[c]
      dropped == Dropped
      l == IF lockOf[s] = NoLock \/ s \in dropped THEN NewLock ELSE lockOf[s]
  IN  /\ turn[c] = "idle"
      /\ \E new \in Locks : new \notin InUse
      /\ order' = Append(Kept(dropped, s), s)
      /\ lockOf' = [ x \in Sessions |-> IF x = s THEN l
                                        ELSE IF x \in dropped THEN NoLock
                                        ELSE lockOf[x] ]
      /\ aged' = (aged \ dropped) \ { s }
      /\ holds' = [holds EXCEPT ![c] = l]
      /\ IF TakenAtOnce(l)
         THEN /\ turn' = [turn EXCEPT ![c] = "running"]
              /\ locked' = locked \union { l }
              /\ UNCHANGED waiters
         ELSE /\ turn' = [turn EXCEPT ![c] = "waiting"]
              /\ waiters' = [waiters EXCEPT ![l] = Append(@, c)]
              /\ UNCHANGED locked
      /\ lost' = lost \union { x \in dropped : lockOf[x] \notin locked /\ waiters[lockOf[x]] # << >> }
      /\ ahead' = [ahead EXCEPT ![c] =
                     { d \in Calls : SessionOf[d] = s /\ turn[d] = "waiting" }]
      /\ UNCHANGED woken

\* A waiter whose future is set, the first one, runs again and has the lock.
Resume(c) ==
  /\ turn[c] = "waiting"
  /\ c \in woken
  /\ woken' = woken \ { c }
  /\ waiters' = [waiters EXCEPT ![holds[c]] = Tail(@)]
  /\ locked' = locked \union { holds[c] }
  /\ turn' = [turn EXCEPT ![c] = "running"]
  /\ ahead' = [ d \in Calls |-> ahead[d] \ { c } ]
  /\ UNCHANGED << order, lockOf, aged, holds, lost >>

\* Bug: nobody is woken.
Woken_Nobody(l) == {}

\* asyncio.Lock._wake_up_first
Woken(l) == IF waiters[l] = << >> THEN {} ELSE { waiters[l][1] }

\* The tasks of a session that wait or run.
Busy(s) == { d \in Calls : SessionOf[d] = s /\ turn[d] # "idle" }

\* The turn is over and the lock is released.
Release(c) ==
  LET l == holds[c]
  IN  /\ turn[c] = "running"
      /\ turn' = [turn EXCEPT ![c] = "idle"]
      /\ holds' = [holds EXCEPT ![c] = NoLock]
      /\ locked' = locked \ { l }
      /\ woken' = woken \union Woken(l)
      /\ lost' = IF Busy(SessionOf[c]) = { c } THEN lost \ { SessionOf[c] } ELSE lost
      /\ ahead' = [ahead EXCEPT ![c] = {}]
      /\ UNCHANGED << order, lockOf, aged, waiters >>

\* ttl_seconds pass without a call for the session; the table is in the order of
\* the calls, so records expire in that order.
Age(s) ==
  /\ \E i \in DOMAIN order : order[i] = s /\ \A j \in 1 .. i - 1 : order[j] \in aged
  /\ aged' = aged \union { s }
  /\ UNCHANGED << order, lockOf, locked, waiters, woken, turn, holds, lost, ahead >>

-----------------------------------------------------------------------------
(* Specification *)

LocksInit ==
  /\ order = << >>
  /\ lockOf = [ s \in Sessions |-> NoLock ]
  /\ aged = {} /\ locked = {} /\ woken = {} /\ lost = {}
  /\ waiters = [ l \in Locks |-> << >> ]
  /\ turn = [ c \in Calls |-> "idle" ]
  /\ holds = [ c \in Calls |-> NoLock ]
  /\ ahead = [ c \in Calls |-> {} ]

LocksNext == \/ \E c \in Calls : GetLock(c) \/ Resume(c) \/ Release(c)
             \/ \E s \in Sessions : Age(s)

LocksSpec == LocksInit /\ [][LocksNext]_lockVars

\* The loop runs woken tasks, and turns end: their worker thread waits for the
\* database and a language model with timeouts.
LocksFairSpec ==
  LocksSpec /\ \A c \in Calls : WF_lockVars(Resume(c)) /\ WF_lockVars(Release(c))

-----------------------------------------------------------------------------
(* Properties *)

Active(s) == { c \in Calls : SessionOf[c] = s /\ turn[c] = "running" }

\* handle_text_message runs one turn of a session at a time, whatever the
\* table drops, unless it dropped the session's record just between the end of
\* one turn and the start of the next (text_entry_service.py:41-57).
OneTurnAtATime == \A s \in Sessions \ lost : Cardinality(Active(s)) <= 1

\* Turns of a session start in the order of their messages, under the same
\* exception.
TurnsStartInOrder ==
  [][ \A c \in Calls : turn[c] # "running" /\ turn'[c] = "running" =>
        SessionOf[c] \in lost' \/ ahead'[c] = {} ]_lockVars

\* The table outgrows max_locks only behind a record whose turn is running.
TableIsBounded ==
  [][ order' # order /\ Len(order') > MaxLocks + 1 =>
        \E i \in 1 .. Len(order) - MaxLocks : IsLocked(order[i]) ]_lockVars

\* A message that waits for its session's lock is handled.
WaitersRun == \A c \in Calls : turn[c] = "waiting" ~> turn[c] = "running"
=============================================================================
