------------------------- MODULE VoiceGatewayProofs -------------------------
(* First the session locks, which the voice path extends: for any sessions,   *)
(* tasks and bound of the table, two turns of a session never run together    *)
(* unless its record was dropped between the end of one turn and the start of *)
(* the next, turns start in the order of their messages, and the table        *)
(* outgrows its bound only behind a running turn.  The argument: the tasks of *)
(* a session that is not lost all hold or wait for the lock of its record,    *)
(* and a lock has at most one running task, which is why a second one waits.  *)
(* A record is only dropped when its lock is free: then nobody runs, and a    *)
(* task that waits makes the session lost.  The order follows from what the   *)
(* queue of a lock says of those ahead of a waiter, the bound by counting the *)
(* records that a message drops.                                              *)
(*                                                                           *)
(* Then the voice path, for any sockets, sessions, utterances and bounds: its *)
(* sockets use the session locks as SessionLocks says, every field holds what *)
(* it can hold, and the properties of VoiceGateway hold.  The argument looks  *)
(* at a session's object through its table entry, an empty one if there is    *)
(* none: making the object then changes nothing, and the invariant relates    *)
(* what each session shows with what its sockets do.                          *)
EXTENDS VoiceGateway, FiniteSetTheorems, TLAPS

-----------------------------------------------------------------------------
(* The session locks: the inductive invariant *)

Shape ==
  /\ lockOf \in [ Sessions -> Locks \union { NoLock } ]
  /\ locked \subseteq Locks
  /\ waiters \in [ Locks -> Seq(Calls) ]
  /\ woken \subseteq Calls
  /\ turn \in [ Calls -> { "idle", "waiting", "running" } ]
  /\ holds \in [ Calls -> Locks \union { NoLock } ]

\* A task has a lock exactly while it has something to do with it.
Holding == \A c \in Calls : turn[c] # "idle" <=> holds[c] \in Locks

\* A lock has at most one running task, and is locked while it has.
RunnersHold ==
  /\ \A c \in Calls : turn[c] = "running" => holds[c] \in locked
  /\ \A c, d \in Calls :
       turn[c] = "running" /\ turn[d] = "running" /\ holds[c] = holds[d] => c = d

\* A lock belongs to one session.
OneSession ==
  /\ \A c, d \in Calls :
       holds[c] \in Locks /\ holds[c] = holds[d] => SessionOf[c] = SessionOf[d]
  /\ \A s \in Sessions, c \in Calls :
       lockOf[s] \in Locks /\ holds[c] = lockOf[s] => SessionOf[c] = s
  /\ \A s, t \in Sessions : lockOf[s] \in Locks /\ lockOf[s] = lockOf[t] => s = t

\* The tasks of a session that is not lost have the lock of its record.
RecordKept ==
  \A c \in Calls : turn[c] # "idle" /\ SessionOf[c] \notin lost =>
    holds[c] = lockOf[SessionOf[c]]

\* The waiters of a lock are the tasks that wait for it.
WaitersWait ==
  /\ \A c \in Calls : turn[c] = "waiting" =>
       \E i \in DOMAIN waiters[holds[c]] : waiters[holds[c]][i] = c
  /\ \A l \in Locks : \A i \in DOMAIN waiters[l] :
       turn[waiters[l][i]] = "waiting" /\ holds[waiters[l][i]] = l
  /\ \A l \in Locks : \A i, j \in DOMAIN waiters[l] :
       waiters[l][i] = waiters[l][j] => i = j

\* A woken task is the only one of a lock that is free, and its first waiter.
WokenAlone ==
  /\ \A c \in woken : /\ turn[c] = "waiting" /\ holds[c] \notin locked
                      /\ waiters[holds[c]] # << >> /\ waiters[holds[c]][1] = c
  /\ \A c, d \in woken : holds[c] = holds[d] => c = d

LocksInv == /\ Shape /\ Holding /\ RunnersHold /\ OneSession
            /\ RecordKept /\ WaitersWait /\ WokenAlone

-----------------------------------------------------------------------------
(* The steps *)

LEMMA LocksInitInv == LocksInit => LocksInv
BY SessionLocksAssumption
   DEF LocksInit, LocksInv, Shape, Holding, RunnersHold, OneSession, RecordKept,
       WaitersWait, WokenAlone

\* Only records whose lock is free are dropped.
LEMMA DroppedAreFree == \A s \in Dropped : lockOf[s] \notin locked
BY DEF Dropped, Expired, Evicted, IsLocked

\* A lock nobody refers to.
LEMMA NewLockIsNew ==
  ASSUME \E new \in Locks : new \notin InUse
  PROVE  NewLock \in Locks /\ NewLock \notin InUse
BY DEF NewLock

\* A message asks for its session's lock.
LEMMA GetLockInv ==
  ASSUME LocksInv, NEW c \in Calls, GetLock(c)
  PROVE  LocksInv'
<1> DEFINE s == SessionOf[c]
           fresh == lockOf[s] = NoLock \/ s \in Dropped
           l == IF fresh THEN NewLock ELSE lockOf[s]
<1>1. s \in Sessions /\ NoLock \notin Locks
  BY SessionLocksAssumption
<1>2. NewLock \in Locks /\ NewLock \notin InUse
  BY NewLockIsNew DEF GetLock
<1>3. l \in Locks
  BY <1>1, <1>2 DEF LocksInv, Shape
<1>4. lockOf' = [ x \in Sessions |-> IF x = s THEN l ELSE IF x \in Dropped THEN NoLock ELSE lockOf[x] ]
  BY DEF GetLock
<1>5. /\ turn[c] = "idle" /\ holds' = [holds EXCEPT ![c] = l] /\ woken' = woken
      /\ lost' = lost \union { x \in Dropped : lockOf[x] \notin locked /\ waiters[lockOf[x]] # << >> }
  BY DEF GetLock
<1>6. \/ /\ TakenAtOnce(l)
         /\ turn' = [turn EXCEPT ![c] = "running"]
         /\ locked' = locked \union { l }
         /\ waiters' = waiters
      \/ /\ ~ TakenAtOnce(l)
         /\ turn' = [turn EXCEPT ![c] = "waiting"]
         /\ waiters' = [waiters EXCEPT ![l] = Append(@, c)]
         /\ locked' = locked
  BY DEF GetLock
<1> HIDE DEF s, l, fresh
<1> USE DEF LocksInv
<1>7. \A d \in Calls : d # c => turn'[d] = turn[d] /\ holds'[d] = holds[d]
  BY <1>5, <1>6 DEF Shape
<1>8. turn'[c] \in { "running", "waiting" } /\ holds'[c] = l /\ holds[c] \notin Locks
  BY <1>5, <1>6 DEF Shape, Holding
<1>9. lockOf'[s] = l /\ s = SessionOf[c]
  BY <1>1, <1>4 DEF s
<1>10. \A d \in Calls : holds[d] = l => SessionOf[d] = s
  <2>1. CASE fresh
    BY <2>1, <1>2, <1>3 DEF l, InUse
  <2>2. CASE ~ fresh
    BY <2>2, <1>1, <1>3 DEF l, OneSession
  <2> QED BY <2>1, <2>2
<1>11. \A t \in Sessions : t # s /\ lockOf[t] \in Locks => lockOf[t] # l
  <2>1. CASE fresh
    BY <2>1, <1>2, <1>3 DEF l, InUse
  <2>2. CASE ~ fresh
    BY <2>2, <1>1, <1>3 DEF l, OneSession
  <2> QED BY <2>1, <2>2
<1>20. Shape'
  <2>1. lockOf' \in [ Sessions -> Locks \union { NoLock } ]
    BY <1>3, <1>4 DEF Shape
  <2>2. waiters' \in [ Locks -> Seq(Calls) ]
    <3>1. CASE waiters' = waiters
      BY <3>1 DEF Shape
    <3>2. CASE waiters' = [waiters EXCEPT ![l] = Append(@, c)]
      <4>1. Append(waiters[l], c) \in Seq(Calls)
        BY <1>3 DEF Shape
      <4> QED BY <3>2, <4>1, <1>3 DEF Shape
    <3> QED BY <3>1, <3>2, <1>6
  <2> QED BY <1>3, <1>5, <1>6, <2>1, <2>2 DEF Shape
<1>21. Holding'
  BY <1>3, <1>7, <1>8 DEF Holding, Shape
<1>22. RunnersHold'
  <2>1. CASE TakenAtOnce(l)
    BY <2>1, <1>3, <1>5, <1>6, <1>7, <1>8 DEF RunnersHold, TakenAtOnce
  <2>2. CASE ~ TakenAtOnce(l)
    BY <2>2, <1>5, <1>6, <1>7, <1>8 DEF RunnersHold, Shape
  <2> QED BY <2>1, <2>2
<1>23. OneSession'
  <2>1. \A d \in Calls : holds'[d] = l => SessionOf[d] = s
    BY <1>7, <1>9, <1>10
  <2>2. \A d \in Calls : d # c => holds'[d] = holds[d]
    BY <1>7
  <2>3. \A t \in Sessions : t # s /\ lockOf'[t] \in Locks => lockOf'[t] = lockOf[t] /\ lockOf'[t] # l
    BY <1>1, <1>4, <1>11
  <2>4. \A d, e \in Calls : holds'[d] \in Locks /\ holds'[d] = holds'[e] => SessionOf[d] = SessionOf[e]
    BY <2>1, <2>2, <1>8 DEF OneSession
  <2>5. \A t \in Sessions, d \in Calls : lockOf'[t] \in Locks /\ holds'[d] = lockOf'[t] => SessionOf[d] = t
    BY <2>1, <2>2, <2>3, <1>8, <1>9 DEF OneSession
  <2>6. \A t, u \in Sessions : lockOf'[t] \in Locks /\ lockOf'[t] = lockOf'[u] => t = u
    BY <2>3, <1>9 DEF OneSession
  <2> QED BY <2>4, <2>5, <2>6 DEF OneSession
<1>24. RecordKept'
  <2> SUFFICES ASSUME NEW d \in Calls, turn'[d] # "idle", SessionOf[d] \notin lost'
               PROVE  holds'[d] = lockOf'[SessionOf[d]]
    BY DEF RecordKept
  <2>1. CASE d = c
    BY <2>1, <1>8, <1>9
  <2>2. CASE d # c
    <3> DEFINE t == SessionOf[d]
    <3>1. turn[d] # "idle" /\ holds'[d] = holds[d] /\ holds[d] = lockOf[t] /\ holds[d] \in Locks /\ t \in Sessions
      BY <2>2, <1>5, <1>7, SessionLocksAssumption DEF RecordKept, Holding
    <3>2. t \notin Dropped
      <4> SUFFICES ASSUME t \in Dropped PROVE FALSE
        OBVIOUS
      <4>1. lockOf[t] \notin locked
        BY DroppedAreFree
      <4>2. turn[d] = "waiting"
        BY <3>1, <4>1 DEF RunnersHold, Shape
      <4>3. waiters[lockOf[t]] # << >>
        BY <3>1, <4>2 DEF WaitersWait
      <4> QED BY <1>5, <4>1, <4>3
    <3>3. lockOf'[t] = lockOf[t]
      BY <1>1, <1>4, <3>1, <3>2 DEF l, fresh
    <3> QED BY <3>1, <3>3
  <2> QED BY <2>1, <2>2
<1>25. WaitersWait'
  <2>1. CASE TakenAtOnce(l)
    <3>1. waiters' = waiters /\ turn'[c] = "running" /\ turn[c] = "idle"
      BY <2>1, <1>5, <1>6 DEF Shape
    <3>2. \A d \in Calls : turn'[d] = "waiting" => d # c /\ turn[d] = "waiting" /\ holds'[d] = holds[d]
      BY <3>1, <1>7
    <3>3. ASSUME NEW k \in Locks, NEW i \in DOMAIN waiters[k]
          PROVE  turn'[waiters[k][i]] = "waiting" /\ holds'[waiters[k][i]] = k
      <4>1. waiters[k] \in Seq(Calls)
        BY DEF Shape
      <4>2. waiters[k][i] \in Calls /\ turn[waiters[k][i]] = "waiting" /\ holds[waiters[k][i]] = k
        BY <4>1 DEF WaitersWait
      <4> QED BY <4>2, <3>1, <1>7
    <3> QED BY <3>1, <3>2, <3>3 DEF WaitersWait
  <2>2. CASE ~ TakenAtOnce(l)
    <3>1. waiters' = [waiters EXCEPT ![l] = Append(@, c)] /\ turn'[c] = "waiting"
      BY <2>2, <1>6 DEF Shape
    <3>2. waiters[l] \in Seq(Calls)
      BY <1>3 DEF Shape
    <3>3. \A k \in Locks : k # l => waiters'[k] = waiters[k]
      BY <3>1 DEF Shape
    <3>4. /\ DOMAIN waiters'[l] = 1 .. Len(waiters[l]) + 1
          /\ \A i \in 1 .. Len(waiters[l]) : waiters'[l][i] = waiters[l][i]
          /\ waiters'[l][Len(waiters[l]) + 1] = c
      BY <3>1, <3>2, <1>3 DEF Shape
    <3>5. ASSUME NEW d \in Calls, turn'[d] = "waiting"
          PROVE  \E i \in DOMAIN waiters'[holds'[d]] : waiters'[holds'[d]][i] = d
      <4>1. CASE d = c
        BY <4>1, <3>2, <3>4, <1>8
      <4>2. CASE d # c
        <5>1. turn[d] = "waiting" /\ holds'[d] = holds[d] /\ holds[d] \in Locks
          BY <4>2, <3>5, <1>7 DEF Holding
        <5>2. PICK i \in DOMAIN waiters[holds[d]] : waiters[holds[d]][i] = d
          BY <5>1 DEF WaitersWait
        <5> QED BY <5>1, <5>2, <3>2, <3>3, <3>4
      <4> QED BY <4>1, <4>2
    <3>6. ASSUME NEW k \in Locks, NEW i \in DOMAIN waiters'[k]
          PROVE  turn'[waiters'[k][i]] = "waiting" /\ holds'[waiters'[k][i]] = k
      <4>1. CASE k = l /\ i = Len(waiters[l]) + 1
        BY <4>1, <3>1, <3>4, <1>8
      <4>2. CASE ~ (k = l /\ i = Len(waiters[l]) + 1)
        <5>1. i \in DOMAIN waiters[k] /\ waiters'[k][i] = waiters[k][i] /\ waiters[k] \in Seq(Calls)
          <6>1. CASE k = l
            <7>1. i \in 1 .. Len(waiters[l])
              BY <4>2, <3>2, <3>4, <6>1
            <7> QED
              BY <3>2, <3>4, <6>1, <7>1
          <6>2. CASE k # l
            BY <3>3, <6>2 DEF Shape
          <6> QED
            BY <6>1, <6>2
        <5>2. waiters[k][i] \in Calls /\ turn[waiters[k][i]] = "waiting" /\ holds[waiters[k][i]] = k
          BY <5>1 DEF WaitersWait
        <5> QED BY <5>1, <5>2, <1>5, <1>7
      <4> QED BY <4>1, <4>2
    <3>7. ASSUME NEW k \in Locks, NEW i \in DOMAIN waiters'[k], NEW j \in DOMAIN waiters'[k],
                 waiters'[k][i] = waiters'[k][j]
          PROVE  i = j
      <4>1. CASE k # l
        BY <4>1, <3>3, <3>7 DEF WaitersWait
      <4>2. CASE k = l
        <5>1. \A h \in DOMAIN waiters[l] : waiters[l][h] # c
          BY <1>3, <1>5 DEF WaitersWait
        <5>2. DOMAIN waiters[l] = 1 .. Len(waiters[l]) /\ Len(waiters[l]) \in Nat
          BY <3>2
        <5> QED BY <4>2, <3>4, <3>7, <5>1, <5>2, <1>3 DEF WaitersWait
      <4> QED BY <4>1, <4>2
    <3> QED BY <3>5, <3>6, <3>7 DEF WaitersWait
  <2> QED BY <2>1, <2>2
<1>26. WokenAlone'
  <2>1. \A d \in woken : d \in Calls /\ d # c /\ turn'[d] = "waiting" /\ holds'[d] = holds[d]
    BY <1>5, <1>7 DEF WokenAlone, Shape
  <2>2. ASSUME TakenAtOnce(l), NEW d \in woken PROVE holds[d] # l
    BY <2>1, <2>2, <1>7 DEF TakenAtOnce, WaitersWait
  <2>3. \A d \in woken : holds[d] \in Locks /\ waiters'[holds[d]] # << >> /\ waiters'[holds[d]][1] = d
    <3> SUFFICES ASSUME NEW d \in woken
                 PROVE  holds[d] \in Locks /\ waiters'[holds[d]] # << >> /\ waiters'[holds[d]][1] = d
      OBVIOUS
    <3>1. holds[d] \in Locks /\ waiters[holds[d]] # << >> /\ waiters[holds[d]][1] = d
          /\ waiters[holds[d]] \in Seq(Calls)
      BY <2>1 DEF WokenAlone, Holding, Shape
    <3>2. CASE waiters'[holds[d]] = waiters[holds[d]]
      BY <3>1, <3>2
    <3>3. CASE waiters'[holds[d]] = Append(waiters[holds[d]], c)
      BY <3>1, <3>3
    <3> QED BY <3>1, <3>2, <3>3, <1>3, <1>6 DEF Shape
  <2> QED BY <2>1, <2>2, <2>3, <1>5, <1>6 DEF WokenAlone
<1> QED BY <1>20, <1>21, <1>22, <1>23, <1>24, <1>25, <1>26

\* A woken waiter takes its lock.
LEMMA ResumeInv ==
  ASSUME LocksInv, NEW c \in Calls, Resume(c)
  PROVE  LocksInv'
<1> DEFINE l == holds[c]
<1> USE DEF LocksInv
<1>1. /\ turn[c] = "waiting" /\ c \in woken /\ woken' = woken \ { c }
      /\ locked' = locked \union { l }
      /\ turn' = [turn EXCEPT ![c] = "running"]
      /\ UNCHANGED << lockOf, holds, lost >>
  BY DEF Resume
<1>2. waiters' = [waiters EXCEPT ![l] = Tail(@)]
  BY DEF Resume
<1>3. l \in Locks /\ l \notin locked
  BY <1>1 DEF Holding, WokenAlone
<1>4. turn'[c] = "running" /\ \A d \in Calls : d # c => turn'[d] = turn[d]
  BY <1>1 DEF Shape
<1>5. Shape' /\ WaitersWait'
  <2> DEFINE q == waiters[l]
  <2>1. q \in Seq(Calls) /\ q # << >> /\ q[1] = c
    BY <1>1, <1>3 DEF Shape, WokenAlone
  <2>2. /\ waiters'[l] = Tail(q) /\ Tail(q) \in Seq(Calls)
        /\ DOMAIN Tail(q) = 1 .. Len(q) - 1 /\ DOMAIN q = 1 .. Len(q)
        /\ \A i \in 1 .. Len(q) - 1 : Tail(q)[i] = q[i + 1]
    BY <1>2, <1>3, <2>1 DEF Shape
  <2>3. \A k \in Locks : k # l => waiters'[k] = waiters[k]
    BY <1>2 DEF Shape
  <2>4. Shape'
    BY <1>1, <1>2, <1>3, <2>2 DEF Shape
  <2>5. ASSUME NEW d \in Calls, turn'[d] = "waiting"
        PROVE  \E i \in DOMAIN waiters'[holds'[d]] : waiters'[holds'[d]][i] = d
    <3>1. d # c /\ turn[d] = "waiting" /\ holds'[d] = holds[d] /\ holds[d] \in Locks
      BY <2>5, <1>1, <1>4 DEF Holding
    <3>2. PICK i \in DOMAIN waiters[holds[d]] : waiters[holds[d]][i] = d
      BY <3>1 DEF WaitersWait
    <3>3. CASE holds[d] # l
      BY <3>1, <3>2, <3>3, <2>3
    <3>4. CASE holds[d] = l
      <4>1. i \in 1 .. Len(q) /\ i # 1 /\ Len(q) \in Nat
        BY <3>1, <3>2, <3>4, <2>1, <2>2
      <4>2. i - 1 \in 1 .. Len(q) - 1 /\ (i - 1) + 1 = i
        BY <4>1
      <4>3. Tail(q)[i - 1] = d
        BY <4>2, <2>2, <3>2, <3>4
      <4> QED BY <4>2, <4>3, <2>2, <3>1, <3>4
    <3> QED BY <3>3, <3>4
  <2>6. ASSUME NEW k \in Locks, NEW i \in DOMAIN waiters'[k]
        PROVE  turn'[waiters'[k][i]] = "waiting" /\ holds'[waiters'[k][i]] = k
    <3>1. CASE k # l
      <4>1. waiters[k][i] \in Calls /\ turn[waiters[k][i]] = "waiting" /\ holds[waiters[k][i]] = k
        BY <3>1, <2>3, <2>6 DEF Shape, WaitersWait
      <4> QED BY <4>1, <3>1, <2>3, <1>1, <1>4
    <3>2. CASE k = l
      <4>1. i \in 1 .. Len(q) - 1 /\ i + 1 \in 1 .. Len(q) /\ i + 1 # 1 /\ 1 \in 1 .. Len(q)
        BY <3>2, <2>1, <2>2, <2>6
      <4>2. /\ q[i + 1] \in Calls /\ q[i + 1] # c
            /\ turn[q[i + 1]] = "waiting" /\ holds[q[i + 1]] = l
        BY <4>1, <2>1, <2>2, <1>3 DEF WaitersWait
      <4> QED BY <4>1, <4>2, <3>2, <2>2, <1>1, <1>4
    <3> QED BY <3>1, <3>2
  <2>7. ASSUME NEW k \in Locks, NEW i \in DOMAIN waiters'[k], NEW j \in DOMAIN waiters'[k],
               waiters'[k][i] = waiters'[k][j]
        PROVE  i = j
    <3>1. CASE k # l
      BY <3>1, <2>3, <2>7 DEF WaitersWait
    <3>2. CASE k = l
      <4>1. i \in 1 .. Len(q) - 1 /\ i + 1 \in 1 .. Len(q) /\ j \in 1 .. Len(q) - 1 /\ j + 1 \in 1 .. Len(q)
        BY <3>2, <2>1, <2>2, <2>7
      <4>2. q[i + 1] = q[j + 1]
        BY <4>1, <3>2, <2>2, <2>7
      <4>3. i + 1 = j + 1
        BY <4>1, <4>2, <2>2, <1>3 DEF WaitersWait
      <4> QED BY <4>1, <4>3
    <3> QED BY <3>1, <3>2
  <2> QED BY <2>4, <2>5, <2>6, <2>7 DEF WaitersWait
<1>6. Holding' /\ OneSession' /\ RecordKept'
  BY <1>1, <1>4 DEF Holding, OneSession, RecordKept
<1>7. RunnersHold'
  BY <1>1, <1>3, <1>4 DEF RunnersHold, Shape
<1>8. WokenAlone'
  <2>1. \A d \in woken : d # c => d \in Calls /\ holds[d] # l /\ holds[d] \in Locks
    BY <1>1, <1>3 DEF WokenAlone, Shape, Holding
  <2>2. \A d \in woken : d # c => waiters'[holds[d]] = waiters[holds[d]]
    BY <2>1, <1>2 DEF Shape
  <2> QED BY <2>1, <2>2, <1>1, <1>4 DEF WokenAlone
<1> QED BY <1>5, <1>6, <1>7, <1>8

\* A turn ends and the first waiter is woken.
LEMMA ReleaseInv ==
  ASSUME LocksInv, NEW c \in Calls, Release(c)
  PROVE  LocksInv'
<1> DEFINE l == holds[c]
<1> USE DEF LocksInv
<1>1. /\ turn[c] = "running" /\ turn' = [turn EXCEPT ![c] = "idle"]
      /\ holds' = [holds EXCEPT ![c] = NoLock] /\ locked' = locked \ { l }
      /\ woken' = woken \union Woken(l)
      /\ UNCHANGED << lockOf, waiters >>
      /\ lost' = IF Busy(SessionOf[c]) = { c } THEN lost \ { SessionOf[c] } ELSE lost
  BY DEF Release
<1>2. l \in Locks /\ l \in locked /\ NoLock \notin Locks
  BY <1>1, SessionLocksAssumption DEF Holding, RunnersHold
<1>3. turn'[c] = "idle" /\ holds'[c] = NoLock
      /\ \A d \in Calls : d # c => turn'[d] = turn[d] /\ holds'[d] = holds[d]
  BY <1>1 DEF Shape
<1>4. \A d \in Woken(l) : d \in Calls /\ d # c /\ turn[d] = "waiting" /\ holds[d] = l
  <2>1. CASE waiters[l] = << >>
    BY <2>1 DEF Woken
  <2>2. CASE waiters[l] # << >>
    <3>1. waiters[l] \in Seq(Calls) /\ 1 \in DOMAIN waiters[l]
      BY <2>2, <1>2 DEF Shape
    <3> QED BY <2>2, <3>1, <1>1, <1>2 DEF Woken, WaitersWait
  <2> QED BY <2>1, <2>2
<1>5. /\ \A d, e \in Woken(l) : d = e
      /\ \A d \in Woken(l) : waiters[l] # << >> /\ waiters[l][1] = d
  BY DEF Woken
<1>6. Shape'
  BY <1>1, <1>4 DEF Shape
<1>7. Holding' /\ OneSession'
  BY <1>1, <1>2, <1>3 DEF Holding, OneSession, Shape
<1>11. RecordKept'
  <2>1. ASSUME NEW d \in Calls, turn'[d] # "idle", SessionOf[d] \notin lost'
        PROVE  SessionOf[d] \notin lost
    <3>1. d # c /\ turn[d] # "idle"
      BY <2>1, <1>3
    <3>2. CASE SessionOf[d] = SessionOf[c]
      <4>1. d \in Busy(SessionOf[c]) /\ d \notin { c }
        BY <3>1, <3>2 DEF Busy
      <4> QED BY <4>1, <2>1, <1>1
    <3>3. CASE SessionOf[d] # SessionOf[c]
      BY <3>3, <2>1, <1>1
    <3> QED BY <3>2, <3>3
  <2> QED BY <2>1, <1>1, <1>3 DEF RecordKept, Shape
<1>8. RunnersHold'
  BY <1>1, <1>3 DEF RunnersHold, Shape
<1>9. WaitersWait'
  <2>1. \A k \in Locks : \A i \in DOMAIN waiters[k] : waiters[k][i] \in Calls /\ waiters[k][i] # c
    BY <1>1 DEF WaitersWait, Shape
  <2> QED BY <2>1, <1>1, <1>3 DEF WaitersWait
<1>10. WokenAlone'
  <2>1. \A d \in woken : d \in Calls /\ d # c /\ holds[d] # l
    BY <1>1, <1>2 DEF WokenAlone, Shape
  <2> QED BY <2>1, <1>1, <1>3, <1>4, <1>5 DEF WokenAlone
<1> QED BY <1>6, <1>7, <1>8, <1>9, <1>10, <1>11

-----------------------------------------------------------------------------
(* The theorems *)

\* Every lock has one session and one running task, every waiter its record's
\* lock.
THEOREM LocksInvariant == LocksSpec => []LocksInv
<1>1. LocksInv /\ [LocksNext]_lockVars => LocksInv'
  <2> SUFFICES ASSUME LocksInv, [LocksNext]_lockVars PROVE LocksInv'
    OBVIOUS
  <2>1. ASSUME NEW s \in Sessions, Age(s) PROVE LocksInv'
    BY <2>1 DEF Age, LocksInv, Shape, Holding, RunnersHold, OneSession, RecordKept,
                WaitersWait, WokenAlone
  <2>2. CASE UNCHANGED lockVars
    BY <2>2 DEF lockVars, LocksInv, Shape, Holding, RunnersHold, OneSession,
                RecordKept, WaitersWait, WokenAlone
  <2> QED BY <2>1, <2>2, GetLockInv, ResumeInv, ReleaseInv DEF LocksNext
<1> QED BY <1>1, LocksInitInv, PTL DEF LocksSpec

\* Turns of one session exclude each other, whatever the table drops, unless
\* it drops the session's record between a turn and the next.
THEOREM TurnsExcludeEachOther == LocksSpec => []OneTurnAtATime
<1>1. LocksInv => OneTurnAtATime
  <2> SUFFICES ASSUME LocksInv, NEW s \in Sessions \ lost
               PROVE  Cardinality(Active(s)) <= 1
    BY DEF OneTurnAtATime
  <2>1. \A c, d \in Active(s) : c = d
    BY DEF Active, LocksInv, RecordKept, RunnersHold
  <2>2. CASE Active(s) = {}
    BY <2>2, FS_EmptySet
  <2>3. CASE Active(s) # {}
    <3>1. PICK c \in Active(s) : TRUE
      BY <2>3
    <3>2. Active(s) = { c }
      BY <2>1, <3>1
    <3> QED BY <3>2, FS_Singleton
  <2> QED BY <2>2, <2>3
<1> QED BY <1>1, LocksInvariant, PTL

-----------------------------------------------------------------------------
(* The order of the turns                                                    *)
(*                                                                           *)
(* The tasks that came before a waiting task of a session that is not lost   *)
(* are in front of it in the queue of the same lock, and the task that is    *)
(* woken is the first of the queue.                                          *)

InFront(q, i) == { q[j] : j \in 1 .. i - 1 }

Queued ==
  /\ ahead \in [ Calls -> SUBSET Calls ]
  /\ \A c \in Calls : turn[c] = "waiting" /\ SessionOf[c] \notin lost =>
       \A i \in DOMAIN waiters[holds[c]] :
         waiters[holds[c]][i] = c => ahead[c] \subseteq InFront(waiters[holds[c]], i)

\* The tasks of its session that wait when a message asks for the lock wait for
\* that very lock, or the session is lost.
LEMMA SameLock ==
  ASSUME LocksInv, NEW c \in Calls, GetLock(c), SessionOf[c] \notin lost',
         NEW d \in Calls, SessionOf[d] = SessionOf[c], turn[d] = "waiting"
  PROVE  holds[d] = holds'[c] /\ holds[d] \in Locks
<1> DEFINE s == SessionOf[c]
<1>1. holds[d] = lockOf[s] /\ holds[d] \in Locks
  BY DEF GetLock, LocksInv, RecordKept, Holding
<1>2. s \notin Dropped
  <2>1. waiters[lockOf[s]] # << >>
    BY <1>1 DEF LocksInv, WaitersWait
  <2>2. s \in Dropped => s \in lost'
    BY <2>1, DroppedAreFree DEF GetLock
  <2> QED BY <2>2
<1>3. holds'[c] = lockOf[s]
  BY <1>1, <1>2, SessionLocksAssumption DEF GetLock, LocksInv, Shape
<1> QED BY <1>1, <1>3

LEMMA GetLockQueued ==
  ASSUME LocksInv, Queued, NEW c \in Calls, GetLock(c)
  PROVE  Queued'
<1> DEFINE l == holds'[c]
<1>1. ahead' = [ahead EXCEPT ![c] = { d \in Calls : SessionOf[d] = SessionOf[c] /\ turn[d] = "waiting" }]
      /\ turn[c] = "idle" /\ lost \subseteq lost'
  BY DEF GetLock
<1>2. ahead' \in [ Calls -> SUBSET Calls ]
  BY <1>1 DEF Queued
<1>3. LocksInv'
  BY GetLockInv
<1>4. \A d \in Calls : d # c => turn'[d] = turn[d] /\ holds'[d] = holds[d]
  BY DEF GetLock, LocksInv, Shape
<1>5. \/ waiters' = waiters /\ turn'[c] = "running"
      \/ /\ waiters' = [waiters EXCEPT ![l] = Append(@, c)] /\ l \in Locks
  <2>1. l \in Locks \/ turn'[c] = "running"
    <3>1. turn'[c] \in { "idle", "waiting", "running" } /\ turn'[c] # "idle"
      BY <1>3 DEF GetLock, LocksInv, Shape
    <3> QED BY <1>3, <3>1 DEF LocksInv, Holding
  <2> QED BY <2>1, SessionLocksAssumption DEF GetLock, LocksInv, Shape
<1> HIDE DEF l
<1>6. ASSUME NEW d \in Calls, turn'[d] = "waiting", SessionOf[d] \notin lost',
             NEW i \in DOMAIN waiters'[holds'[d]], waiters'[holds'[d]][i] = d
      PROVE  ahead'[d] \subseteq InFront(waiters'[holds'[d]], i)
  <2>1. holds'[d] \in Locks
    BY <1>3, <1>6 DEF LocksInv, Holding
  <2>2. CASE d = c
    <3>1. waiters' = [waiters EXCEPT ![l] = Append(@, c)] /\ l \in Locks /\ holds'[d] = l
      BY <1>5, <1>6, <2>2 DEF l
    <3>2. /\ waiters[l] \in Seq(Calls) /\ waiters'[l] = Append(waiters[l], c)
          /\ \A j \in 1 .. Len(waiters[l]) : waiters'[l][j] = waiters[l][j]
      BY <3>1 DEF LocksInv, Shape
    <3>3. \A j \in DOMAIN waiters[l] : waiters[l][j] # c
      BY <1>1, <3>1 DEF LocksInv, WaitersWait
    <3>4. i = Len(waiters[l]) + 1
      BY <1>6, <2>2, <3>1, <3>2, <3>3
    <3> SUFFICES ASSUME NEW e \in ahead'[d]
                 PROVE  \E j \in 1 .. i - 1 : waiters'[l][j] = e
      BY <3>1 DEF InFront
    <3>5. e \in Calls /\ SessionOf[e] = SessionOf[c] /\ turn[e] = "waiting"
      BY <1>1, <2>2 DEF Queued
    <3>6. holds[e] = l
      BY <1>6, <2>2, <3>5, SameLock DEF l
    <3>7. PICK j \in DOMAIN waiters[l] : waiters[l][j] = e
      BY <3>5, <3>6 DEF LocksInv, WaitersWait
    <3> QED BY <3>2, <3>4, <3>7
  <2>3. CASE d # c
    <3> DEFINE k == holds[d]
    <3>1. turn[d] = "waiting" /\ SessionOf[d] \notin lost /\ holds'[d] = k /\ k \in Locks
          /\ ahead'[d] = ahead[d]
      BY <1>1, <1>4, <1>6, <2>1, <2>3 DEF Queued
    <3>2. /\ waiters[k] \in Seq(Calls)
          /\ waiters'[k] = waiters[k] \/ waiters'[k] = Append(waiters[k], c)
      BY <1>5, <3>1 DEF LocksInv, Shape
    <3> HIDE DEF k
    <3>3. i \in DOMAIN waiters[k] /\ \A j \in 1 .. i : waiters'[k][j] = waiters[k][j]
      BY <1>6, <2>3, <3>1, <3>2
    <3>4. ahead[d] \subseteq InFront(waiters[k], i)
      <4>1. i \in 1 .. i
        BY <3>2, <3>3
      <4>2. waiters[k][i] = d
        BY <1>6, <3>1, <3>3, <4>1
      <4> QED BY <3>1, <3>3, <4>2 DEF Queued, k
    <3>5. DOMAIN waiters[k] = 1 .. Len(waiters[k]) /\ Len(waiters[k]) \in Nat
      BY <3>2
    <3>6. \A j \in 1 .. i - 1 : waiters'[k][j] = waiters[k][j]
      BY <3>3, <3>5
    <3> QED BY <3>1, <3>4, <3>6 DEF InFront
  <2> QED BY <2>2, <2>3
<1> QED BY <1>2, <1>6 DEF Queued

LEMMA ResumeQueued ==
  ASSUME LocksInv, Queued, NEW c \in Calls, Resume(c)
  PROVE  Queued'
<1> DEFINE l == holds[c]
<1>1. /\ turn[c] = "waiting" /\ turn' = [turn EXCEPT ![c] = "running"]
      /\ waiters' = [waiters EXCEPT ![l] = Tail(@)]
      /\ ahead' = [ d \in Calls |-> ahead[d] \ { c } ]
      /\ UNCHANGED << holds, lost >>
  BY DEF Resume
<1>2. l \in Locks /\ waiters[l] \in Seq(Calls) /\ waiters[l] # << >> /\ waiters[l][1] = c
  BY <1>1 DEF Resume, LocksInv, Holding, WokenAlone, Shape
<1>3. ahead' \in [ Calls -> SUBSET Calls ]
  BY <1>1 DEF Queued
<1>4. ASSUME NEW d \in Calls, turn'[d] = "waiting", SessionOf[d] \notin lost,
             NEW i \in DOMAIN waiters'[holds[d]], waiters'[holds[d]][i] = d
      PROVE  ahead'[d] \subseteq InFront(waiters'[holds[d]], i)
  <2>1. d # c /\ turn[d] = "waiting" /\ holds[d] \in Locks /\ ahead'[d] = ahead[d] \ { c }
    BY <1>1, <1>4 DEF LocksInv, Shape, Holding
  <2>2. CASE holds[d] # l
    <3>1. waiters'[holds[d]] = waiters[holds[d]]
      BY <1>1, <2>1, <2>2 DEF LocksInv, Shape
    <3>2. ahead[d] \subseteq InFront(waiters[holds[d]], i)
      BY <1>4, <2>1, <3>1 DEF Queued
    <3> QED BY <2>1, <3>1, <3>2, <1>1 DEF InFront
  <2>3. CASE holds[d] = l
    <3> DEFINE q == waiters[l]
    <3>1. waiters'[l] = Tail(q)
      BY <1>1, <1>2 DEF LocksInv, Shape
    <3>2. /\ q \in Seq(Calls) /\ q # << >> /\ q[1] = c
      BY <1>2
    <3> HIDE DEF q
    <3>3. /\ DOMAIN Tail(q) = 1 .. Len(q) - 1 /\ DOMAIN q = 1 .. Len(q) /\ Len(q) \in Nat \ { 0 }
          /\ \A j \in 1 .. Len(q) - 1 : Tail(q)[j] = q[j + 1]
      BY <3>2
    <3>4. i \in 1 .. Len(q) - 1 /\ i + 1 \in DOMAIN q /\ q[i + 1] = d
      BY <1>4, <2>3, <3>1, <3>3
    <3>5. ahead[d] \subseteq InFront(q, i + 1)
      BY <1>4, <2>1, <2>3, <3>4 DEF Queued, q
    <3> SUFFICES ASSUME NEW e \in ahead'[d]
                 PROVE  \E j \in 1 .. i - 1 : waiters'[l][j] = e
      BY <1>1, <2>3 DEF InFront
    <3>6. e # c /\ e \in ahead[d]
      BY <2>1
    <3>7. PICK j \in 1 .. (i + 1) - 1 : q[j] = e
      BY <3>5, <3>6 DEF InFront, q
    <3>8. j # 1 /\ j - 1 \in 1 .. i - 1 /\ j - 1 \in 1 .. Len(q) - 1 /\ (j - 1) + 1 = j
      BY <3>2, <3>3, <3>4, <3>6, <3>7
    <3>9. Tail(q)[j - 1] = e
      BY <3>3, <3>7, <3>8
    <3> QED BY <3>1, <3>8, <3>9
  <2> QED BY <2>2, <2>3
<1> QED BY <1>1, <1>3, <1>4 DEF Queued

LEMMA ReleaseQueued ==
  ASSUME LocksInv, Queued, NEW c \in Calls, Release(c)
  PROVE  Queued'
<1>1. /\ turn[c] = "running" /\ turn' = [turn EXCEPT ![c] = "idle"]
      /\ holds' = [holds EXCEPT ![c] = NoLock] /\ waiters' = waiters
      /\ ahead' = [ahead EXCEPT ![c] = {}]
      /\ lost' = IF Busy(SessionOf[c]) = { c } THEN lost \ { SessionOf[c] } ELSE lost
  BY DEF Release
<1>2. ASSUME NEW d \in Calls, turn'[d] = "waiting", SessionOf[d] \notin lost'
      PROVE  d # c /\ turn[d] = "waiting" /\ SessionOf[d] \notin lost /\ holds'[d] = holds[d]
             /\ ahead'[d] = ahead[d]
  <2>1. d # c /\ turn[d] = "waiting" /\ holds'[d] = holds[d] /\ ahead'[d] = ahead[d]
    BY <1>1, <1>2 DEF LocksInv, Shape, Queued
  <2>2. SessionOf[d] = SessionOf[c] => d \in Busy(SessionOf[c])
    BY <2>1 DEF Busy
  <2> QED BY <1>1, <1>2, <2>1, <2>2
<1> QED BY <1>1, <1>2 DEF Queued, InFront

\* Who came before a waiting task is in front of it.
LEMMA QueuesOrdered == LocksSpec => []Queued
<1>1. LocksInit => Queued
  BY DEF LocksInit, Queued
<1>2. LocksInv /\ Queued /\ [LocksNext]_lockVars => Queued'
  <2> SUFFICES ASSUME LocksInv, Queued, [LocksNext]_lockVars PROVE Queued'
    OBVIOUS
  <2>1. ASSUME NEW s \in Sessions, Age(s) PROVE Queued'
    BY <2>1 DEF Age, Queued, InFront
  <2>2. CASE UNCHANGED lockVars
    BY <2>2 DEF lockVars, Queued, InFront
  <2> QED BY <2>1, <2>2, GetLockQueued, ResumeQueued, ReleaseQueued DEF LocksNext
<1> QED BY <1>1, <1>2, LocksInvariant, PTL DEF LocksSpec

\* The turns of a session start in the order its messages asked for the lock,
\* however many tasks and records there are, unless its record was dropped
\* between two turns.
THEOREM TurnsKeepTheirOrder == LocksSpec => TurnsStartInOrder
<1> DEFINE Starts == \A c \in Calls : turn[c] # "running" /\ turn'[c] = "running" =>
                       SessionOf[c] \in lost' \/ ahead'[c] = {}
<1>3. LocksInv /\ Queued /\ [LocksNext]_lockVars => [Starts]_lockVars
  <2> SUFFICES ASSUME LocksInv, Queued, LocksNext,
                      NEW c \in Calls, turn[c] # "running", turn'[c] = "running",
                      SessionOf[c] \notin lost'
               PROVE  ahead'[c] = {}
    OBVIOUS
  <2>1. ASSUME NEW d \in Calls, GetLock(d) PROVE ahead'[c] = {}
    <3>1. d = c
      BY <2>1 DEF GetLock, LocksInv, Shape
    <3>2. TakenAtOnce(holds'[c])
      BY <2>1, <3>1 DEF GetLock, LocksInv, Shape
    <3>3. \A e \in ahead'[c] : e \in Calls /\ SessionOf[e] = SessionOf[c] /\ turn[e] = "waiting"
      BY <2>1, <3>1 DEF GetLock, Queued
    <3>4. \A e \in ahead'[c] : holds[e] = holds'[c] /\ holds[e] \in Locks
      BY <2>1, <3>1, <3>3, SameLock
    <3> QED BY <3>2, <3>3, <3>4 DEF TakenAtOnce, LocksInv, WaitersWait
  <2>2. ASSUME NEW d \in Calls, Resume(d) PROVE ahead'[c] = {}
    <3>1. d = c
      BY <2>2 DEF Resume, LocksInv, Shape
    <3>2. ahead'[c] = ahead[c] \ { c } /\ turn[c] = "waiting" /\ SessionOf[c] \notin lost /\ c \in woken
      BY <2>2, <3>1 DEF Resume
    <3>3. waiters[holds[c]] # << >> /\ waiters[holds[c]][1] = c /\ holds[c] \in Locks
      BY <3>2 DEF LocksInv, WokenAlone, Holding
    <3>4. 1 \in DOMAIN waiters[holds[c]]
      BY <3>3 DEF LocksInv, Shape
    <3>5. ahead[c] \subseteq InFront(waiters[holds[c]], 1)
      BY <3>2, <3>3, <3>4 DEF Queued
    <3> QED BY <3>2, <3>5 DEF InFront
  <2>3. ASSUME NEW d \in Calls, Release(d) PROVE ahead'[c] = {}
    BY <2>3 DEF Release, LocksInv, Shape
  <2>4. ASSUME NEW s \in Sessions, Age(s) PROVE ahead'[c] = {}
    BY <2>4 DEF Age
  <2> QED BY <2>1, <2>2, <2>3, <2>4 DEF LocksNext
<1> HIDE DEF Starts
<1>5. LocksSpec => [][Starts]_lockVars
  BY <1>3, QueuesOrdered, LocksInvariant, PTL DEF LocksSpec
<1> QED BY <1>5 DEF TurnsStartInOrder, Starts

-----------------------------------------------------------------------------
(* The table                                                                 *)
(*                                                                           *)
(* Of the records that have not expired, every one above the bound is         *)
(* dropped unless a locked record comes before it; so at most MaxLocks are    *)
(* kept when none of the oldest records is locked.                            *)

Listed ==
  /\ order \in Seq(Sessions) /\ \A i, j \in DOMAIN order : order[i] = order[j] => i = j
  /\ { order[i] : i \in DOMAIN order } = { s \in Sessions : lockOf[s] # NoLock }

TableOK == Listed /\ aged \subseteq Sessions /\ lost \subseteq Sessions

\* The number of positions up to one of them.
Rank(P, i) == Cardinality({ j \in P : j <= i })

\* The positions are counted from one on, each number for one position.
LEMMA Ranks ==
  ASSUME NEW m \in Nat, NEW P \in SUBSET (1 .. m)
  PROVE  /\ IsFiniteSet(P) /\ Cardinality(P) \in Nat /\ Cardinality(P) <= m
         /\ \A i \in P : Rank(P, i) \in 1 .. Cardinality(P)
         /\ \A i, j \in P : i < j => Rank(P, i) < Rank(P, j)
         /\ \A n \in 1 .. Cardinality(P) : \E i \in P : Rank(P, i) = n
<1>1. IsFiniteSet(1 .. m) /\ Cardinality(1 .. m) = m
  BY FS_Interval
<1>2. IsFiniteSet(P) /\ Cardinality(P) <= m
  BY <1>1, FS_Subset
<1>3. Cardinality(P) \in Nat
  BY <1>2, FS_CardinalityType
<1> DEFINE Up(i) == { j \in P : j <= i }
<1>4. \A i : IsFiniteSet(Up(i)) /\ Cardinality(Up(i)) \in Nat /\ Cardinality(Up(i)) <= Cardinality(P)
  BY <1>2, FS_Subset, FS_CardinalityType
<1>5. \A i \in P : Rank(P, i) \in 1 .. Cardinality(P)
  <2> TAKE i \in P
  <2>1. i \in Up(i)
    OBVIOUS
  <2>2. Cardinality(Up(i)) # 0
    BY <2>1, <1>4, FS_EmptySet
  <2> QED BY <2>2, <1>3, <1>4 DEF Rank
<1>6. \A i, j \in P : i < j => Rank(P, i) < Rank(P, j)
  <2> TAKE i, j \in P
  <2> HAVE i < j
  <2>1. Up(i) \in SUBSET Up(j) /\ j \in Up(j) /\ j \notin Up(i)
    <3>1. \A k \in P : k \in Int
      OBVIOUS
    <3>2. \A k \in P : k <= i => k <= j
      BY <3>1
    <3>3. Up(i) \in SUBSET Up(j)
      BY <3>2
    <3>4. j <= j /\ ~ (j <= i)
      BY <3>1
    <3> QED BY <3>3, <3>4
  <2>2. Cardinality(Up(i)) <= Cardinality(Up(j)) /\ Cardinality(Up(i)) # Cardinality(Up(j))
    <3> HIDE DEF Up
    <3> QED BY <2>1, <1>4, FS_Subset
  <2> QED BY <2>2, <1>4 DEF Rank
<1>7. \A n \in 1 .. Cardinality(P) : \E i \in P : Rank(P, i) = n
  <2> DEFINE R == [ i \in P |-> Rank(P, i) ]
             N == 1 .. Cardinality(P)
  <2>1. R \in [ P -> N ] /\ \A i, j \in P : R[i] = R[j] => i = j
    BY <1>5, <1>6
  <2>2. R \in Injection(P, N)
    BY <2>1 DEF Injection, IsInjective
  <2>3. IsFiniteSet(N) /\ Cardinality(N) = Cardinality(P)
    BY <1>3, FS_Interval
  <2>4. R \in Surjection(P, N)
    BY <2>2, <2>3, FS_Injection
  <2>5. \A n \in N : \E i \in P : R[i] = n
    BY <2>4 DEF Surjection
  <2> QED BY <2>5
<1> QED BY <1>2, <1>3, <1>5, <1>6, <1>7

\* What Picked returns.
LEMMA PickedEntries ==
  ASSUME NEW S, NEW q \in Seq(S), NEW P \in SUBSET (DOMAIN q)
  PROVE  /\ Picked(q, P) \in Seq(S)
         /\ Len(Picked(q, P)) = Cardinality(P)
         /\ Cardinality(P) \in Nat /\ Cardinality(P) <= Len(q)
         /\ \A i \in P : Rank(P, i) \in 1 .. Cardinality(P) /\ Picked(q, P)[Rank(P, i)] = q[i]
         /\ \A n \in 1 .. Cardinality(P) : \E i \in P : Rank(P, i) = n /\ Picked(q, P)[n] = q[i]
<1>1. DOMAIN q = 1 .. Len(q) /\ Len(q) \in Nat
  OBVIOUS
<1>2. /\ Cardinality(P) \in Nat /\ Cardinality(P) <= Len(q)
      /\ \A i \in P : Rank(P, i) \in 1 .. Cardinality(P)
      /\ \A i, j \in P : i < j => Rank(P, i) < Rank(P, j)
      /\ \A n \in 1 .. Cardinality(P) : \E i \in P : Rank(P, i) = n
  BY <1>1, Ranks
<1> DEFINE Pos(n) == CHOOSE i \in P : Rank(P, i) = n
<1>3. \A n \in 1 .. Cardinality(P) : Pos(n) \in P /\ Rank(P, Pos(n)) = n
  BY <1>2
<1>4. \A i \in P : Pos(Rank(P, i)) = i
  <2> TAKE i \in P
  <2>1. Pos(Rank(P, i)) \in P /\ Rank(P, Pos(Rank(P, i))) = Rank(P, i)
    BY <1>2, <1>3
  <2> HIDE DEF Pos
  <2> QED BY <2>1, <1>1, <1>2
<1>5. Picked(q, P) = [ n \in 1 .. Cardinality(P) |-> q[Pos(n)] ]
  BY DEF Picked, Rank
<1> HIDE DEF Pos
<1>6. \A n \in 1 .. Cardinality(P) : q[Pos(n)] \in S
  BY <1>1, <1>3
<1>7. Picked(q, P) \in Seq(S) /\ Len(Picked(q, P)) = Cardinality(P)
  BY <1>2, <1>5, <1>6
<1> QED BY <1>2, <1>3, <1>4, <1>5, <1>7

LEMMA DroppedAreListed ==
  ASSUME Listed, aged \subseteq Sessions
  PROVE  Dropped \subseteq Sessions
<1> DEFINE P == { i \in DOMAIN order : order[i] \notin Expired }
<1>1. Picked(order, P) \in Seq(Sessions)
  BY PickedEntries DEF Listed
<1>2. \A i \in DOMAIN Picked(order, P) : Picked(order, P)[i] \in Sessions
  <2> HIDE DEF P
  <2> QED BY <1>1
<1>3. Dropped = Expired \union Evicted(Picked(order, P))
  BY DEF Dropped
<1> HIDE DEF P
<1> QED BY <1>2, <1>3 DEF Expired, Evicted

\* The records that are kept are the listed ones that are neither dropped nor s.
LEMMA KeptEntries ==
  ASSUME Listed, NEW D, NEW s
  PROVE  /\ Kept(D, s) \in Seq(Sessions)
         /\ \A i, j \in DOMAIN Kept(D, s) : Kept(D, s)[i] = Kept(D, s)[j] => i = j
         /\ { Kept(D, s)[i] : i \in DOMAIN Kept(D, s) } =
              { x \in Sessions : lockOf[x] # NoLock /\ x \notin D /\ x # s }
<1> DEFINE P == { i \in DOMAIN order : order[i] \notin D /\ order[i] # s }
           q == Kept(D, s)
           N == 1 .. Cardinality(P)
<1>1. P \in SUBSET DOMAIN order /\ q = Picked(order, P)
  BY DEF Kept
<1>2. /\ q \in Seq(Sessions) /\ Len(q) = Cardinality(P)
      /\ \A i \in P : Rank(P, i) \in N /\ q[Rank(P, i)] = order[i]
      /\ \A n \in N : \E i \in P : Rank(P, i) = n /\ q[n] = order[i]
  <2> HIDE DEF q, P
  <2> QED BY <1>1, PickedEntries DEF Listed
<1>3. DOMAIN q = N
  <2> HIDE DEF q, P
  <2> QED BY <1>2
<1>4. ASSUME NEW m \in N, NEW n \in N, q[m] = q[n] PROVE m = n
  <2>1. PICK i \in P, j \in P : Rank(P, i) = m /\ q[m] = order[i] /\ Rank(P, j) = n /\ q[n] = order[j]
    <3> HIDE DEF q, P
    <3> QED BY <1>2
  <2>2. i = j
    BY <1>4, <2>1, <1>1 DEF Listed
  <2> QED BY <2>1, <2>2
<1>5. { q[n] : n \in N } = { order[i] : i \in P }
  <2> HIDE DEF q, P
  <2> QED BY <1>2
<1>6. { order[i] : i \in P } = { x \in { order[i] : i \in DOMAIN order } : x \notin D /\ x # s }
  OBVIOUS
<1>7. { order[i] : i \in P } = { x \in Sessions : lockOf[x] # NoLock /\ x \notin D /\ x # s }
  BY <1>6 DEF Listed
<1> QED BY <1>2, <1>3, <1>4, <1>5, <1>7

LEMMA GetLockListed ==
  ASSUME LocksInv, TableOK, NEW c \in Calls, GetLock(c)
  PROVE  TableOK'
<1> DEFINE s == SessionOf[c]
           l == IF lockOf[s] = NoLock \/ s \in Dropped THEN NewLock ELSE lockOf[s]
           q == Kept(Dropped, s)
<1>1. s \in Sessions /\ l # NoLock
  BY NewLockIsNew, SessionLocksAssumption DEF GetLock
<1>2. /\ order' = Append(q, s)
      /\ lockOf' = [ x \in Sessions |-> IF x = s THEN l ELSE IF x \in Dropped THEN NoLock ELSE lockOf[x] ]
      /\ aged' = (aged \ Dropped) \ { s }
      /\ lost' = lost \union { x \in Dropped : lockOf[x] \notin locked /\ waiters[lockOf[x]] # << >> }
  BY DEF GetLock
<1>3. Dropped \subseteq Sessions
  BY DroppedAreListed DEF TableOK
<1>4. /\ q \in Seq(Sessions)
      /\ \A i, j \in DOMAIN q : q[i] = q[j] => i = j
      /\ { q[i] : i \in DOMAIN q } = { x \in Sessions : lockOf[x] # NoLock /\ x \notin Dropped /\ x # s }
  BY KeptEntries DEF TableOK
<1> HIDE DEF s, l, q
<1>5. /\ order' \in Seq(Sessions) /\ DOMAIN order' = 1 .. Len(q) + 1 /\ DOMAIN q = 1 .. Len(q)
      /\ \A i \in DOMAIN q : order'[i] = q[i]
      /\ order'[Len(q) + 1] = s /\ Len(q) \in Nat
  BY <1>1, <1>2, <1>4
<1>6. \A i \in DOMAIN q : q[i] # s
  BY <1>4
<1>7. \A i, j \in DOMAIN order' : order'[i] = order'[j] => i = j
  BY <1>4, <1>5, <1>6
<1>8. { order'[i] : i \in DOMAIN order' } = { q[i] : i \in DOMAIN q } \union { s }
  <2>1. DOMAIN order' = DOMAIN q \union { Len(q) + 1 }
    BY <1>5
  <2> QED BY <2>1, <1>5
<1>9. { x \in Sessions : lockOf'[x] # NoLock } =
        { x \in Sessions : lockOf[x] # NoLock /\ x \notin Dropped /\ x # s } \union { s }
  BY <1>1, <1>2
<1>10. Listed'
  BY <1>4, <1>5, <1>7, <1>8, <1>9 DEF Listed
<1> QED BY <1>2, <1>3, <1>10 DEF TableOK

\* All fields hold what they can hold, and the table lists each session with a
\* lock once.
THEOREM LocksTyped == LocksSpec => []LocksTypeOK
<1>1. LocksInit => TableOK
  <2> SUFFICES ASSUME LocksInit PROVE TableOK
    OBVIOUS
  <2>1. order = << >> /\ aged = {} /\ lost = {} /\ \A s \in Sessions : lockOf[s] = NoLock
    BY DEF LocksInit
  <2> QED BY <2>1 DEF TableOK, Listed
<1>2. LocksInv /\ TableOK /\ [LocksNext]_lockVars => TableOK'
  <2> SUFFICES ASSUME LocksInv, TableOK, [LocksNext]_lockVars PROVE TableOK'
    OBVIOUS
  <2>1. ASSUME NEW s \in Sessions, Age(s) PROVE TableOK'
    BY <2>1 DEF Age, TableOK, Listed
  <2>2. ASSUME NEW c \in Calls, Resume(c) \/ Release(c) PROVE TableOK'
    BY <2>2 DEF Resume, Release, TableOK, Listed
  <2>3. CASE UNCHANGED lockVars
    BY <2>3 DEF lockVars, TableOK, Listed
  <2> QED BY <2>1, <2>2, <2>3, GetLockListed DEF LocksNext
<1>3. LocksSpec => []TableOK
  BY <1>1, <1>2, LocksInvariant, PTL DEF LocksSpec
<1>4. LocksInv /\ TableOK /\ Queued => LocksTypeOK
  BY DEF LocksInv, Shape, TableOK, Listed, Queued, LocksTypeOK
<1> QED BY <1>3, <1>4, LocksInvariant, QueuesOrdered, PTL

\* When none of the records beyond the newest MaxLocks is locked, no more than
\* MaxLocks records are kept.
LEMMA AtMostMaxKept ==
  ASSUME Listed, NEW s,
         \A i \in 1 .. Len(order) - MaxLocks : ~ IsLocked(order[i])
  PROVE  Len(Kept(Dropped, s)) <= MaxLocks
<1> DEFINE All == DOMAIN order
           Q == { i \in All : order[i] \notin Expired }
           X == All \ Q
           q == Picked(order, Q)
           m == Cardinality(Q)
           V == { i \in Q : Rank(Q, i) <= m - MaxLocks }
           P == { i \in All : order[i] \notin Dropped /\ order[i] # s }
<1>1. /\ All = 1 .. Len(order) /\ Len(order) \in Nat /\ MaxLocks \in Nat
      /\ IsFiniteSet(All) /\ Cardinality(All) = Len(order)
  <2>1. order \in Seq(Sessions)
    BY DEF Listed
  <2>2. All = 1 .. Len(order) /\ Len(order) \in Nat
    BY <2>1
  <2> HIDE DEF All
  <2>3. ASSUME NEW n \in Nat PROVE IsFiniteSet(1 .. n) /\ Cardinality(1 .. n) = n
    BY FS_Interval
  <2>4. IsFiniteSet(All) /\ Cardinality(All) = Len(order)
    BY <2>2, <2>3
  <2> QED BY <2>2, <2>4, SessionLocksAssumption
<1>2. /\ IsFiniteSet(Q) /\ m \in Nat
      /\ \A i \in Q : Rank(Q, i) \in 1 .. m
      /\ \A i, j \in Q : i < j => Rank(Q, i) < Rank(Q, j)
  BY <1>1, Ranks
<1>3. /\ q \in Seq(Sessions) /\ Len(q) = m
      /\ \A i \in Q : q[Rank(Q, i)] = order[i]
      /\ \A n \in 1 .. m : \E i \in Q : Rank(Q, i) = n /\ q[n] = order[i]
  <2>1. Q \in SUBSET DOMAIN order
    OBVIOUS
  <2> HIDE DEF Q
  <2> QED BY <2>1, PickedEntries DEF Listed
<1>4. IsFiniteSet(X) /\ Cardinality(X) \in Nat /\ Len(order) = m + Cardinality(X)
  <2>1. Q \intersect X = {} /\ Q \union X = All /\ X \in SUBSET All
    OBVIOUS
  <2>2. IsFiniteSet(X) /\ Cardinality(X) \in Nat
    BY <2>1, <1>1, FS_Subset, FS_CardinalityType
  <2>3. Cardinality(Q \union X) = m + Cardinality(X) - Cardinality(Q \intersect X)
    BY <1>2, <2>2, FS_Union
  <2>4. Cardinality(Q \intersect X) = 0
    BY <2>1, FS_EmptySet
  <2>5. Cardinality(Q \union X) = Len(order)
    BY <1>1, <2>1
  <2> HIDE DEF Q, X, All
  <2> QED BY <1>2, <2>2, <2>3, <2>4, <2>5
<1>5. ASSUME NEW i \in Q PROVE i <= Rank(Q, i) + Cardinality(X)
  <2> DEFINE Up == { j \in Q : j <= i }
             XUp == { j \in X : j <= i }
  <2>0. i \in Nat
    BY <1>1
  <2>1. i \in Nat /\ IsFiniteSet(1 .. i) /\ Cardinality(1 .. i) = i
    <3> HIDE DEF Q
    <3> QED BY <2>0, FS_Interval
  <2>2. Up \union XUp = 1 .. i
    <3>1. \A j \in 1 .. i : j \in All
      BY <1>1, <2>1
    <3> QED BY <3>1, <1>1, <2>1
  <2>3. /\ IsFiniteSet(Up) /\ Cardinality(Up) \in Nat
        /\ IsFiniteSet(XUp) /\ Cardinality(XUp) \in Nat /\ Cardinality(XUp) <= Cardinality(X)
    <3>1. Up \in SUBSET Q /\ XUp \in SUBSET X
      OBVIOUS
    <3> HIDE DEF Up, XUp, Q, X
    <3> QED BY <3>1, <1>2, <1>4, FS_Subset, FS_CardinalityType
  <2>4. Cardinality(Up) = Rank(Q, i)
    BY DEF Rank
  <2> HIDE DEF Up, XUp, Q, X
  <2>5. Cardinality(Up \intersect XUp) \in Nat
    BY <2>3, FS_Intersection, FS_CardinalityType
  <2>6. i = Cardinality(Up) + Cardinality(XUp) - Cardinality(Up \intersect XUp)
    BY <2>1, <2>2, <2>3, FS_Union
  <2> QED BY <2>1, <2>3, <2>4, <2>5, <2>6, <1>4
<1>6. \A n \in 1 .. m - MaxLocks : ~ IsLocked(q[n])
  <2> TAKE n \in 1 .. m - MaxLocks
  <2>1. n \in 1 .. m
    BY <1>1, <1>2
  <2>2. PICK i \in Q : Rank(Q, i) = n /\ q[n] = order[i]
    BY <1>3, <2>1
  <2>3. i \in Nat /\ 1 <= i
    BY <1>1
  <2> HIDE DEF Q, X, q
  <2>4. i <= Len(order) - MaxLocks
    BY <1>1, <1>2, <1>4, <1>5, <2>2, <2>3
  <2> QED BY <2>2, <2>3, <2>4, <1>1
<1>7. \A i \in V : order[i] \in Dropped
  <2> TAKE i \in V
  <2> DEFINE n == Rank(Q, i)
  <2>1. n \in 1 .. m /\ n <= m - MaxLocks /\ q[n] = order[i]
    BY <1>2, <1>3
  <2>2. Dropped = Expired \union Evicted(q)
    BY DEF Dropped
  <2> HIDE DEF Q, q, n
  <2>3. n \in DOMAIN q /\ n <= Len(q) - MaxLocks
    BY <1>3, <2>1
  <2>4. ~ IsLocked(q[n]) /\ \A j \in 1 .. n - 1 : ~ IsLocked(q[j])
    BY <1>1, <1>2, <1>6, <2>1
  <2> QED BY <2>1, <2>2, <2>3, <2>4 DEF Evicted
<1>8. P \in SUBSET (Q \ V)
  <2>1. Expired \subseteq Dropped
    BY DEF Dropped
  <2> HIDE DEF V
  <2> QED BY <1>7, <2>1
<1>9. IsFiniteSet(Q \ V) /\ Cardinality(Q \ V) \in Nat /\ Cardinality(Q \ V) <= MaxLocks
  <2> DEFINE lo == IF m <= MaxLocks THEN 1 ELSE m - MaxLocks + 1
             R == [ i \in Q \ V |-> Rank(Q, i) ]
  <2>1. IsFiniteSet(lo .. m) /\ Cardinality(lo .. m) <= MaxLocks
    <3>1. lo \in Int /\ m \in Int /\ (IF lo > m THEN 0 ELSE m - lo + 1) <= MaxLocks
      <4> HIDE DEF Q
      <4> QED BY <1>1, <1>2
    <3> HIDE DEF lo, m
    <3> QED BY <3>1, FS_Interval
  <2>2. ASSUME NEW i \in Q \ V PROVE Rank(Q, i) \in lo .. m
    <3> HIDE DEF Q
    <3> QED BY <1>1, <1>2
  <2>3. \A i, j \in Q \ V : Rank(Q, i) = Rank(Q, j) => i = j
    <3>1. \A i \in Q : i \in Int
      BY <1>1
    <3> HIDE DEF Q
    <3> QED BY <3>1, <1>2
  <2>4. R \in Injection(Q \ V, lo .. m)
    <3> HIDE DEF Q, V, lo, m
    <3> QED BY <2>2, <2>3 DEF Injection, IsInjective
  <2> HIDE DEF R, Q, V, lo, m
  <2>5. IsFiniteSet(Q \ V) /\ Cardinality(Q \ V) <= Cardinality(lo .. m)
    BY <2>1, <2>4, FS_Injection
  <2>6. Cardinality(Q \ V) \in Nat /\ Cardinality(lo .. m) \in Nat
    BY <2>1, <2>5, FS_CardinalityType
  <2> QED BY <2>1, <2>5, <2>6, <1>1
<1>10. Len(Kept(Dropped, s)) = Cardinality(P)
  BY PickedEntries DEF Kept, Listed
<1>11. Cardinality(P) \in Nat /\ Cardinality(P) <= Cardinality(Q \ V)
  <2> HIDE DEF P, Q, V
  <2> QED BY <1>8, <1>9, FS_Subset, FS_CardinalityType
<1> HIDE DEF P, Q, V
<1> QED BY <1>1, <1>9, <1>10, <1>11

\* The table of locks has at most one record above max_locks after a message,
\* unless one of the records that should go has a turn running, for any
\* sessions and any bound.
THEOREM TableStaysBounded == LocksSpec => TableIsBounded
<1> DEFINE Bounded == order' # order /\ Len(order') > MaxLocks + 1 =>
                        \E i \in 1 .. Len(order) - MaxLocks : IsLocked(order[i])
<1>1. LocksTypeOK /\ [LocksNext]_lockVars => [Bounded]_lockVars
  <2> SUFFICES ASSUME LocksTypeOK, LocksNext, order' # order,
                      \A i \in 1 .. Len(order) - MaxLocks : ~ IsLocked(order[i])
               PROVE  ~ (Len(order') > MaxLocks + 1)
    OBVIOUS
  <2>1. PICK c \in Calls : GetLock(c)
    BY DEF LocksNext, Resume, Release, Age
  <2>2. order' = Append(Kept(Dropped, SessionOf[c]), SessionOf[c])
    BY <2>1 DEF GetLock
  <2>3. Listed
    BY DEF Listed, LocksTypeOK
  <2>4. Kept(Dropped, SessionOf[c]) \in Seq(Sessions)
    BY <2>3, KeptEntries
  <2>5. Len(Kept(Dropped, SessionOf[c])) <= MaxLocks
    BY <2>3, AtMostMaxKept
  <2>6. Len(order') = Len(Kept(Dropped, SessionOf[c])) + 1
    BY <2>2, <2>4, SessionLocksAssumption
  <2> QED BY <2>4, <2>5, <2>6, SessionLocksAssumption
<1> HIDE DEF Bounded
<1>2. LocksSpec => [][Bounded]_lockVars
  BY <1>1, LocksTyped, PTL DEF LocksSpec
<1> QED BY <1>2 DEF TableIsBounded, Bounded

-----------------------------------------------------------------------------
(* The voice path: the inductive invariant *)

Wish == [ id : Utterances, on : BOOLEAN ]
Heard1 == [ id : Ids, answered : BOOLEAN ]

VoiceObject ==
  [ speaking : BOOLEAN, muted : BOOLEAN, recognizer : { "none", "created", "running" },
    current : Ids, preferences : Seq(Wish), processed : Seq(Heard1) ]

SocketState ==
  [ phase : { "new", "open", "turn", "sending", "closed" }, id : Ids,
    object : Objects \union { NoObj }, forgotten : BOOLEAN,
    tts : { "none", "skipped", "queued", "refused", "off" } ]

HeapState == [ live : [ Sessions -> Objects \union { NoObj } ], obj : [ Objects -> VoiceObject ] ]

Short(x) == Len(x.preferences) <= MaxIds /\ Len(x.processed) <= MaxIds

VoiceShape ==
  /\ live \in [ Sessions -> Objects \union { NoObj } ]
  /\ obj \in [ Objects -> VoiceObject ]
  /\ \A o \in Objects : Short(obj[o])
  /\ socket \in [ Sockets -> SocketState ]
  /\ jobs \in Seq(Objects) /\ Len(jobs) <= MaxJobs
  /\ speech \in [ step : { "idle", "taken", "started" }, object : Objects \union { NoObj } ]
  /\ speech.step = "idle" <=> speech.object = NoObj
  /\ asked \in [ Sessions -> [ Utterances -> { "on", "off", "dropped" } ] ]

\* What a session shows: its object, or a new one.
Shown(h, s) == IF h.live[s] = NoObj THEN NewObject ELSE h.obj[h.live[s]]

\* An object is one session's at most, and a turn's object its own session's.
Owned(l) ==
  /\ \A s, t \in Sessions : l[s] = l[t] /\ l[s] # NoObj => s = t
  /\ \A k \in Sockets, s \in Sessions :
       socket[k].object = l[s] /\ l[s] # NoObj => s = SessionOf[k]

TurnsHaveObjects == \A k \in Sockets : socket[k].object # NoObj <=> socket[k].phase = "turn"

\* What an object o remembers was answered, or its turn is on.
Settled(q, o, sock) ==
  \A i \in DOMAIN q :
    \/ q[i].answered = TRUE
    \/ \E k \in Sockets : /\ sock[k].phase = "turn" /\ sock[k].id = q[i].id
                          /\ sock[k].object = o

Answered == \A s \in Sessions : Settled(Shown(Heap, s).processed, live[s], socket)

\* A turn's utterance is remembered, or was forgotten.
Recalled ==
  \A k \in Sockets :
    /\ socket[k].phase = "turn" /\ socket[k].forgotten = FALSE
    /\ socket[k].object = live[SessionOf[k]]
    => socket[k].id \in IdsOf(Shown(Heap, SessionOf[k]).processed)

\* A preference is kept as it was sent, and none is lost without a trace.
Wishes ==
  \A s \in Sessions :
    LET q == Shown(Heap, s).preferences
    IN  /\ \A i \in DOMAIN q : asked[s][q[i].id] = IF q[i].on THEN "on" ELSE "off"
        /\ \A u \in Utterances : asked[s][u] = "on" => u \in IdsOf(q)

Unattended(s) == \A k \in Sockets : SessionOf[k] = s => socket[k].phase \in { "new", "closed" }

Listening ==
  \A s \in Sessions :
    Shown(Heap, s).recognizer = "running" /\ Unattended(s) => s \in unheard

Turns == TurnsHaveObjects /\ Answered /\ Recalled /\ OneTurnPerUtterance

VoiceInv == /\ VoiceShape /\ Owned(live) /\ Turns /\ Wishes /\ Listening /\ QuietMeansUnmuted

-----------------------------------------------------------------------------
(* A sequence that remembers by id *)

LEMMA RememberedEntries ==
  ASSUME NEW E, NEW q \in Seq(E), Len(q) <= MaxIds, NEW e \in E
  PROVE  LET r == Remembered(q, e)
         IN  /\ r \in Seq(E) /\ Len(r) <= MaxIds
             /\ \E n \in DOMAIN r : r[n] = e
             /\ \A n \in DOMAIN r : r[n] = e \/ \E i \in DOMAIN q : r[n] = q[i] /\ q[i].id # e.id
<1> DEFINE P == { i \in DOMAIN q : q[i].id # e.id }
           p == Picked(q, P)
           a == Append(p, e)
<1>1. /\ p \in Seq(E) /\ Len(p) <= Len(q)
      /\ \A n \in DOMAIN p : \E i \in P : p[n] = q[i]
  <2>1. P \in SUBSET DOMAIN q
    OBVIOUS
  <2>2. /\ p \in Seq(E) /\ Len(p) = Cardinality(P) /\ Cardinality(P) <= Len(q)
        /\ \A n \in 1 .. Cardinality(P) : \E i \in P : p[n] = q[i]
    <3> HIDE DEF P
    <3> QED BY <2>1, PickedEntries
  <2> HIDE DEF P, p
  <2>3. DOMAIN p = 1 .. Cardinality(P)
    BY <2>2
  <2> QED BY <2>2, <2>3
<1>2. \A n \in DOMAIN p : \E i \in DOMAIN q : p[n] = q[i] /\ q[i].id # e.id
  BY <1>1
<1>3. Remembered(q, e) = Trimmed(a)
  BY DEF Remembered
<1>4. MaxIds \in Nat \ { 0 }
  BY VoiceAssumption
<1> HIDE DEF p, P
<1>5. /\ a \in Seq(E) /\ Len(a) = Len(p) + 1 /\ a[Len(a)] = e /\ Len(p) \in Nat
      /\ \A n \in DOMAIN a : a[n] = e \/ \E i \in DOMAIN q : a[n] = q[i] /\ q[i].id # e.id
  BY <1>1, <1>2
<1> HIDE DEF a
<1>6. CASE Len(a) <= MaxIds
  <2>1. Trimmed(a) = a /\ Len(a) \in DOMAIN a
    BY <1>4, <1>5, <1>6 DEF Trimmed
  <2> QED BY <1>3, <1>5, <1>6, <2>1
<1>7. CASE ~ (Len(a) <= MaxIds)
  <2>1. Trimmed(a) = Tail(a) /\ Len(q) \in Nat /\ Len(a) \in Nat
    BY <1>4, <1>5, <1>7 DEF Trimmed
  <2>2. Len(a) = MaxIds + 1 /\ Len(a) > 1
    BY <1>1, <1>4, <1>5, <1>7, <2>1
  <2>3. /\ Tail(a) \in Seq(E) /\ Len(Tail(a)) = MaxIds
        /\ \A n \in DOMAIN Tail(a) : n + 1 \in DOMAIN a /\ Tail(a)[n] = a[n + 1]
    BY <1>4, <1>5, <2>2
  <2>4. MaxIds \in DOMAIN Tail(a) /\ Tail(a)[MaxIds] = e
    BY <1>4, <1>5, <2>2, <2>3
  <2> QED BY <1>3, <1>4, <1>5, <2>1, <2>3, <2>4
<1> QED BY <1>6, <1>7

-----------------------------------------------------------------------------
(* Making an object *)

\* There are no more values than arguments.
LEMMA ImageBound ==
  ASSUME NEW S, IsFiniteSet(S), NEW f, NEW R, \A r \in R : \E x \in S : r = f[x]
  PROVE  IsFiniteSet(R) /\ Cardinality(R) <= Cardinality(S)
<1> DEFINE g == [ r \in R |-> CHOOSE x \in S : r = f[x] ]
<1>1. \A r \in R : g[r] \in S /\ r = f[g[r]]
  OBVIOUS
<1>2. g \in [ R -> S ]
  OBVIOUS
<1> HIDE DEF g
<1>3. g \in Injection(R, S)
  BY <1>1, <1>2 DEF Injection, IsInjective
<1> QED BY <1>3, FS_Injection

LEMMA UnionBound ==
  ASSUME NEW A, NEW B, IsFiniteSet(A), IsFiniteSet(B), NEW a \in Nat, NEW b \in Nat,
         Cardinality(A) <= a, Cardinality(B) <= b
  PROVE  IsFiniteSet(A \union B) /\ Cardinality(A \union B) <= a + b
<1>1. Cardinality(A) \in Nat /\ Cardinality(B) \in Nat
  BY FS_CardinalityType
<1>2. Cardinality(A \intersect B) \in Nat
  BY FS_Intersection, FS_CardinalityType
<1>3. IsFiniteSet(A \union B)
      /\ Cardinality(A \union B) = Cardinality(A) + Cardinality(B) - Cardinality(A \intersect B)
  BY FS_Union
<1> QED BY <1>1, <1>2, <1>3

\* There is an object for a session that has none.
LEMMA Room ==
  ASSUME VoiceShape, NEW s \in Sessions, live[s] = NoObj
  PROVE  \E o \in Objects : o \notin Reachable(Heap)
<1> DEFINE rest == [ t \in Sessions \ { s } |-> live[t] ]
           used == [ k \in Sockets |-> socket[k].object ]
           A == { rest[t] : t \in Sessions \ { s } }
           B == { used[k] : k \in Sockets }
           C == { jobs[i] : i \in DOMAIN jobs }
           D == { speech.object }
           n == Cardinality(Sessions)
<1>1. /\ IsFiniteSet(Sessions) /\ IsFiniteSet(Sockets) /\ MaxJobs \in Nat /\ MaxObjects \in Nat
      /\ MaxObjects >= n + Cardinality(Sockets) + MaxJobs + 1
  BY VoiceAssumption
<1>2. n \in Nat /\ n # 0 /\ Cardinality(Sockets) \in Nat
  BY <1>1, FS_CardinalityType, FS_EmptySet
<1>3. IsFiniteSet(A) /\ Cardinality(A) <= n - 1
  <2>1. IsFiniteSet(Sessions \ { s }) /\ Cardinality(Sessions \ { s }) = n - 1
    BY <1>1, FS_RemoveElement
  <2>2. \A r \in A : \E t \in Sessions \ { s } : r = rest[t]
    OBVIOUS
  <2> HIDE DEF rest, A, n
  <2>3. IsFiniteSet(A) /\ Cardinality(A) <= Cardinality(Sessions \ { s })
    BY <2>1, <2>2, ImageBound
  <2> QED BY <2>1, <2>3
<1>4. IsFiniteSet(B) /\ Cardinality(B) <= Cardinality(Sockets)
  <2>1. \A r \in B : \E k \in Sockets : r = used[k]
    OBVIOUS
  <2> HIDE DEF used, B
  <2> QED BY <1>1, <2>1, ImageBound
<1>5. IsFiniteSet(C) /\ Cardinality(C) <= MaxJobs
  <2>1. jobs \in [ 1 .. Len(jobs) -> Objects ] /\ Len(jobs) \in Nat /\ DOMAIN jobs = 1 .. Len(jobs)
    BY DEF VoiceShape
  <2>2. IsFiniteSet(1 .. Len(jobs)) /\ Cardinality(1 .. Len(jobs)) = Len(jobs)
    <3>1. ASSUME NEW m \in Nat PROVE IsFiniteSet(1 .. m) /\ Cardinality(1 .. m) = m
      BY FS_Interval
    <3> QED BY <2>1, <3>1
  <2>3. IsFiniteSet(C) /\ Cardinality(C) <= Cardinality(1 .. Len(jobs))
    <3>1. \A r \in C : \E i \in 1 .. Len(jobs) : r = jobs[i]
      BY <2>1
    <3> HIDE DEF C
    <3> QED BY <2>2, <3>1, ImageBound
  <2>4. Len(jobs) <= MaxJobs
    BY DEF VoiceShape
  <2> HIDE DEF C
  <2>5. Cardinality(C) \in Nat
    BY <2>3, FS_CardinalityType
  <2> QED BY <1>1, <2>1, <2>2, <2>3, <2>4, <2>5
<1>6. IsFiniteSet(D) /\ Cardinality(D) <= 1
  <2>1. IsFiniteSet(D) /\ Cardinality(D) = 1
    BY FS_Singleton
  <2> QED BY <2>1
<1> HIDE DEF A, B, C, D, n
<1>7. IsFiniteSet(A \union B) /\ Cardinality(A \union B) <= (n - 1) + Cardinality(Sockets)
  BY <1>2, <1>3, <1>4, UnionBound
<1>8. IsFiniteSet((A \union B) \union C)
      /\ Cardinality((A \union B) \union C) <= ((n - 1) + Cardinality(Sockets)) + MaxJobs
  <2> DEFINE a == (n - 1) + Cardinality(Sockets)
             AB == A \union B
  <2>1. a \in Nat /\ IsFiniteSet(AB) /\ Cardinality(AB) <= a
    BY <1>2, <1>7
  <2> HIDE DEF a, AB
  <2>2. IsFiniteSet(AB \union C) /\ Cardinality(AB \union C) <= a + MaxJobs
    BY <1>1, <1>5, <2>1, UnionBound
  <2> QED BY <2>2 DEF a, AB
<1> DEFINE U == ((A \union B) \union C) \union D
<1>9. IsFiniteSet(U) /\ Cardinality(U) <= (((n - 1) + Cardinality(Sockets)) + MaxJobs) + 1
  <2> DEFINE a == ((n - 1) + Cardinality(Sockets)) + MaxJobs
             ABC == (A \union B) \union C
  <2>1. a \in Nat /\ IsFiniteSet(ABC) /\ Cardinality(ABC) <= a
    BY <1>1, <1>2, <1>8
  <2> HIDE DEF a, ABC
  <2>2. IsFiniteSet(ABC \union D) /\ Cardinality(ABC \union D) <= a + 1
    BY <1>6, <2>1, UnionBound
  <2> QED BY <2>2 DEF a, ABC
<1>10. Cardinality(U) \in Nat /\ Cardinality(U) < MaxObjects
  BY <1>1, <1>2, <1>9, FS_CardinalityType
<1>11. \E o \in Objects : o \notin U
  <2> SUFFICES ASSUME Objects \in SUBSET U PROVE FALSE
    OBVIOUS
  <2> HIDE DEF U
  <2>1. Cardinality(Objects) <= Cardinality(U)
    BY <1>9, FS_Subset
  <2>2. Cardinality(Objects) = MaxObjects
    <3>1. ASSUME NEW m \in Nat PROVE Cardinality(1 .. m) = m
      BY FS_Interval
    <3> QED BY <1>1, <3>1 DEF Objects
  <2> QED BY <1>1, <1>10, <2>1, <2>2
<1>12. \A o \in Objects : o \in Reachable(Heap) => o \in U
  <2> SUFFICES ASSUME NEW o \in Objects, o \in Reachable(Heap) PROVE o \in U
    OBVIOUS
  <2>1. o # NoObj
    BY DEF Objects, NoObj
  <2>2. CASE \E t \in Sessions : o = live[t]
    BY <2>1, <2>2 DEF A
  <2>3. CASE \E k \in Sockets : o = socket[k].object
    BY <2>3 DEF B
  <2>4. CASE o \in { jobs[i] : i \in DOMAIN jobs }
    BY <2>4 DEF C
  <2>5. CASE o = speech.object
    BY <2>5 DEF D
  <2> QED BY <2>2, <2>3, <2>4, <2>5 DEF Reachable, Heap
<1> QED BY <1>11, <1>12

-----------------------------------------------------------------------------
(* The table and the objects as a handler goes along *)

\* Objects are made only where nothing refers to, and nothing starts to show
\* speech.
Fine(h) ==
  /\ h \in HeapState
  /\ \A o \in Objects : Short(h.obj[o])
  /\ Owned(h.live)
  /\ \A s \in Sessions :
       \/ h.live[s] = live[s]
       \/ h.live[s] = NoObj
       \/ live[s] = NoObj /\ \A k \in Sockets : socket[k].object # h.live[s]
  /\ \A o \in Objects :
       h.obj[o].muted = TRUE \/ h.obj[o].speaking = TRUE =>
         obj[o].muted = TRUE \/ obj[o].speaking = TRUE

LEMMA NewObjectTyped == NewObject \in VoiceObject /\ Short(NewObject)
<1>1. << >> \in Seq(Wish) /\ << >> \in Seq(Heard1) /\ Len(<< >>) = 0
  OBVIOUS
<1> QED BY <1>1, VoiceAssumption DEF NewObject, VoiceObject, Ids, Short

LEMMA HeapFine ==
  ASSUME VoiceShape, Owned(live)
  PROVE  Fine(Heap)
BY DEF Fine, Heap, HeapState, VoiceShape

LEMMA GotFine ==
  ASSUME VoiceShape, Owned(live), NEW s \in Sessions
  PROVE  LET g == Got(Heap, s)
         IN  /\ Fine(g) /\ g.live[s] \in Objects
             /\ Got(g, s) = g
             /\ g.obj[g.live[s]] = Shown(Heap, s)
             /\ \A t \in Sessions : Shown(g, t) = Shown(Heap, t)
             /\ \A t \in Sessions : t # s => g.live[t] = live[t]
             /\ live[s] # NoObj => g = Heap
<1> DEFINE g == Got(Heap, s)
<1>0. NoObj \notin Objects
  BY DEF NoObj, Objects
<1>1. CASE live[s] # NoObj
  <2>1. g = Heap /\ Got(g, s) = g
    BY <1>1 DEF Got, Heap
  <2>2. live[s] \in Objects
    BY <1>1 DEF VoiceShape
  <2> QED BY <1>1, <2>1, <2>2, HeapFine DEF Heap, Shown
<1>2. CASE live[s] = NoObj
  <2> DEFINE new == CHOOSE o \in Objects : o \notin Reachable(Heap)
  <2>1. new \in Objects /\ new \notin Reachable(Heap)
    BY <1>2, Room
  <2>2. g = [ live |-> [live EXCEPT ![s] = new], obj |-> [obj EXCEPT ![new] = NewObject] ]
    BY <1>2 DEF Got, Heap
  <2> HIDE DEF new, g
  <2>3. /\ g.live \in [ Sessions -> Objects \union { NoObj } ] /\ g.live[s] = new
        /\ \A t \in Sessions : t # s => g.live[t] = live[t]
    BY <2>1, <2>2 DEF VoiceShape
  <2>4. /\ g.obj \in [ Objects -> VoiceObject ] /\ g.obj[new] = NewObject
        /\ \A o \in Objects : o # new => g.obj[o] = obj[o]
    BY <2>1, <2>2, NewObjectTyped DEF VoiceShape
  <2>5. /\ \A t \in Sessions : live[t] # new
        /\ \A k \in Sockets : socket[k].object # new
    BY <2>1 DEF Reachable, Heap
  <2>6. Got(g, s) = g
    BY <1>0, <2>1, <2>3 DEF Got
  <2>7. \A t \in Sessions : Shown(g, t) = Shown(Heap, t)
    <3> TAKE t \in Sessions
    <3>1. CASE t = s
      BY <3>1, <1>0, <1>2, <2>1, <2>3, <2>4 DEF Shown, Heap
    <3>2. CASE t # s
      BY <3>2, <2>3, <2>4, <2>5 DEF Shown, Heap, VoiceShape
    <3> QED BY <3>1, <3>2
  <2>8. Owned(g.live)
    BY <2>3, <2>5 DEF Owned
  <2>9. \A o \in Objects : Short(g.obj[o])
    BY <2>4, NewObjectTyped DEF VoiceShape
  <2>10. \A o \in Objects : g.obj[o].muted = TRUE \/ g.obj[o].speaking = TRUE =>
           obj[o].muted = TRUE \/ obj[o].speaking = TRUE
    BY <2>4 DEF NewObject
  <2>11. g \in HeapState
    BY <2>2, <2>3, <2>4 DEF HeapState
  <2>12. Fine(g)
    BY <1>2, <2>3, <2>5, <2>8, <2>9, <2>10, <2>11 DEF Fine
  <2> QED BY <1>2, <2>1, <2>3, <2>4, <2>6, <2>7, <2>12 DEF Shown, Heap, g
<1> QED BY <1>1, <1>2

\* One object changes, and does not start to show speech.
LEMMA PutFine ==
  ASSUME NEW g, Fine(g), NEW h \in HeapState, h.live = g.live,
         NEW o \in Objects, Short(h.obj[o]),
         \A p \in Objects : p # o => h.obj[p] = g.obj[p],
         h.obj[o].muted = TRUE => g.obj[o].muted = TRUE,
         h.obj[o].speaking = TRUE => g.obj[o].speaking = TRUE
  PROVE  Fine(h)
BY DEF Fine

LEMMA ReleasedFine ==
  ASSUME VoiceShape, Owned(live), NEW s \in Sessions
  PROVE  LET h == Released(Heap, s)
         IN  /\ Fine(h) /\ h.live[s] = NoObj /\ Shown(h, s) = NewObject
             /\ \A t \in Sessions : t # s => h.live[t] = live[t] /\ Shown(h, t) = Shown(Heap, t)
<1> DEFINE h == Released(Heap, s)
<1>1. CASE live[s] = NoObj
  <2>1. h = Heap
    BY <1>1 DEF Released, Heap
  <2> QED BY <1>1, <2>1, HeapFine DEF Heap, Shown
<1>2. CASE live[s] # NoObj
  <2> DEFINE o == live[s]
             x == [obj[o] EXCEPT !.recognizer = "none"]
  <2>1. h = [ live |-> [live EXCEPT ![s] = NoObj], obj |-> [obj EXCEPT ![o] = x] ]
    BY <1>2 DEF Released, Heap
  <2>2. o \in Objects /\ obj[o] \in VoiceObject /\ Short(obj[o])
    BY <1>2 DEF VoiceShape
  <2>3. x \in VoiceObject /\ Short(x) /\ x.muted = obj[o].muted /\ x.speaking = obj[o].speaking
    <3>1. x.muted = obj[o].muted /\ x.speaking = obj[o].speaking /\ x.preferences = obj[o].preferences
          /\ x.processed = obj[o].processed /\ x \in VoiceObject
      BY <2>2 DEF VoiceObject
    <3> QED BY <2>2, <3>1 DEF Short
  <2> HIDE DEF x, h
  <2>4. /\ h.live \in [ Sessions -> Objects \union { NoObj } ] /\ h.live[s] = NoObj
        /\ \A t \in Sessions : t # s => h.live[t] = live[t]
    BY <2>1 DEF VoiceShape
  <2>5. /\ h.obj \in [ Objects -> VoiceObject ] /\ h.obj[o] = x
        /\ \A p \in Objects : p # o => h.obj[p] = obj[p]
    BY <2>1, <2>2, <2>3 DEF VoiceShape
  <2>6. h \in HeapState
    BY <2>1, <2>4, <2>5 DEF HeapState
  <2>7. Owned(h.live)
    BY <2>4 DEF Owned
  <2>8. \A p \in Objects : Short(h.obj[p])
    BY <2>3, <2>5 DEF VoiceShape
  <2>9. Fine(h)
    BY <2>3, <2>4, <2>5, <2>6, <2>7, <2>8 DEF Fine
  <2>10. \A t \in Sessions : t # s => Shown(h, t) = Shown(Heap, t)
    <3> TAKE t \in Sessions
    <3> HAVE t # s
    <3>1. live[t] # NoObj => live[t] # o /\ live[t] \in Objects
      BY <1>2 DEF Owned, VoiceShape
    <3> QED BY <3>1, <2>4, <2>5 DEF Shown, Heap
  <2> QED BY <2>4, <2>9, <2>10 DEF Shown, h
<1> QED BY <1>1, <1>2

\* What a step that ends in h leaves.
LEMMA BecomesFine ==
  ASSUME VoiceShape, NEW h, Fine(h), Becomes(h)
  PROVE  /\ live' = h.live /\ live' \in [ Sessions -> Objects \union { NoObj } ]
         /\ obj' \in [ Objects -> VoiceObject ] /\ \A o \in Objects : Short(obj[o])'
         /\ \A s \in Sessions : Shown(Heap, s)' = Shown(h, s)
         /\ \A o \in Objects : obj'[o].muted = TRUE \/ obj'[o].speaking = TRUE =>
              obj[o].muted = TRUE \/ obj[o].speaking = TRUE
<1> DEFINE kept(o) == [NewObject EXCEPT !.speaking = h.obj[o].speaking, !.muted = h.obj[o].muted]
           current == { h.live[s] : s \in Sessions }
<1>1. live' = h.live /\ h \in HeapState
  BY DEF Becomes, Fine
<1>2. obj' = [ o \in Objects |-> IF o \in current THEN h.obj[o]
                                 ELSE IF o \in Reachable(h) THEN kept(o) ELSE NewObject ]
  BY DEF Becomes
<1>3. \A o \in Objects : kept(o) \in VoiceObject /\ Short(kept(o))
                         /\ kept(o).speaking = h.obj[o].speaking /\ kept(o).muted = h.obj[o].muted
  <2> TAKE o \in Objects
  <2>1. h.obj[o].speaking \in BOOLEAN /\ h.obj[o].muted \in BOOLEAN
    BY <1>1 DEF HeapState, VoiceObject
  <2>2. kept(o) \in VoiceObject
    BY <2>1, NewObjectTyped DEF VoiceObject
  <2>3. kept(o).speaking = h.obj[o].speaking /\ kept(o).muted = h.obj[o].muted
        /\ kept(o).preferences = NewObject.preferences /\ kept(o).processed = NewObject.processed
    BY DEF NewObject
  <2> HIDE DEF kept
  <2> QED BY <2>2, <2>3, NewObjectTyped DEF Short
<1> HIDE DEF kept, current
<1>4. \A o \in Objects : h.obj[o] \in VoiceObject /\ Short(h.obj[o])
  BY <1>1 DEF HeapState, Fine
<1>5. obj' \in [ Objects -> VoiceObject ] /\ \A o \in Objects : Short(obj[o])'
  <2>1. \A o \in Objects : obj'[o] = h.obj[o] \/ obj'[o] = kept(o) \/ obj'[o] = NewObject
    BY <1>2
  <2> QED BY <1>2, <1>3, <1>4, <2>1, NewObjectTyped
<1>6. \A s \in Sessions : Shown(Heap, s)' = Shown(h, s)
  <2> TAKE s \in Sessions
  <2>1. CASE h.live[s] = NoObj
    BY <1>1, <2>1 DEF Shown, Heap
  <2>2. CASE h.live[s] # NoObj
    <3>1. h.live[s] \in Objects /\ h.live[s] \in current
      BY <1>1, <2>2 DEF HeapState, current
    <3>2. obj'[h.live[s]] = h.obj[h.live[s]]
      BY <1>2, <3>1
    <3> QED BY <1>1, <2>2, <3>2 DEF Shown, Heap
  <2> QED BY <2>1, <2>2
<1>7. \A o \in Objects : obj'[o].muted = TRUE \/ obj'[o].speaking = TRUE =>
              h.obj[o].muted = TRUE \/ h.obj[o].speaking = TRUE
  <2> TAKE o \in Objects
  <2>1. obj'[o] = h.obj[o] \/ obj'[o] = kept(o) \/ obj'[o] = NewObject
    BY <1>2
  <2>2. NewObject.muted = FALSE /\ NewObject.speaking = FALSE
    BY DEF NewObject
  <2> QED BY <1>3, <2>1, <2>2
<1> QED BY <1>1, <1>5, <1>6, <1>7 DEF Fine, HeapState

-----------------------------------------------------------------------------
(* What a step has to keep *)

\* Of the utterances processed in h, each is one that was, and is answered or
\* the one it was, while the turns it waits for go on.
SameProcessed(h) ==
  \A t \in Sessions :
    \/ h.live[t] = NoObj
    \/ LET q == Shown(h, t).processed
           p == Shown(Heap, t).processed
       IN  /\ IdsOf(q) = IdsOf(p)
           /\ \A i \in DOMAIN q :
                \/ q[i].answered = TRUE
                \/ /\ \E j \in DOMAIN p : q[i] = p[j]
                   /\ \A k \in Sockets :
                        socket[k].phase = "turn" /\ socket[k].id = q[i].id
                        /\ socket[k].object = live[t] => socket'[k] = socket[k]

\* No turn begins; the ones that do not go on leave their object.
NoTurnBegins ==
  \A k \in Sockets : \/ socket'[k] = socket[k]
                     \/ socket'[k].phase # "turn" /\ socket'[k].object = NoObj

LEMMA TurnsKept ==
  ASSUME VoiceInv, NEW h, Fine(h), Becomes(h), SameProcessed(h), NoTurnBegins
  PROVE  Turns' /\ Owned(live)'
<1> USE DEF VoiceInv
<1>1. /\ live' = h.live
      /\ \A s \in Sessions : Shown(Heap, s)' = Shown(h, s)
  BY BecomesFine
<1>2. TurnsHaveObjects'
  BY DEF NoTurnBegins, Turns, TurnsHaveObjects
<1>3. ASSUME NEW k \in Sockets, socket'[k].phase = "turn" PROVE socket'[k] = socket[k]
  BY <1>3 DEF NoTurnBegins
<1>4. ASSUME NEW k \in Sockets, socket'[k].object # NoObj PROVE socket'[k] = socket[k]
  BY <1>4 DEF NoTurnBegins
<1>5. ASSUME NEW t \in Sessions, NEW k \in Sockets, socket'[k].phase = "turn",
             socket'[k].object = live'[t]
      PROVE  live'[t] = live[t] /\ live'[t] # NoObj
  <2>1. socket'[k] = socket[k] /\ socket[k].object # NoObj
    BY <1>3, <1>5 DEF Turns, TurnsHaveObjects
  <2> QED BY <1>1, <1>5, <2>1 DEF Fine
<1>6. Owned(live)'
  BY <1>1, <1>4 DEF Owned, Fine
<1>7. Answered'
  <2>1. ASSUME NEW t \in Sessions,
               NEW i \in DOMAIN Shown(h, t).processed,
               Shown(h, t).processed[i].answered # TRUE
        PROVE  \E k \in Sockets : /\ socket'[k].phase = "turn"
                                  /\ socket'[k].id = Shown(h, t).processed[i].id
                                  /\ socket'[k].object = live'[t]
    <3> DEFINE q == Shown(h, t).processed
               p == Shown(Heap, t).processed
    <3>1. h.live[t] # NoObj
      BY <2>1 DEF Shown, NewObject
    <3>2. PICK j \in DOMAIN p : q[i] = p[j]
      BY <2>1, <3>1 DEF SameProcessed
    <3>3. \A k \in Sockets : socket[k].phase = "turn" /\ socket[k].id = q[i].id
                             /\ socket[k].object = live[t] => socket'[k] = socket[k]
      BY <2>1, <3>1 DEF SameProcessed
    <3>4. PICK k \in Sockets : socket[k].phase = "turn" /\ socket[k].id = p[j].id
                               /\ socket[k].object = live[t]
      BY <2>1, <3>2 DEF Turns, Answered, Settled
    <3>5. live[t] # NoObj
      BY <3>4 DEF Turns, TurnsHaveObjects
    <3>6. live'[t] = live[t]
      BY <1>1, <3>1, <3>5 DEF Fine
    <3> QED BY <3>2, <3>3, <3>4, <3>6
  <2>2. \A t \in Sessions : Settled(Shown(h, t).processed, live'[t], socket')
    BY <2>1 DEF Settled
  <2> QED BY <2>2, <1>1 DEF Answered
<1>8. Recalled'
  <2> SUFFICES ASSUME NEW k \in Sockets, socket'[k].phase = "turn", socket'[k].forgotten = FALSE,
                      socket'[k].object = live'[SessionOf[k]]
               PROVE  socket'[k].id \in IdsOf(Shown(h, SessionOf[k]).processed)
    BY <1>1, SessionLocksAssumption, VoiceAssumption DEF Recalled
  <2> DEFINE t == SessionOf[k]
  <2>1. t \in Sessions
    BY SessionLocksAssumption, VoiceAssumption
  <2>2. socket'[k] = socket[k] /\ live'[t] = live[t] /\ live'[t] # NoObj
    BY <1>3, <1>5, <2>1
  <2>3. socket[k].id \in IdsOf(Shown(Heap, t).processed)
    BY <2>2 DEF Turns, Recalled
  <2> QED BY <1>1, <2>1, <2>2, <2>3 DEF SameProcessed
<1>9. OneTurnPerUtterance'
  BY <1>3 DEF Turns, OneTurnPerUtterance
<1> QED BY <1>2, <1>6, <1>7, <1>8, <1>9 DEF Turns

\* The other parts of the shape a step may change.
Typed ==
  /\ socket \in [ Sockets -> SocketState ]
  /\ jobs \in Seq(Objects) /\ Len(jobs) <= MaxJobs
  /\ asked \in [ Sessions -> [ Utterances -> { "on", "off", "dropped" } ] ]

LEMMA StepKeeps ==
  ASSUME VoiceInv, NEW h, Fine(h), Becomes(h), speech' = speech, Typed',
         Turns', Owned(live)', Wishes', Listening'
  PROVE  VoiceInv'
<1> USE DEF VoiceInv
<1>1. VoiceShape'
  BY BecomesFine DEF VoiceShape, Typed
<1>2. QuietMeansUnmuted'
  <2>1. \A o \in Objects : /\ obj[o].muted \in BOOLEAN /\ obj[o].speaking \in BOOLEAN
                           /\ obj'[o].muted \in BOOLEAN /\ obj'[o].speaking \in BOOLEAN
    BY BecomesFine DEF VoiceShape, VoiceObject
  <2>2. \A o \in Objects : obj'[o].muted = TRUE \/ obj'[o].speaking = TRUE =>
              obj[o].muted = TRUE \/ obj[o].speaking = TRUE
    BY BecomesFine
  <2> QED BY <2>1, <2>2 DEF QuietMeansUnmuted
<1> QED BY <1>1, <1>2

\* The preferences are what they were, in h and in what was asked.
LEMMA WishesKept ==
  ASSUME VoiceInv, NEW h, Fine(h), Becomes(h), asked' = asked,
         \A t \in Sessions : Shown(h, t).preferences = Shown(Heap, t).preferences
  PROVE  Wishes'
<1>1. \A t \in Sessions : Shown(Heap, t)' = Shown(h, t)
  BY BecomesFine DEF VoiceInv
<1> QED BY <1>1 DEF VoiceInv, Wishes

\* A session's object goes, with the preferences it kept.
LEMMA WishesDropped ==
  ASSUME VoiceInv, NEW s \in Sessions, Becomes(Released(Heap, s)), Drop(s)
  PROVE  Wishes' /\ asked' \in [ Sessions -> [ Utterances -> { "on", "off", "dropped" } ] ]
<1> DEFINE h == Released(Heap, s)
<1> USE DEF VoiceInv
<1>1. /\ Fine(h) /\ Shown(h, s) = NewObject
      /\ \A t \in Sessions : t # s => Shown(h, t) = Shown(Heap, t)
  BY ReleasedFine
<1>2. \A t \in Sessions : Shown(Heap, t)' = Shown(h, t)
  <2> HIDE DEF h
  <2> QED BY <1>1, BecomesFine DEF h
<1> HIDE DEF h
<1>3. asked \in [ Sessions -> [ Utterances -> { "on", "off", "dropped" } ] ]
  BY DEF VoiceShape
<1> DEFINE dropped(u) == live[s] # NoObj /\ u \in IdsOf(obj[live[s]].preferences)
<1>4. asked' = [asked EXCEPT ![s] = [ u \in Utterances |-> IF dropped(u) THEN "dropped" ELSE @[u] ]]
  BY DEF Drop
<1> HIDE DEF dropped
<1>5. /\ \A t \in Sessions : t # s => asked'[t] = asked[t]
      /\ \A u \in Utterances : asked'[s][u] = IF dropped(u) THEN "dropped" ELSE asked[s][u]
  BY <1>3, <1>4
<1>6. asked' \in [ Sessions -> [ Utterances -> { "on", "off", "dropped" } ] ]
  <2>1. [ u \in Utterances |-> IF dropped(u) THEN "dropped" ELSE asked[s][u] ] \in
          [ Utterances -> { "on", "off", "dropped" } ]
    BY <1>3
  <2> QED BY <1>3, <1>4, <2>1
<1>7. \A u \in Utterances : asked[s][u] = "on" => dropped(u)
  BY DEF Wishes, Shown, Heap, dropped, NewObject, IdsOf
<1>8. ASSUME NEW t \in Sessions
      PROVE  LET q == Shown(h, t).preferences
             IN  /\ \A i \in DOMAIN q : asked'[t][q[i].id] = IF q[i].on THEN "on" ELSE "off"
                 /\ \A u \in Utterances : asked'[t][u] = "on" => u \in IdsOf(q)
  <2>1. CASE t = s
    <3>1. DOMAIN Shown(h, t).preferences = {}
      BY <1>1, <2>1 DEF NewObject
    <3>2. \A u \in Utterances : asked'[t][u] # "on"
      BY <1>5, <1>7, <2>1
    <3> QED BY <3>1, <3>2
  <2>2. CASE t # s
    BY <1>1, <1>5, <2>2 DEF Wishes
  <2> QED BY <2>1, <2>2
<1> QED BY <1>2, <1>6, <1>8 DEF Wishes

\* At most one session's object changes, none of its turns, and its processed
\* utterances only go with the object.
LEMMA TurnsUntouched ==
  ASSUME VoiceInv, NEW s \in Sessions, NEW h, Fine(h), Becomes(h),
         \A t \in Sessions : t # s => Shown(h, t) = Shown(Heap, t),
         Shown(h, s).processed = Shown(Heap, s).processed \/ h.live[s] = NoObj,
         \A k \in Sockets : \/ socket'[k] = socket[k]
                            \/ /\ socket[k].phase # "turn" /\ socket'[k].phase # "turn"
                               /\ socket'[k].object = NoObj
  PROVE  Turns' /\ Owned(live)'
<1>1. NoTurnBegins
  BY DEF NoTurnBegins
<1>2. SameProcessed(h)
  <2> SUFFICES ASSUME NEW t \in Sessions, h.live[t] # NoObj
               PROVE  LET q == Shown(h, t).processed
                          p == Shown(Heap, t).processed
                      IN  /\ IdsOf(q) = IdsOf(p)
                          /\ \A i \in DOMAIN q :
                               \/ q[i].answered = TRUE
                               \/ /\ \E j \in DOMAIN p : q[i] = p[j]
                                  /\ \A k \in Sockets :
                                       socket[k].phase = "turn" /\ socket[k].id = q[i].id
                                       /\ socket[k].object = live[t] => socket'[k] = socket[k]
    BY DEF SameProcessed
  <2>1. Shown(h, t).processed = Shown(Heap, t).processed
    OBVIOUS
  <2> QED BY <2>1
<1> QED BY <1>1, <1>2, TurnsKept

LEMMA ListeningKept ==
  ASSUME VoiceInv, NEW h, Fine(h), Becomes(h), unheard \subseteq unheard',
         \A t \in Sessions : Shown(h, t).recognizer = "running" /\ Unattended(t)' =>
           t \in unheard' \/ (Shown(Heap, t).recognizer = "running" /\ Unattended(t))
  PROVE  Listening'
<1>1. \A t \in Sessions : Shown(Heap, t)' = Shown(h, t)
  BY BecomesFine DEF VoiceInv
<1> QED BY <1>1 DEF Listening, VoiceInv

LEMMA ShownTyped ==
  ASSUME VoiceInv, NEW s \in Sessions
  PROVE  Shown(Heap, s) \in VoiceObject /\ Short(Shown(Heap, s))
BY NewObjectTyped DEF Shown, Heap, VoiceInv, VoiceShape

\* An object that differs in its status, recognizer and active utterance only.
Like(x, o) == /\ x \in VoiceObject
              /\ x.preferences = o.preferences /\ x.processed = o.processed
              /\ x.muted = TRUE => o.muted = TRUE
              /\ x.speaking = TRUE => o.speaking = TRUE

\* A handler gets its session's object and makes it x.
LEMMA GotPut ==
  ASSUME VoiceInv, NEW s \in Sessions, NEW x \in VoiceObject, Short(x),
         x.muted = TRUE => Shown(Heap, s).muted = TRUE,
         x.speaking = TRUE => Shown(Heap, s).speaking = TRUE
  PROVE  LET g == Got(Heap, s)
             h == [g EXCEPT !.obj[g.live[s]] = x]
         IN  /\ Fine(h) /\ h.live = g.live /\ h.live[s] \in Objects /\ Shown(h, s) = x
             /\ \A t \in Sessions : t # s => h.live[t] = live[t] /\ Shown(h, t) = Shown(Heap, t)
<1> DEFINE g == Got(Heap, s)
           h == [g EXCEPT !.obj[g.live[s]] = x]
<1>1. /\ Fine(g) /\ g.live[s] \in Objects /\ g.obj[g.live[s]] = Shown(Heap, s)
      /\ \A t \in Sessions : Shown(g, t) = Shown(Heap, t)
      /\ \A t \in Sessions : t # s => g.live[t] = live[t]
  BY GotFine DEF VoiceInv
<1> HIDE DEF g
<1>4. g \in HeapState
  BY <1>1 DEF Fine
<1>5. /\ h \in HeapState /\ h.live = g.live /\ h.obj[g.live[s]] = x
      /\ \A p \in Objects : p # g.live[s] => h.obj[p] = g.obj[p]
  BY <1>1, <1>4 DEF HeapState
<1> HIDE DEF h
<1>2. /\ Fine(h)
      /\ \A t \in Sessions : Shown(h, t) = IF g.live[t] = g.live[s] THEN x ELSE Shown(g, t)
  <2>1. Fine(h)
    <3> DEFINE o == g.live[s]
    <3>1. /\ o \in Objects /\ Short(h.obj[o])
          /\ \A p \in Objects : p # o => h.obj[p] = g.obj[p]
      BY <1>1, <1>5
    <3>2. h.obj[o].muted = TRUE => g.obj[o].muted = TRUE
      BY <1>1, <1>5
    <3>3. h.obj[o].speaking = TRUE => g.obj[o].speaking = TRUE
      BY <1>1, <1>5
    <3> HIDE DEF o
    <3> QED BY <1>1, <1>5, <3>1, <3>2, <3>3, PutFine
  <2>2. NoObj \notin Objects /\ \A t \in Sessions : g.live[t] \in Objects \union { NoObj }
    BY <1>4 DEF HeapState, NoObj, Objects
  <2>3. \A t \in Sessions : Shown(h, t) = IF g.live[t] = g.live[s] THEN x ELSE Shown(g, t)
    BY <1>1, <1>5, <2>2 DEF Shown
  <2> QED BY <2>1, <2>3
<1>3. \A t \in Sessions : t # s => g.live[t] # g.live[s]
  <2>1. g.live[s] # NoObj
    BY <1>1 DEF Objects, NoObj
  <2> QED BY <1>1, <2>1 DEF Fine, Owned
<1> QED BY <1>1, <1>2, <1>3, <1>5 DEF g, h

\* A step in which a handler, or another caller, changes its session's object
\* to one like it, moves its socket on outside a turn, and listens only where a
\* socket is left.
LEMMA LikeStep ==
  ASSUME VoiceInv, NEW s \in Sessions, NEW x, Like(x, Shown(Heap, s)),
         NEW h, Got(Heap, s).live[s] \in Objects,
         h = [Got(Heap, s) EXCEPT !.obj[Got(Heap, s).live[s]] = x], Becomes(h),
         speech' = speech, asked' = asked, unheard \subseteq unheard', Typed',
         \A k \in Sockets : \/ socket'[k] = socket[k]
                            \/ /\ socket[k].phase # "turn" /\ socket'[k].phase # "turn"
                               /\ socket'[k].object = NoObj,
         \A t \in Sessions : t # s => (Unattended(t)' => Unattended(t)),
         x.recognizer = "running" /\ Unattended(s)' =>
           s \in unheard' \/ (Shown(Heap, s).recognizer = "running" /\ Unattended(s))
  PROVE  VoiceInv'
<1>1. x \in VoiceObject /\ Short(x)
  BY ShownTyped DEF Like, Short
<1>2. /\ Fine(h) /\ Shown(h, s) = x
      /\ \A t \in Sessions : t # s => Shown(h, t) = Shown(Heap, t)
  BY <1>1, GotPut DEF Like
<1>3. Turns' /\ Owned(live)'
  BY <1>2, TurnsUntouched DEF Like
<1>4. Wishes'
  BY <1>2, WishesKept DEF Like
<1>5. Listening'
  BY <1>2, ListeningKept
<1> QED BY <1>2, <1>3, <1>4, <1>5, StepKeeps

-----------------------------------------------------------------------------
(* The handler of a socket *)

\* The object a start leaves.
AfterStart(o, outcome) ==
  IF o.recognizer # "none" \/ outcome = "started"
  THEN [o EXCEPT !.recognizer = IF @ = "none" THEN "running" ELSE @,
                 !.muted = FALSE, !.speaking = FALSE]
  ELSE [o EXCEPT !.recognizer = IF outcome = "unmade" THEN "none" ELSE "created",
                 !.speaking = FALSE]

LEMMA AfterStartLike ==
  ASSUME NEW o \in VoiceObject, NEW outcome
  PROVE  /\ Like(AfterStart(o, outcome), o)
         /\ AfterStart(o, outcome).recognizer = "running" =>
              o.recognizer = "running" \/ outcome = "started"
<1>1. CASE o.recognizer # "none" \/ outcome = "started"
  <2> DEFINE x == [o EXCEPT !.recognizer = IF @ = "none" THEN "running" ELSE @,
                            !.muted = FALSE, !.speaking = FALSE]
  <2>1. /\ x \in VoiceObject /\ x.muted = FALSE /\ x.speaking = FALSE
        /\ x.preferences = o.preferences /\ x.processed = o.processed
        /\ x.recognizer = IF o.recognizer = "none" THEN "running" ELSE o.recognizer
    BY DEF VoiceObject
  <2>2. AfterStart(o, outcome) = x
    BY <1>1 DEF AfterStart
  <2> HIDE DEF x
  <2> QED BY <1>1, <2>1, <2>2 DEF Like
<1>2. CASE ~ (o.recognizer # "none" \/ outcome = "started")
  <2> DEFINE x == [o EXCEPT !.recognizer = IF outcome = "unmade" THEN "none" ELSE "created",
                            !.speaking = FALSE]
  <2>1. /\ x \in VoiceObject /\ x.muted = o.muted /\ x.speaking = FALSE
        /\ x.preferences = o.preferences /\ x.processed = o.processed
        /\ x.recognizer = IF outcome = "unmade" THEN "none" ELSE "created"
    BY DEF VoiceObject
  <2>2. AfterStart(o, outcome) = x
    BY <1>2 DEF AfterStart
  <2> HIDE DEF x
  <2> QED BY <1>2, <2>1, <2>2 DEF Like
<1> QED BY <1>1, <1>2

LEMMA StartedPuts ==
  ASSUME NEW g, NEW s \in Sessions, g \in HeapState, Got(g, s) = g, g.live[s] \in Objects,
         NEW outcome
  PROVE  Started(g, s, outcome) =
           [g EXCEPT !.obj[g.live[s]] = AfterStart(g.obj[g.live[s]], outcome)]
BY DEF Started, AfterStart, HeapState

LEMMA OwnSession == \A k \in Sockets : SessionOf[k] \in Sessions
BY SessionLocksAssumption, VoiceAssumption

LEMMA IdleTyped == Idle \in SocketState /\ Closed \in SocketState
BY DEF Idle, Closed, SocketState, Ids

LEMMA ConnectInv ==
  ASSUME VoiceInv, NEW k \in Sockets, NEW outcome, NEW delivered \in BOOLEAN,
         Connect(k, outcome, delivered)
  PROVE  VoiceInv'
<1> DEFINE s == SessionOf[k]
           g == Got(Heap, s)
           o == Shown(Heap, s)
           x == AfterStart(o, outcome)
           h == [g EXCEPT !.obj[g.live[s]] = x]
           ok == o.recognizer # "none" \/ outcome = "started"
<1>1. s \in Sessions /\ o \in VoiceObject
  BY OwnSession, ShownTyped
<1>2. Fine(g) /\ g.live[s] \in Objects /\ Got(g, s) = g /\ g.obj[g.live[s]] = o
  BY <1>1, GotFine DEF VoiceInv
<1>3. Started(g, s, outcome) = h
  <2> HIDE DEF g, o, s
  <2> QED BY <1>1, <1>2, StartedPuts DEF Fine
<1>4. /\ socket[k].phase = "new" /\ Becomes(Started(g, s, outcome))
      /\ socket' = [socket EXCEPT ![k] =
           IF (g.obj[g.live[s]].recognizer # "none" \/ outcome = "started") /\ delivered THEN Idle ELSE Closed]
      /\ unheard' = IF (g.obj[g.live[s]].recognizer # "none" \/ outcome = "started") /\ ~ delivered
                    THEN unheard \union { s } ELSE unheard
      /\ UNCHANGED << jobs, speech, asked >>
  BY DEF Connect
<1>5. Like(x, o) /\ (x.recognizer = "running" => o.recognizer = "running" \/ outcome = "started")
  BY <1>1, AfterStartLike
<1> HIDE DEF s, g, o, x, h
<1>6. Becomes(h) /\ socket' = [socket EXCEPT ![k] = IF ok /\ delivered THEN Idle ELSE Closed]
      /\ unheard' = IF ok /\ ~ delivered THEN unheard \union { s } ELSE unheard
  BY <1>2, <1>3, <1>4
<1>7. /\ \A l \in Sockets : l # k => socket'[l] = socket[l]
      /\ socket'[k] = IF ok /\ delivered THEN Idle ELSE Closed
      /\ socket'[k].phase # "turn" /\ socket'[k].object = NoObj
  BY <1>6 DEF VoiceInv, VoiceShape, Idle, Closed
<1>8. Typed'
  BY <1>4, <1>6, IdleTyped DEF Typed, VoiceInv, VoiceShape
<1>9. \A t \in Sessions : t # s => (Unattended(t)' => Unattended(t))
  BY <1>7 DEF Unattended, s
<1>10. x.recognizer = "running" /\ Unattended(s)' =>
         s \in unheard' \/ (o.recognizer = "running" /\ Unattended(s))
  <2> SUFFICES ASSUME x.recognizer = "running", Unattended(s)', s \notin unheard' PROVE FALSE
    OBVIOUS
  <2>1. ok
    BY <1>5
  <2>2. socket'[k] = Idle
    BY <1>6, <1>7, <2>1
  <2> QED BY <2>2 DEF Unattended, s, Idle
<1>11. \A l \in Sockets : \/ socket'[l] = socket[l]
                          \/ /\ socket[l].phase # "turn" /\ socket'[l].phase # "turn"
                             /\ socket'[l].object = NoObj
  BY <1>4, <1>7
<1>12. unheard \subseteq unheard'
  BY <1>6
<1>13. Like(x, Shown(Heap, s))
  BY <1>5 DEF o
<1>14. x.recognizer = "running" /\ Unattended(s)' =>
         s \in unheard' \/ (Shown(Heap, s).recognizer = "running" /\ Unattended(s))
  BY <1>10 DEF o
<1>15. Got(Heap, s).live[s] \in Objects /\ h = [Got(Heap, s) EXCEPT !.obj[Got(Heap, s).live[s]] = x]
  BY <1>2 DEF h, g
<1> QED BY <1>1, <1>4, <1>6, <1>8, <1>9, <1>11, <1>12, <1>13, <1>14, <1>15, LikeStep

\* Nothing of the session is read or changed but an object's status, and no
\* turn begins or ends.
LEMMA StillStep ==
  ASSUME VoiceInv, live' = live, asked' = asked, unheard' = unheard,
         VoiceShape', QuietMeansUnmuted',
         \A o \in Objects : /\ obj'[o].preferences = obj[o].preferences
                            /\ obj'[o].processed = obj[o].processed
                            /\ obj'[o].recognizer = obj[o].recognizer,
         \A k \in Sockets : \/ socket'[k] = socket[k]
                            \/ /\ socket[k].phase # "turn" /\ socket'[k].phase # "turn"
                               /\ socket'[k].object = NoObj,
         \A t \in Sessions : Unattended(t)' => Unattended(t)
  PROVE  VoiceInv'
<1> USE DEF VoiceInv
<1>1. \A t \in Sessions : /\ Shown(Heap, t)'.preferences = Shown(Heap, t).preferences
                          /\ Shown(Heap, t)'.processed = Shown(Heap, t).processed
                          /\ Shown(Heap, t)'.recognizer = Shown(Heap, t).recognizer
  <2> TAKE t \in Sessions
  <2>1. CASE live[t] = NoObj
    BY <2>1 DEF Shown, Heap
  <2>2. CASE live[t] # NoObj
    <3>1. live[t] \in Objects
      BY <2>2 DEF VoiceShape
    <3> QED BY <2>2, <3>1 DEF Shown, Heap
  <2> QED BY <2>1, <2>2
<1>2. \A k \in Sockets : socket[k].phase = "turn" \/ socket'[k].phase = "turn" \/ socket'[k].object # NoObj
                         => socket'[k] = socket[k]
  OBVIOUS
<1> HIDE DEF VoiceInv
<1>3. VoiceShape /\ Owned(live) /\ Turns /\ Wishes /\ Listening
  BY DEF VoiceInv
<1>4. Owned(live)'
  BY <1>2, <1>3 DEF Owned
<1>5. TurnsHaveObjects'
  BY <1>3 DEF Turns, TurnsHaveObjects
<1>6. Answered'
  <2>1. \A t \in Sessions : Settled(Shown(Heap, t).processed, live[t], socket')
    BY <1>2, <1>3 DEF Turns, Answered, Settled
  <2> QED BY <1>1, <2>1 DEF Answered
<1>7. Recalled'
  BY <1>1, <1>2, <1>3, OwnSession DEF Turns, Recalled
<1>8. OneTurnPerUtterance'
  BY <1>2, <1>3 DEF Turns, OneTurnPerUtterance
<1>9. Wishes'
  BY <1>1, <1>3 DEF Wishes
<1>10. Listening'
  BY <1>1, <1>3 DEF Listening
<1> QED BY <1>4, <1>5, <1>6, <1>7, <1>8, <1>9, <1>10 DEF VoiceInv, Turns

\* A handler leaves, or a session is dropped by another one.
LEMMA LeaveStep ==
  ASSUME VoiceInv, NEW s \in Sessions, Becomes(Released(Heap, s)), Drop(s),
         speech' = speech, jobs' = jobs, unheard' = unheard,
         socket' \in [ Sockets -> SocketState ],
         \A k \in Sockets : \/ socket'[k] = socket[k]
                            \/ /\ SessionOf[k] = s
                               /\ socket'[k].phase # "turn" /\ socket'[k].object = NoObj
  PROVE  VoiceInv'
<1> DEFINE h == Released(Heap, s)
<1>1. /\ Fine(h) /\ h.live[s] = NoObj /\ Shown(h, s) = NewObject
      /\ \A t \in Sessions : t # s => h.live[t] = live[t] /\ Shown(h, t) = Shown(Heap, t)
  BY ReleasedFine DEF VoiceInv
<1>2. Wishes' /\ asked' \in [ Sessions -> [ Utterances -> { "on", "off", "dropped" } ] ]
  BY WishesDropped
<1>3. Becomes(h)
  OBVIOUS
<1> HIDE DEF h
<1>4. SameProcessed(h)
  <2> SUFFICES ASSUME NEW t \in Sessions, h.live[t] # NoObj
               PROVE  LET q == Shown(h, t).processed
                          p == Shown(Heap, t).processed
                      IN  /\ IdsOf(q) = IdsOf(p)
                          /\ \A i \in DOMAIN q :
                               \/ q[i].answered = TRUE
                               \/ /\ \E j \in DOMAIN p : q[i] = p[j]
                                  /\ \A k \in Sockets :
                                       socket[k].phase = "turn" /\ socket[k].id = q[i].id
                                       /\ socket[k].object = live[t] => socket'[k] = socket[k]
    BY DEF SameProcessed
  <2>1. t # s /\ Shown(h, t).processed = Shown(Heap, t).processed /\ live[t] # NoObj
    BY <1>1
  <2>2. \A k \in Sockets : socket[k].object = live[t] => SessionOf[k] # s
    BY <2>1 DEF VoiceInv, Owned
  <2> QED BY <2>1, <2>2
<1>5. NoTurnBegins
  BY DEF NoTurnBegins
<1>6. Turns' /\ Owned(live)'
  BY <1>1, <1>3, <1>4, <1>5, TurnsKept
<1>7. Listening'
  <2>1. \A t \in Sessions : t # s => (Unattended(t)' => Unattended(t))
    BY DEF Unattended
  <2>2. Shown(h, s).recognizer # "running"
    BY <1>1 DEF NewObject
  <2>3. \A t \in Sessions : Shown(h, t).recognizer = "running" /\ Unattended(t)' =>
          Shown(Heap, t).recognizer = "running" /\ Unattended(t)
    BY <1>1, <2>1, <2>2
  <2> QED BY <1>1, <1>3, <2>3, ListeningKept
<1>8. Typed'
  BY <1>2 DEF Typed, VoiceInv, VoiceShape
<1> QED BY <1>1, <1>2, <1>3, <1>6, <1>7, <1>8, StepKeeps

LEMMA RefuseInv ==
  ASSUME VoiceInv, NEW k \in Sockets, Refuse(k)
  PROVE  VoiceInv'
<1>1. /\ socket[k].phase = "new" /\ socket' = [socket EXCEPT ![k] = Closed]
      /\ UNCHANGED << live, obj, jobs, speech, asked, unheard >>
  BY DEF Refuse, history
<1>2. socket \in [ Sockets -> SocketState ]
  BY DEF VoiceInv, VoiceShape
<1>3. socket'[k] = Closed /\ \A l \in Sockets : l # k => socket'[l] = socket[l]
  BY <1>1, <1>2
<1>4. Closed.phase = "closed" /\ Closed.object = NoObj
  BY DEF Closed, Idle
<1>5. VoiceShape'
  <2>1. socket' \in [ Sockets -> SocketState ]
    BY <1>1, <1>2, IdleTyped
  <2> QED BY <1>1, <2>1 DEF VoiceInv, VoiceShape
<1>6. QuietMeansUnmuted'
  BY <1>1 DEF VoiceInv, QuietMeansUnmuted
<1>7. \A t \in Sessions : Unattended(t)' => Unattended(t)
  BY <1>1, <1>3, <1>4 DEF Unattended
<1>8. \A l \in Sockets : \/ socket'[l] = socket[l]
                         \/ /\ socket[l].phase # "turn" /\ socket'[l].phase # "turn"
                            /\ socket'[l].object = NoObj
  BY <1>1, <1>3, <1>4
<1> QED BY <1>1, <1>5, <1>6, <1>7, <1>8, StillStep

LEMMA DisconnectInv ==
  ASSUME VoiceInv, NEW k \in Sockets,
         \/ Disconnect(k)
         \/ FailTurn(k)
  PROVE  VoiceInv'
<1>1. /\ Leave(k) /\ UNCHANGED << jobs, speech, unheard >>
  BY DEF Disconnect, FailTurn
<1>2. socket \in [ Sockets -> SocketState ]
  BY DEF VoiceInv, VoiceShape
<1>3. Becomes(Released(Heap, SessionOf[k])) /\ Drop(SessionOf[k])
      /\ socket' = [socket EXCEPT ![k] = Closed]
  BY <1>1 DEF Leave, Ended
<1>4. socket' \in [ Sockets -> SocketState ]
  BY <1>2, <1>3, IdleTyped
<1>5. Closed.phase # "turn" /\ Closed.object = NoObj
  BY DEF Closed, Idle
<1>6. \A l \in Sockets : \/ socket'[l] = socket[l]
                         \/ /\ SessionOf[l] = SessionOf[k]
                            /\ socket'[l].phase # "turn" /\ socket'[l].object = NoObj
  BY <1>2, <1>3, <1>5
<1> QED BY <1>1, <1>3, <1>4, <1>6, LeaveStep, OwnSession

LEMMA EvictInv ==
  ASSUME VoiceInv, NEW s \in Sessions, Evict(s)
  PROVE  VoiceInv'
<1>1. Becomes(Released(Heap, s)) /\ Drop(s) /\ UNCHANGED << socket, jobs, speech, unheard >>
  BY DEF Evict
<1>2. socket' \in [ Sockets -> SocketState ]
  BY <1>1 DEF VoiceInv, VoiceShape
<1> QED BY <1>1, <1>2, LeaveStep

LEMMA SendInv ==
  ASSUME VoiceInv, NEW k \in Sockets, Send(k)
  PROVE  VoiceInv'
<1>1. /\ socket[k].phase = "sending" /\ socket' = [socket EXCEPT ![k] = Idle]
      /\ UNCHANGED << live, obj, jobs, speech, asked, unheard >>
  BY DEF Send, history
<1>2. socket \in [ Sockets -> SocketState ]
  BY DEF VoiceInv, VoiceShape
<1>3. socket'[k] = Idle /\ \A l \in Sockets : l # k => socket'[l] = socket[l]
  BY <1>1, <1>2
<1>4. Idle.phase = "open" /\ Idle.object = NoObj
  BY DEF Idle
<1>5. VoiceShape'
  <2>1. socket' \in [ Sockets -> SocketState ]
    BY <1>1, <1>2, IdleTyped
  <2> QED BY <1>1, <2>1 DEF VoiceInv, VoiceShape
<1>6. QuietMeansUnmuted'
  BY <1>1 DEF VoiceInv, QuietMeansUnmuted
<1>7. \A t \in Sessions : Unattended(t)' => Unattended(t)
  BY <1>1, <1>3, <1>4 DEF Unattended
<1>8. \A l \in Sockets : \/ socket'[l] = socket[l]
                         \/ /\ socket[l].phase # "turn" /\ socket'[l].phase # "turn"
                            /\ socket'[l].object = NoObj
  BY <1>1, <1>3, <1>4
<1> QED BY <1>1, <1>5, <1>6, <1>7, <1>8, StillStep

-----------------------------------------------------------------------------
(* The worker's callbacks *)

LEMMA TakeInv ==
  ASSUME VoiceInv, Take
  PROVE  VoiceInv'
<1>1. /\ speech.step = "idle" /\ jobs # << >> /\ jobs' = Tail(jobs)
      /\ speech' = [ step |-> "taken", object |-> Head(jobs) ]
      /\ UNCHANGED << live, obj, socket, asked, unheard >>
  BY DEF Take, history
<1>2. jobs \in Seq(Objects) /\ Len(jobs) <= MaxJobs /\ MaxJobs \in Nat
  BY VoiceAssumption DEF VoiceInv, VoiceShape
<1>3. /\ jobs' \in Seq(Objects) /\ Len(jobs') <= MaxJobs /\ Head(jobs) \in Objects
  BY <1>1, <1>2
<1>4. /\ speech' \in [ step : { "idle", "taken", "started" }, object : Objects \union { NoObj } ]
      /\ speech'.step = "idle" <=> speech'.object = NoObj
  BY <1>1, <1>3 DEF Objects, NoObj
<1>5. VoiceShape'
  BY <1>1, <1>3, <1>4 DEF VoiceInv, VoiceShape
<1>6. QuietMeansUnmuted'
  <2>1. \A o \in Objects : ~ (obj[o].muted \/ obj[o].speaking)
    BY <1>1 DEF VoiceInv, QuietMeansUnmuted
  <2> QED BY <1>1, <2>1 DEF QuietMeansUnmuted
<1>7. \A t \in Sessions : Unattended(t)' => Unattended(t)
  BY <1>1 DEF Unattended
<1> QED BY <1>1, <1>5, <1>6, <1>7, StillStep

\* The status of one object is set.
LEMMA CallbackShape ==
  ASSUME VoiceShape, NEW o \in Objects, NEW m \in BOOLEAN,
         obj' = [obj EXCEPT ![o] = [obj[o] EXCEPT !.muted = m, !.speaking = m]]
  PROVE  /\ obj' \in [ Objects -> VoiceObject ]
         /\ \A p \in Objects : /\ Short(obj[p])'
                               /\ obj'[p].preferences = obj[p].preferences
                               /\ obj'[p].processed = obj[p].processed
                               /\ obj'[p].recognizer = obj[p].recognizer
         /\ obj'[o].muted = m /\ obj'[o].speaking = m
         /\ \A p \in Objects : p # o => obj'[p] = obj[p]
<1> DEFINE x == [obj[o] EXCEPT !.muted = m, !.speaking = m]
<1>1. obj \in [ Objects -> VoiceObject ] /\ \A p \in Objects : Short(obj[p])
  BY DEF VoiceShape
<1>2. /\ x \in VoiceObject /\ x.muted = m /\ x.speaking = m
      /\ x.preferences = obj[o].preferences /\ x.processed = obj[o].processed
      /\ x.recognizer = obj[o].recognizer
  BY <1>1 DEF VoiceObject
<1>3. obj' = [obj EXCEPT ![o] = x]
  OBVIOUS
<1> HIDE DEF x
<1>4. obj'[o] = x /\ \A p \in Objects : p # o => obj'[p] = obj[p]
  BY <1>1, <1>3
<1>5. obj' \in [ Objects -> VoiceObject ]
  BY <1>1, <1>2, <1>3
<1> QED BY <1>1, <1>2, <1>4, <1>5 DEF Short

LEMMA CallbackInv ==
  ASSUME VoiceInv,
         \/ OnStart
         \/ OnFinish
  PROVE  VoiceInv'
<1> DEFINE o == speech.object
           m == speech.step = "taken"
<1>1. /\ UNCHANGED << live, socket, jobs, asked, unheard >>
      /\ \/ /\ speech.step = "taken" /\ speech' = [speech EXCEPT !.step = "started"]
            /\ obj' = [obj EXCEPT ![o].muted = TRUE, ![o].speaking = TRUE]
         \/ /\ speech.step = "started" /\ speech' = [ step |-> "idle", object |-> NoObj ]
            /\ obj' = [obj EXCEPT ![o] = Quiet(@)]
  BY DEF OnStart, OnFinish, history
<1>2. /\ speech \in [ step : { "idle", "taken", "started" }, object : Objects \union { NoObj } ]
      /\ speech.step = "idle" <=> speech.object = NoObj
      /\ obj \in [ Objects -> VoiceObject ]
  BY DEF VoiceInv, VoiceShape
<1>3. o \in Objects /\ NoObj \notin Objects
  BY <1>1, <1>2 DEF NoObj, Objects
<1>4. m \in BOOLEAN
  OBVIOUS
<1>5. obj' = [obj EXCEPT ![o] = [obj[o] EXCEPT !.muted = m, !.speaking = m]]
  <2>1. CASE speech.step = "taken"
    <3>1. obj' = [obj EXCEPT ![o].muted = TRUE, ![o].speaking = TRUE] /\ m = TRUE
      BY <1>1, <2>1
    <3> HIDE DEF o, m
    <3> QED BY <1>2, <1>3, <3>1 DEF VoiceObject
  <2>2. CASE speech.step = "started"
    <3>1. obj' = [obj EXCEPT ![o] = Quiet(@)] /\ m = FALSE
      BY <1>1, <2>2
    <3> HIDE DEF o, m
    <3> QED BY <1>2, <1>3, <3>1 DEF Quiet
  <2> QED BY <1>1, <2>1, <2>2
<1>6. /\ speech' \in [ step : { "idle", "taken", "started" }, object : Objects \union { NoObj } ]
      /\ speech'.step = "idle" <=> speech'.object = NoObj
      /\ m = TRUE => speech' = [ step |-> "started", object |-> o ]
  BY <1>1, <1>2, <1>3
<1>7. VoiceShape
  BY DEF VoiceInv
<1> HIDE DEF m
<1>8. /\ obj' \in [ Objects -> VoiceObject ]
      /\ \A p \in Objects : /\ Short(obj[p])'
                            /\ obj'[p].preferences = obj[p].preferences
                            /\ obj'[p].processed = obj[p].processed
                            /\ obj'[p].recognizer = obj[p].recognizer
      /\ obj'[o].muted = m /\ obj'[o].speaking = m
      /\ \A p \in Objects : p # o => obj'[p] = obj[p]
  <2> HIDE DEF o
  <2> QED BY <1>3, <1>4, <1>5, <1>7, CallbackShape
<1>9. VoiceShape'
  BY <1>1, <1>6, <1>7, <1>8 DEF VoiceShape
<1>10. QuietMeansUnmuted'
  <2>1. \A p \in Objects : p # o => ~ (obj[p].muted \/ obj[p].speaking)
    BY <1>1 DEF VoiceInv, QuietMeansUnmuted
  <2>2. m = FALSE \/ m = TRUE
    BY <1>4
  <2> QED BY <1>6, <1>8, <2>1, <2>2 DEF QuietMeansUnmuted
<1>11. \A t \in Sessions : Unattended(t)' => Unattended(t)
  BY <1>1 DEF Unattended
<1> QED BY <1>1, <1>8, <1>9, <1>10, <1>11, StillStep

-----------------------------------------------------------------------------
(* Utterances and stops *)

LEMMA SendingTyped ==
  ASSUME NEW tts \in { "none", "skipped", "queued", "refused", "off" }
  PROVE  LET x == [Idle EXCEPT !.phase = "sending", !.tts = tts]
         IN  x \in SocketState /\ x.phase = "sending" /\ x.object = NoObj
BY DEF Idle, SocketState, Ids

LEMMA AudioChunkInv ==
  ASSUME VoiceInv, NEW k \in Sockets, AudioChunk(k)
  PROVE  VoiceInv'
<1> DEFINE s == SessionOf[k]
           g == Got(Heap, s)
           o == Shown(Heap, s)
           y == IF o.recognizer = "none" THEN AfterStart(o, "started") ELSE o
           x == [y EXCEPT !.speaking = FALSE, !.recognizer = "running"]
           h == [g EXCEPT !.obj[g.live[s]] = x]
           f == IF g.obj[g.live[s]].recognizer = "none" THEN Started(g, s, "started") ELSE g
<1>1. s \in Sessions /\ o \in VoiceObject
  BY OwnSession, ShownTyped
<1>2. Fine(g) /\ g.live[s] \in Objects /\ Got(g, s) = g /\ g.obj[g.live[s]] = o
  BY <1>1, GotFine DEF VoiceInv
<1>3. /\ socket[k].phase = "open"
      /\ Becomes([f EXCEPT !.obj[f.live[s]].speaking = FALSE,
                           !.obj[f.live[s]].recognizer = "running"])
      /\ UNCHANGED << socket, jobs, speech, asked, unheard >>
  BY DEF AudioChunk, history
<1>4. Like(y, o) /\ y \in VoiceObject
  <2>1. Like(o, o)
    BY <1>1 DEF Like
  <2>2. Like(AfterStart(o, "started"), o)
    BY <1>1, AfterStartLike
  <2> QED BY <2>1, <2>2 DEF Like
<1>5. Like(x, o)
  <2> HIDE DEF y, o
  <2>1. /\ x \in VoiceObject /\ x.preferences = y.preferences /\ x.processed = y.processed
        /\ x.muted = y.muted /\ x.speaking = FALSE
    BY <1>4 DEF VoiceObject
  <2> HIDE DEF x
  <2> QED BY <1>4, <2>1 DEF Like
<1>6. g \in HeapState
  BY <1>2 DEF Fine
<1>7. Started(g, s, "started") = [g EXCEPT !.obj[g.live[s]] = AfterStart(o, "started")]
  <2> HIDE DEF g, o, s
  <2> QED BY <1>1, <1>2, <1>6, StartedPuts
<1>8. f = [g EXCEPT !.obj[g.live[s]] = y]
  <2>1. CASE o.recognizer = "none"
    <3>1. f = Started(g, s, "started") /\ y = AfterStart(o, "started")
      BY <1>2, <2>1
    <3> HIDE DEF f, g, o, s, y
    <3> QED BY <1>7, <3>1
  <2>2. CASE o.recognizer # "none"
    <3>1. f = g /\ y = o
      BY <1>2, <2>2
    <3> HIDE DEF f, g, o, s, y
    <3> QED BY <1>2, <1>6, <3>1 DEF HeapState
  <2> QED BY <2>1, <2>2
<1> HIDE DEF f, g, o, s, y
<1>9. /\ f \in HeapState /\ f.live = g.live /\ f.obj = [g.obj EXCEPT ![g.live[s]] = y]
      /\ f.obj[g.live[s]] = y
  BY <1>2, <1>4, <1>6, <1>8 DEF HeapState
<1>10. [f EXCEPT !.obj[f.live[s]].speaking = FALSE, !.obj[f.live[s]].recognizer = "running"] = h
  <2> DEFINE a == g.live[s]
             z == [y EXCEPT !.speaking = FALSE]
             e == [f EXCEPT !.obj[a].speaking = FALSE]
  <2>1. a \in Objects /\ f.live[s] = a /\ y \in VoiceObject /\ f.obj[a] = y
        /\ g.obj \in [ Objects -> VoiceObject ]
    BY <1>2, <1>4, <1>6, <1>9 DEF HeapState
  <2>2. f = [ live |-> g.live, obj |-> [g.obj EXCEPT ![a] = y] ]
    BY <1>9 DEF HeapState
  <2>3. x = [z EXCEPT !.recognizer = "running"]
    BY <2>1 DEF VoiceObject
  <2>4. h = [ live |-> g.live, obj |-> [g.obj EXCEPT ![a] = x] ]
    <3> HIDE DEF x
    <3> QED BY <1>2, <1>6 DEF HeapState
  <2> HIDE DEF x, a, h
  <2>5. e = [ live |-> g.live, obj |-> [g.obj EXCEPT ![a] = z] ]
    <3>1. e = [ live |-> g.live, obj |-> [f.obj EXCEPT ![a].speaking = FALSE] ]
      BY <2>2
    <3>2. f.obj = [g.obj EXCEPT ![a] = y]
      BY <2>2
    <3>3. [f.obj EXCEPT ![a].speaking = FALSE] = [f.obj EXCEPT ![a] = z]
      BY <2>1
    <3> HIDE DEF e, z
    <3>4. [f.obj EXCEPT ![a] = z] = [g.obj EXCEPT ![a] = z]
      BY <2>1, <3>2
    <3> QED BY <3>1, <3>3, <3>4
  <2>6. [f EXCEPT !.obj[a].speaking = FALSE, !.obj[a].recognizer = "running"] =
          [e EXCEPT !.obj[a].recognizer = "running"]
    OBVIOUS
  <2> HIDE DEF e, z
  <2>7. [e EXCEPT !.obj[a].recognizer = "running"] = h
    BY <2>1, <2>3, <2>4, <2>5
  <2> QED BY <2>1, <2>6, <2>7
<1>11. Becomes(h)
  BY <1>3, <1>10
<1> HIDE DEF x, h
<1>12. Typed'
  BY <1>3 DEF Typed, VoiceInv, VoiceShape
<1>13. \A t \in Sessions : Unattended(t)' => Unattended(t)
  BY <1>3 DEF Unattended
<1>14. ~ Unattended(s)'
  BY <1>3 DEF Unattended, s
<1>15. Like(x, Shown(Heap, s))
  BY <1>5 DEF o
<1>16. Got(Heap, s).live[s] \in Objects /\ h = [Got(Heap, s) EXCEPT !.obj[Got(Heap, s).live[s]] = x]
  BY <1>2 DEF h, g
<1> QED BY <1>1, <1>3, <1>11, <1>12, <1>13, <1>14, <1>15, <1>16, LikeStep

\* A socket, or another caller, changes its session's object to one like it.
LEMMA QuietStep ==
  ASSUME VoiceInv, NEW s \in Sessions, NEW x, Like(x, Shown(Heap, s)),
         x.recognizer = Shown(Heap, s).recognizer,
         NEW h, h = [Got(Heap, s) EXCEPT !.obj[Got(Heap, s).live[s]] = x], Becomes(h),
         speech' = speech, asked' = asked, unheard' = unheard,
         socket' \in [ Sockets -> SocketState ], jobs' = jobs \/ jobs' = << >>,
         \A k \in Sockets : \/ socket'[k] = socket[k]
                            \/ /\ socket[k].phase = "open" /\ socket'[k].phase = "sending"
                               /\ socket'[k].object = NoObj
  PROVE  VoiceInv'
<1>1. Got(Heap, s).live[s] \in Objects
  BY GotFine DEF VoiceInv
<1>2. \A t \in Sessions : Unattended(t)' => Unattended(t)
  BY DEF Unattended
<1>3. Typed'
  <2>1. jobs' \in Seq(Objects) /\ Len(jobs') <= MaxJobs
    <3>1. << >> \in Seq(Objects) /\ Len(<< >>) = 0 /\ MaxJobs \in Nat
      BY VoiceAssumption
    <3>2. jobs \in Seq(Objects) /\ Len(jobs) <= MaxJobs
      BY DEF VoiceInv, VoiceShape
    <3>3. CASE jobs' = jobs
      BY <3>2, <3>3
    <3>4. CASE jobs' = << >>
      BY <3>1, <3>4
    <3> QED BY <3>3, <3>4
  <2> QED BY <2>1 DEF Typed, VoiceInv, VoiceShape
<1>4. \A k \in Sockets : \/ socket'[k] = socket[k]
                         \/ /\ socket[k].phase # "turn" /\ socket'[k].phase # "turn"
                            /\ socket'[k].object = NoObj
  OBVIOUS
<1> QED BY <1>1, <1>2, <1>3, <1>4, LikeStep

\* Writing back what is there changes nothing.
LEMMA PutSame ==
  ASSUME VoiceInv, NEW s \in Sessions
  PROVE  LET g == Got(Heap, s) IN g = [g EXCEPT !.obj[g.live[s]] = Shown(Heap, s)]
<1> DEFINE g == Got(Heap, s)
<1>1. Fine(g) /\ g.live[s] \in Objects /\ g.obj[g.live[s]] = Shown(Heap, s)
  BY GotFine DEF VoiceInv
<1>2. g \in HeapState
  BY <1>1 DEF Fine
<1> HIDE DEF g
<1>3. g = [g EXCEPT !.obj[g.live[s]] = Shown(Heap, s)]
  BY <1>1, <1>2 DEF HeapState
<1> QED BY <1>3 DEF g

LEMMA SendingStep ==
  ASSUME VoiceInv, NEW k \in Sockets, socket[k].phase = "open",
         NEW tts \in { "none", "skipped", "queued", "refused", "off" }, Sending(k, tts)
  PROVE  /\ socket' \in [ Sockets -> SocketState ]
         /\ \A l \in Sockets : \/ socket'[l] = socket[l]
                               \/ /\ socket[l].phase = "open" /\ socket'[l].phase = "sending"
                                  /\ socket'[l].object = NoObj
<1> DEFINE x == [Idle EXCEPT !.phase = "sending", !.tts = tts]
<1>1. socket' = [socket EXCEPT ![k] = x]
  BY DEF Sending
<1>2. x \in SocketState /\ x.phase = "sending" /\ x.object = NoObj
  BY SendingTyped
<1> HIDE DEF x
<1> QED BY <1>1, <1>2 DEF VoiceInv, VoiceShape

LEMMA StopRefusedInv ==
  ASSUME VoiceInv, NEW k \in Sockets, NEW u, StopRefused(k, u)
  PROVE  VoiceInv'
<1> DEFINE s == SessionOf[k]
           g == Got(Heap, s)
           x == Shown(Heap, s)
<1>1. s \in Sessions /\ x \in VoiceObject
  BY OwnSession, ShownTyped
<1>2. /\ socket[k].phase = "open" /\ Becomes(g) /\ Sending(k, "none")
      /\ UNCHANGED << jobs, speech, asked, unheard >>
  BY DEF StopRefused, history
<1>3. g = [Got(Heap, s) EXCEPT !.obj[Got(Heap, s).live[s]] = x]
  BY <1>1, PutSame
<1>4. Like(x, Shown(Heap, s))
  BY <1>1 DEF Like
<1>5. /\ socket' \in [ Sockets -> SocketState ]
      /\ \A l \in Sockets : \/ socket'[l] = socket[l]
                            \/ /\ socket[l].phase = "open" /\ socket'[l].phase = "sending"
                               /\ socket'[l].object = NoObj
  BY <1>2, SendingStep
<1> HIDE DEF g, s
<1> QED BY <1>1, <1>2, <1>3, <1>4, <1>5, QuietStep

\* While the session has an object, a handler works on it.
LEMMA HeardShown ==
  ASSUME VoiceInv, NEW k \in Sockets, NEW u, Heard(k, u)
  PROVE  LET s == SessionOf[k]
         IN  /\ s \in Sessions /\ live[s] \in Objects /\ Got(Heap, s) = Heap
             /\ Shown(Heap, s) = obj[live[s]] /\ socket[k].phase = "open"
<1> DEFINE s == SessionOf[k]
<1>1. s \in Sessions /\ live[s] # NoObj /\ socket[k].phase = "open"
  BY OwnSession DEF Heard
<1>2. live[s] \in Objects
  BY <1>1 DEF VoiceInv, VoiceShape
<1>3. Got(Heap, s) = Heap
  BY <1>1 DEF Got, Heap
<1> QED BY <1>1, <1>2, <1>3 DEF Shown, Heap

LEMMA StopIgnoredInv ==
  ASSUME VoiceInv, NEW k \in Sockets, NEW u \in Ids, StopIgnored(k, u)
  PROVE  VoiceInv'
<1> DEFINE s == SessionOf[k]
           o == obj[live[s]]
           x == Cleared(o, StopId(o, u))
           h == [Heap EXCEPT !.obj[live[s]] = x]
<1>1. Heard(k, u) /\ Becomes(h) /\ Sending(k, "skipped") /\ UNCHANGED << jobs, speech, asked, unheard >>
  BY DEF StopIgnored, history
<1>2. /\ s \in Sessions /\ live[s] \in Objects /\ Got(Heap, s) = Heap
      /\ Shown(Heap, s) = o /\ socket[k].phase = "open"
  BY <1>1, HeardShown
<1>3. o \in VoiceObject
  BY <1>2, ShownTyped
<1>4. Like(x, o) /\ x.recognizer = o.recognizer
  <2> HIDE DEF o
  <2>1. CASE x = o
    BY <1>3, <2>1 DEF Like
  <2>2. CASE x # o
    <3> DEFINE y == [o EXCEPT !.current = NoUtterance]
    <3>1. x = y
      BY <2>2 DEF Cleared
    <3>2. /\ y \in VoiceObject /\ y.preferences = o.preferences /\ y.processed = o.processed
          /\ y.muted = o.muted /\ y.speaking = o.speaking /\ y.recognizer = o.recognizer
      BY <1>3 DEF VoiceObject, Ids
    <3> HIDE DEF y, x
    <3> QED BY <3>1, <3>2 DEF Like
  <2> QED BY <2>1, <2>2
<1>5. /\ socket' \in [ Sockets -> SocketState ]
      /\ \A l \in Sockets : \/ socket'[l] = socket[l]
                            \/ /\ socket[l].phase = "open" /\ socket'[l].phase = "sending"
                               /\ socket'[l].object = NoObj
  BY <1>1, <1>2, SendingStep
<1> HIDE DEF x, o, s
<1>6. Heap.live = live
  BY DEF Heap
<1>7. h = [Got(Heap, s) EXCEPT !.obj[Got(Heap, s).live[s]] = x]
  BY <1>2, <1>6
<1> HIDE DEF h
<1> QED BY <1>1, <1>2, <1>4, <1>5, <1>7, QuietStep

LEMMA StopTTSInv ==
  ASSUME VoiceInv, NEW s \in Sessions, StopTTS(s)
  PROVE  VoiceInv'
<1> DEFINE g == Got(Heap, s)
           o == Shown(Heap, s)
           x == Hushed(o)
           h == [g EXCEPT !.obj[g.live[s]] = Hushed(@)]
<1>1. jobs' = << >> /\ Becomes(h) /\ UNCHANGED << socket, speech, asked, unheard >>
  BY DEF StopTTS, history
<1>2. o \in VoiceObject
  BY ShownTyped
<1>3. Fine(g) /\ g.live[s] \in Objects /\ g.obj[g.live[s]] = o
  BY GotFine DEF VoiceInv
<1>4. g \in HeapState
  BY <1>3 DEF Fine
<1>5. h = [g EXCEPT !.obj[g.live[s]] = x]
  <2> HIDE DEF g, o
  <2> QED BY <1>3, <1>4 DEF HeapState
<1>6. Like(x, o) /\ x.recognizer = o.recognizer
  <2> HIDE DEF o
  <2>1. /\ x \in VoiceObject /\ x.preferences = o.preferences /\ x.processed = o.processed
        /\ x.muted = FALSE /\ x.speaking = FALSE /\ x.recognizer = o.recognizer
    BY <1>2 DEF Hushed, VoiceObject
  <2> HIDE DEF x
  <2> QED BY <2>1 DEF Like
<1>7. socket' \in [ Sockets -> SocketState ] /\ \A k \in Sockets : socket'[k] = socket[k]
  BY <1>1 DEF VoiceInv, VoiceShape
<1> HIDE DEF x, h
<1> QED BY <1>1, <1>5, <1>6, <1>7, QuietStep

LEMMA BeginUtteranceInv ==
  ASSUME VoiceInv, NEW k \in Sockets, NEW u \in Utterances, NEW on \in BOOLEAN,
         BeginUtterance(k, u, on)
  PROVE  VoiceInv'
<1> DEFINE s == SessionOf[k]
           g == Got(Heap, s)
           o == Shown(Heap, s)
           e == [ id |-> u, on |-> on ]
           q == o.preferences
           r == Remembered(q, e)
           x == [o EXCEPT !.current = u, !.muted = FALSE, !.speaking = FALSE, !.preferences = r]
           h == [g EXCEPT !.obj[g.live[s]] = x]
           now(v) == IF v = u THEN IF on THEN "on" ELSE "off"
                     ELSE IF v \in IdsOf(q) \ IdsOf(r) THEN "dropped" ELSE asked[s][v]
<1>1. s \in Sessions /\ o \in VoiceObject /\ Short(o)
  BY OwnSession, ShownTyped
<1>2. g.live[s] \in Objects /\ g.obj[g.live[s]] = o
  BY <1>1, GotFine DEF VoiceInv
<1>3. /\ socket[k].phase = "open" /\ Becomes(h)
      /\ asked' = [asked EXCEPT ![s] = [ v \in Utterances |-> now(v) ]]
      /\ UNCHANGED << socket, jobs, speech, unheard >>
  BY <1>2 DEF BeginUtterance
<1>4. e \in Wish /\ e.id = u /\ e.on = on
  BY DEF Wish
<1>5. q \in Seq(Wish) /\ Len(q) <= MaxIds
  BY <1>1 DEF VoiceObject, Short
<1> HIDE DEF e
<1>6. /\ r \in Seq(Wish) /\ Len(r) <= MaxIds
      /\ \E n \in DOMAIN r : r[n] = e
      /\ \A n \in DOMAIN r : r[n] = e \/ \E i \in DOMAIN q : r[n] = q[i] /\ q[i].id # e.id
  <2> HIDE DEF q
  <2>1. e \in Wish
    BY <1>4
  <2>2. r \in Seq(Wish) /\ Len(r) <= MaxIds /\ \E n \in DOMAIN r : r[n] = e
    BY <2>1, <1>5, RememberedEntries
  <2>3. \A n \in DOMAIN r : r[n] = e \/ \E i \in DOMAIN q : r[n] = q[i] /\ q[i].id # e.id
    BY <2>1, <1>5, RememberedEntries
  <2> QED BY <2>2, <2>3
<1> HIDE DEF r, s
<1>7. /\ x \in VoiceObject /\ x.preferences = r /\ x.processed = o.processed
      /\ x.muted = FALSE /\ x.speaking = FALSE /\ x.recognizer = o.recognizer
  <2> HIDE DEF o
  <2> QED BY <1>1, <1>6 DEF VoiceObject, Ids
<1>8. Short(x)
  <2> HIDE DEF x
  <2> QED BY <1>1, <1>6, <1>7 DEF Short
<1> HIDE DEF x
<1>9. /\ Fine(h) /\ Shown(h, s) = x
      /\ \A t \in Sessions : t # s => Shown(h, t) = Shown(Heap, t)
  BY <1>1, <1>7, <1>8, GotPut
<1> HIDE DEF h, g
<1>10. Turns' /\ Owned(live)'
  BY <1>1, <1>3, <1>7, <1>9, TurnsUntouched
<1>11. Listening'
  <2>1. \A t \in Sessions : Unattended(t)' => Unattended(t)
    BY <1>3 DEF Unattended
  <2>2. \A t \in Sessions : Shown(h, t).recognizer = Shown(Heap, t).recognizer
    BY <1>7, <1>9
  <2> QED BY <1>3, <1>9, <2>1, <2>2, ListeningKept
<1>12. asked \in [ Sessions -> [ Utterances -> { "on", "off", "dropped" } ] ]
  BY DEF VoiceInv, VoiceShape
<1> HIDE DEF now
<1>13. /\ \A t \in Sessions : t # s => asked'[t] = asked[t]
       /\ \A v \in Utterances : asked'[s][v] = now(v)
  BY <1>1, <1>3, <1>12
<1>14. Typed'
  <2>1. \A v \in Utterances : now(v) \in { "on", "off", "dropped" }
    BY <1>1, <1>12 DEF now
  <2>2. asked' \in [ Sessions -> [ Utterances -> { "on", "off", "dropped" } ] ]
    BY <1>1, <1>3, <1>12, <2>1
  <2> QED BY <1>3, <2>2 DEF Typed, VoiceInv, VoiceShape
<1>15. Wishes'
  <2>1. \A t \in Sessions : Shown(Heap, t)' = Shown(h, t)
    BY <1>3, <1>9, BecomesFine DEF VoiceInv
  <2>2. /\ \A i \in DOMAIN q : q[i].id \in Utterances /\ q[i].on \in BOOLEAN
        /\ \A i \in DOMAIN q : asked[s][q[i].id] = IF q[i].on THEN "on" ELSE "off"
        /\ \A v \in Utterances : asked[s][v] = "on" => v \in IdsOf(q)
    <3>1. \A i \in DOMAIN q : q[i] \in Wish
      <4> HIDE DEF q
      <4> QED BY <1>5
    <3> QED BY <3>1, <1>1 DEF VoiceInv, Wishes, Wish
  <2>3. \A n \in DOMAIN r : r[n].id \in IdsOf(r)
    BY DEF IdsOf
  <2>4. \A n \in DOMAIN r : now(r[n].id) = IF r[n].on THEN "on" ELSE "off"
    <3> TAKE n \in DOMAIN r
    <3>1. CASE r[n] = e
      BY <3>1, <1>4 DEF now
    <3>2. CASE \E i \in DOMAIN q : r[n] = q[i] /\ q[i].id # e.id
      BY <3>2, <1>4, <2>2, <2>3 DEF now
    <3> QED BY <3>1, <3>2, <1>6
  <2>5. \A n \in DOMAIN r : r[n].id \in Utterances
    BY <1>4, <1>6, <2>2
  <2>6. \A v \in Utterances : now(v) = "on" => v \in IdsOf(r)
    <3> TAKE v \in Utterances
    <3>1. CASE v = u
      BY <3>1, <1>4, <1>6 DEF IdsOf
    <3>2. CASE v # u
      BY <3>2, <2>2 DEF now
    <3> QED BY <3>1, <3>2
  <2>7. \A t \in Sessions : t # s =>
          LET p == Shown(h, t).preferences
          IN  /\ \A i \in DOMAIN p : asked'[t][p[i].id] = IF p[i].on THEN "on" ELSE "off"
              /\ \A v \in Utterances : asked'[t][v] = "on" => v \in IdsOf(p)
    BY <1>9, <1>13 DEF VoiceInv, Wishes
  <2>8. LET p == Shown(h, s).preferences
        IN  /\ \A i \in DOMAIN p : asked'[s][p[i].id] = IF p[i].on THEN "on" ELSE "off"
            /\ \A v \in Utterances : asked'[s][v] = "on" => v \in IdsOf(p)
    BY <1>7, <1>9, <1>13, <2>4, <2>5, <2>6
  <2> QED BY <2>1, <2>7, <2>8 DEF Wishes
<1> QED BY <1>3, <1>9, <1>10, <1>11, <1>14, <1>15, StepKeeps

-----------------------------------------------------------------------------
(* Turns *)

LEMMA StartTurnInv ==
  ASSUME VoiceInv, NEW k \in Sockets, NEW u \in Ids, StartTurn(k, u)
  PROVE  VoiceInv'
<1> DEFINE s == SessionOf[k]
           o == obj[live[s]]
           id == StopId(o, u)
           e == [ id |-> id, answered |-> FALSE ]
           q == o.processed
           r == Remembered(q, e)
           y == Hushed(o)
           x == [y EXCEPT !.processed = r]
           h == [Heap EXCEPT !.obj[live[s]] = x]
           new == [Idle EXCEPT !.phase = "turn", !.id = id, !.object = live[s]]
           lose(l) == socket[l].object = live[s] /\ socket[l].id \in IdsOf(q) \ IdsOf(r)
<1>1. /\ Heard(k, u) /\ ~ Duplicate(o, id) /\ Becomes(h) /\ jobs' = << >>
      /\ socket' = [ l \in Sockets |-> IF l = k THEN new
                                       ELSE IF lose(l) THEN [socket[l] EXCEPT !.forgotten = TRUE]
                                       ELSE socket[l] ]
      /\ UNCHANGED << speech, asked, unheard >>
  BY DEF StartTurn
<1>2. /\ s \in Sessions /\ live[s] \in Objects /\ Got(Heap, s) = Heap
      /\ Shown(Heap, s) = o /\ socket[k].phase = "open"
  BY <1>1, HeardShown
<1>3. o \in VoiceObject /\ Short(o)
  BY <1>2, ShownTyped
<1>4. id \in Ids
  <2> HIDE DEF o
  <2> QED BY <1>3 DEF StopId, VoiceObject
<1>5. q \in Seq(Heard1) /\ Len(q) <= MaxIds
  <2> HIDE DEF o
  <2> QED BY <1>3 DEF VoiceObject, Short
<1> HIDE DEF id
<1>6. e \in Heard1 /\ e.id = id
  BY <1>4 DEF Heard1
<1> HIDE DEF e
<1>7. r \in Seq(Heard1) /\ Len(r) <= MaxIds /\ \E n \in DOMAIN r : r[n] = e
  <2> HIDE DEF q
  <2>1. e \in Heard1
    BY <1>6
  <2>2. r \in Seq(Heard1) /\ Len(r) <= MaxIds
    BY <2>1, <1>5, RememberedEntries
  <2>3. \E n \in DOMAIN r : r[n] = e
    BY <2>1, <1>5, RememberedEntries
  <2> QED BY <2>2, <2>3
<1>8. \A n \in DOMAIN r : r[n] = e \/ \E i \in DOMAIN q : r[n] = q[i] /\ q[i].id # e.id
  <2> HIDE DEF q
  <2>1. e \in Heard1
    BY <1>6
  <2> QED BY <2>1, <1>5, RememberedEntries
<1> HIDE DEF r
<1>9. /\ x \in VoiceObject /\ x.preferences = o.preferences /\ x.processed = r
      /\ x.muted = FALSE /\ x.speaking = FALSE /\ x.recognizer = o.recognizer
  <2> HIDE DEF o
  <2>1. /\ y \in VoiceObject /\ y.preferences = o.preferences
        /\ y.muted = FALSE /\ y.speaking = FALSE /\ y.recognizer = o.recognizer
    BY <1>3 DEF Hushed, VoiceObject
  <2> HIDE DEF y
  <2> QED BY <1>7, <2>1 DEF VoiceObject
<1>10. Short(x)
  <2> HIDE DEF x, o
  <2> QED BY <1>3, <1>7, <1>9 DEF Short
<1> HIDE DEF x
<1>11. h = [Got(Heap, s) EXCEPT !.obj[Got(Heap, s).live[s]] = x]
  BY <1>2 DEF Heap
<1> HIDE DEF h
<1>12. /\ Fine(h) /\ h.live = Got(Heap, s).live /\ Shown(h, s) = x
       /\ \A t \in Sessions : t # s => Shown(h, t) = Shown(Heap, t)
  BY <1>2, <1>9, <1>10, <1>11, GotPut
<1>13. /\ live' = live
       /\ \A t \in Sessions : Shown(Heap, t)' = Shown(h, t)
  <2>1. live' = h.live /\ \A t \in Sessions : Shown(Heap, t)' = Shown(h, t)
    BY <1>1, <1>12, BecomesFine DEF VoiceInv
  <2> QED BY <1>2, <1>12, <2>1 DEF Heap
<1>14. /\ new \in SocketState /\ new.phase = "turn" /\ new.id = id /\ new.object = live[s]
       /\ new.forgotten = FALSE
  BY <1>2, <1>4 DEF Idle, SocketState
<1> HIDE DEF new, s, o
<1>15. socket \in [ Sockets -> SocketState ]
  BY DEF VoiceInv, VoiceShape
<1>16. socket'[k] = new
  BY <1>1
<1>17. ASSUME NEW l \in Sockets, l # k
       PROVE  /\ socket'[l] \in SocketState
              /\ socket'[l].phase = socket[l].phase /\ socket'[l].id = socket[l].id
              /\ socket'[l].object = socket[l].object
              /\ socket'[l].forgotten = FALSE => socket[l].forgotten = FALSE /\ ~ lose(l)
  <2>1. CASE lose(l)
    <3>1. socket'[l] = [socket[l] EXCEPT !.forgotten = TRUE]
      BY <1>1, <1>17, <2>1
    <3> HIDE DEF lose
    <3> QED BY <1>15, <2>1, <3>1 DEF SocketState
  <2>2. CASE ~ lose(l)
    <3>1. socket'[l] = socket[l]
      BY <1>1, <1>17, <2>2
    <3> HIDE DEF lose
    <3> QED BY <1>15, <2>2, <3>1
  <2> QED BY <2>1, <2>2
<1>18. Typed'
  <2>1. socket' \in [ Sockets -> SocketState ]
    <3>1. \A l \in Sockets : socket'[l] \in SocketState
      BY <1>14, <1>16, <1>17
    <3> QED BY <1>1, <3>1
  <2>2. jobs' \in Seq(Objects) /\ Len(jobs') <= MaxJobs
    BY <1>1, VoiceAssumption
  <2> QED BY <1>1, <2>1, <2>2 DEF Typed, VoiceInv, VoiceShape
<1> HIDE DEF lose
<1>19. Owned(live) /\ TurnsHaveObjects /\ Answered /\ Recalled /\ OneTurnPerUtterance
  BY DEF VoiceInv, Turns
<1>0. live[s] # NoObj
  BY <1>2 DEF Objects, NoObj
<1>20. Owned(live)'
  <2>1. ASSUME NEW l \in Sockets, NEW t \in Sessions, socket'[l].object = live[t], live[t] # NoObj
        PROVE  t = SessionOf[l]
    <3>1. CASE l = k
      <4>1. live[s] = live[t]
        BY <2>1, <3>1, <1>14, <1>16
      <4>2. s = t
        BY <4>1, <2>1, <1>2, <1>19 DEF Owned
      <4> QED BY <4>2, <3>1 DEF s
    <3>2. CASE l # k
      BY <2>1, <3>2, <1>17, <1>19 DEF Owned
    <3> QED BY <3>1, <3>2
  <2>2. \A t, v \in Sessions : live[t] = live[v] /\ live[t] # NoObj => t = v
    BY <1>19 DEF Owned
  <2> QED BY <1>13, <2>1, <2>2 DEF Owned
<1>21. TurnsHaveObjects'
  <2>1. \A l \in Sockets : socket'[l].object # NoObj <=> socket'[l].phase = "turn"
    <3> TAKE l \in Sockets
    <3>1. CASE l = k
      BY <3>1, <1>0, <1>14, <1>16
    <3>2. CASE l # k
      BY <3>2, <1>17, <1>19 DEF TurnsHaveObjects
    <3> QED BY <3>1, <3>2
  <2> QED BY <2>1 DEF TurnsHaveObjects
<1>22. Answered'
  <2>1. ASSUME NEW t \in Sessions, t # s
        PROVE  Settled(Shown(h, t).processed, live[t], socket')
    <3>1. Settled(Shown(Heap, t).processed, live[t], socket)
      BY <1>19 DEF Answered
    <3>2. \A l \in Sockets : socket[l].phase = "turn" => l # k
      BY <1>2
    <3>3. \A l \in Sockets : socket[l].phase = "turn" =>
            /\ socket'[l].phase = "turn" /\ socket'[l].id = socket[l].id
            /\ socket'[l].object = socket[l].object
      BY <3>2, <1>17
    <3>4. Settled(Shown(Heap, t).processed, live[t], socket')
      BY <3>1, <3>3 DEF Settled
    <3> QED BY <1>12, <2>1, <3>4
  <2>2. Settled(r, live[s], socket')
    <3>1. Settled(q, live[s], socket)
      BY <1>2, <1>19 DEF Answered
    <3>2. \A l \in Sockets : socket[l].phase = "turn" => l # k
      BY <1>2
    <3>3. ASSUME NEW n \in DOMAIN r
          PROVE  \/ r[n].answered = TRUE
                 \/ \E l \in Sockets : /\ socket'[l].phase = "turn" /\ socket'[l].id = r[n].id
                                       /\ socket'[l].object = live[s]
      <4>1. CASE r[n] = e
        BY <4>1, <1>6, <1>14, <1>16
      <4>2. CASE \E i \in DOMAIN q : r[n] = q[i]
        BY <4>2, <1>17, <3>1, <3>2 DEF Settled
      <4> QED BY <4>1, <4>2, <1>8
    <3> QED BY <3>3 DEF Settled
  <2>3. \A t \in Sessions : Settled(Shown(h, t).processed, live[t], socket')
    BY <2>1, <2>2, <1>9, <1>12
  <2> QED BY <1>13, <2>3 DEF Answered
<1>23. Recalled'
  <2> SUFFICES ASSUME NEW l \in Sockets, socket'[l].phase = "turn", socket'[l].forgotten = FALSE,
                      socket'[l].object = live[SessionOf[l]]
               PROVE  socket'[l].id \in IdsOf(Shown(h, SessionOf[l]).processed)
    BY <1>13, OwnSession DEF Recalled
  <2>1. CASE l = k
    <3>1. id \in IdsOf(r)
      BY <1>6, <1>7 DEF IdsOf
    <3> QED BY <2>1, <3>1, <1>9, <1>12, <1>14, <1>16 DEF s
  <2>2. CASE l # k
    <3>1. /\ socket[l].phase = "turn" /\ socket[l].forgotten = FALSE /\ ~ lose(l)
          /\ socket'[l].id = socket[l].id /\ socket[l].object = live[SessionOf[l]]
      BY <1>17, <2>2
    <3>2. socket[l].id \in IdsOf(Shown(Heap, SessionOf[l]).processed)
      BY <1>19, <3>1 DEF Recalled
    <3>3. CASE SessionOf[l] = s
      BY <1>2, <1>9, <1>12, <3>1, <3>2, <3>3 DEF lose
    <3>4. CASE SessionOf[l] # s
      BY <1>12, <3>1, <3>2, <3>4, OwnSession
    <3> QED BY <3>3, <3>4
  <2> QED BY <2>1, <2>2
<1>24. OneTurnPerUtterance'
  <2>1. ASSUME NEW l \in Sockets, l # k, socket[l].phase = "turn", socket[l].object = live[s],
               socket[l].id = id
        PROVE  socket[l].forgotten # FALSE
    <3>1. s = SessionOf[l]
      BY <1>2, <1>19, <2>1 DEF Owned, Objects, NoObj
    <3>2. id \notin IdsOf(q)
      BY <1>1 DEF Duplicate, HasProcessed, IdsOf
    <3> QED BY <1>2, <1>19, <2>1, <3>1, <3>2 DEF Recalled
  <2>2. \A l \in Sockets : l # k /\ socket[l].phase = "turn" /\ socket[l].object = live[s]
                           /\ socket[l].id = id => socket'[l].forgotten = TRUE
    <3>1. \A l \in Sockets : l # k => socket'[l].forgotten = TRUE \/ socket[l].forgotten = FALSE
      BY <1>17 DEF SocketState
    <3> QED BY <2>1, <3>1
  <2>3. \A l \in Sockets : l # k /\ socket[l].forgotten => socket'[l].forgotten
    <3>1. \A l \in Sockets : l # k => /\ socket'[l].forgotten \in BOOLEAN /\ socket[l].forgotten \in BOOLEAN
                                      /\ socket'[l].forgotten = FALSE => socket[l].forgotten = FALSE
      BY <1>15, <1>17 DEF SocketState
    <3> QED BY <3>1
  <2> SUFFICES ASSUME NEW l \in Sockets, NEW m \in Sockets, l # m,
                      socket'[l].phase = "turn", socket'[m].phase = "turn",
                      socket'[l].object = socket'[m].object, socket'[l].id = socket'[m].id
               PROVE  socket'[l].forgotten \/ socket'[m].forgotten
    BY DEF OneTurnPerUtterance
  <2>4. CASE l = k
    BY <2>2, <2>4, <1>14, <1>16, <1>17
  <2>5. CASE m = k
    BY <2>2, <2>5, <1>14, <1>16, <1>17
  <2>6. CASE l # k /\ m # k
    BY <2>3, <2>6, <1>17, <1>19 DEF OneTurnPerUtterance
  <2> QED BY <2>4, <2>5, <2>6
<1>25. Wishes'
  <2>1. \A t \in Sessions : Shown(h, t).preferences = Shown(Heap, t).preferences
    BY <1>2, <1>9, <1>12
  <2> QED BY <1>1, <1>12, <2>1, WishesKept
<1>26. Listening'
  <2>1. \A t \in Sessions : Unattended(t)' => Unattended(t)
    BY <1>14, <1>16, <1>17 DEF Unattended
  <2>2. \A t \in Sessions : Shown(h, t).recognizer = Shown(Heap, t).recognizer
    BY <1>2, <1>9, <1>12
  <2> QED BY <1>1, <1>12, <2>1, <2>2, ListeningKept
<1>27. Turns'
  BY <1>21, <1>22, <1>23, <1>24 DEF Turns
<1> QED BY <1>1, <1>12, <1>18, <1>20, <1>25, <1>26, <1>27, StepKeeps
\* The processed utterances of an object whose turn of u is answered.
After(p, u) == [ i \in DOMAIN p |-> IF p[i].id = u THEN [p[i] EXCEPT !.answered = TRUE] ELSE p[i] ]

Answers(r, p, u) ==
  /\ r \in Seq(Heard1) /\ Len(r) = Len(p) /\ IdsOf(r) = IdsOf(p)
  /\ \A i \in DOMAIN r : \/ r[i].answered = TRUE
                         \/ p[i].id # u /\ i \in DOMAIN p /\ r[i] = p[i]

LEMMA AfterTyped ==
  ASSUME NEW p \in Seq(Heard1), NEW u
  PROVE  Answers(After(p, u), p, u)
<1> DEFINE r == After(p, u)
<1>1. /\ p \in [ 1 .. Len(p) -> Heard1 ] /\ Len(p) \in Nat /\ DOMAIN p = 1 .. Len(p)
  OBVIOUS
<1>2. \A i \in 1 .. Len(p) : [p[i] EXCEPT !.answered = TRUE] \in Heard1
                             /\ [p[i] EXCEPT !.answered = TRUE].id = p[i].id
                             /\ [p[i] EXCEPT !.answered = TRUE].answered = TRUE
  BY <1>1 DEF Heard1
<1>3. /\ DOMAIN r = 1 .. Len(p)
      /\ \A i \in 1 .. Len(p) : r[i] = IF p[i].id = u THEN [p[i] EXCEPT !.answered = TRUE] ELSE p[i]
  BY <1>1 DEF After
<1>4. r = [ i \in 1 .. Len(p) |-> r[i] ]
  BY <1>1 DEF After
<1> HIDE DEF r
<1>5. \A i \in 1 .. Len(p) : r[i] \in Heard1 /\ r[i].id = p[i].id
  BY <1>1, <1>2, <1>3
<1>6. r \in [ 1 .. Len(p) -> Heard1 ]
  BY <1>4, <1>5
<1>7. r \in Seq(Heard1) /\ Len(r) = Len(p)
  BY <1>1, <1>6
<1>8. IdsOf(r) = IdsOf(p)
  BY <1>1, <1>3, <1>5 DEF IdsOf
<1>9. \A i \in DOMAIN r : r[i].answered = TRUE \/ (p[i].id # u /\ i \in DOMAIN p /\ r[i] = p[i])
  BY <1>1, <1>2, <1>3
<1> QED BY <1>7, <1>8, <1>9 DEF r, Answers

LEMMA EndTurnInv ==
  ASSUME VoiceInv, NEW k \in Sockets, NEW tts \in { "queued", "refused", "off" }, EndTurn(k, tts)
  PROVE  VoiceInv'
<1> DEFINE s == SessionOf[k]
           u == socket[k].id
           a == socket[k].object
           g == Got(Heap, s)
           z == g.obj[a]
           c == Cleared(z, u)
           r == After(c.processed, u)
           x == [c EXCEPT !.processed = r]
           h == [g EXCEPT !.obj[a] = x]
           after == [Idle EXCEPT !.phase = "sending", !.tts = tts]
<1>1. /\ socket[k].phase = "turn"
      /\ tts = "queued" => Len(jobs) < MaxJobs
      /\ jobs' = IF tts = "queued" THEN Append(jobs, g.live[s]) ELSE jobs
      /\ Becomes(h) /\ socket' = [socket EXCEPT ![k] = after]
      /\ UNCHANGED << speech, asked, unheard >>
  BY DEF EndTurn, Sending, After
<1>2. /\ socket \in [ Sockets -> SocketState ]
      /\ jobs \in Seq(Objects) /\ Len(jobs) <= MaxJobs
      /\ asked \in [ Sessions -> [ Utterances -> { "on", "off", "dropped" } ] ]
  BY DEF VoiceInv, VoiceShape
<1>3. a \in Objects /\ a # NoObj
  <2>1. a # NoObj
    BY <1>1 DEF VoiceInv, Turns, TurnsHaveObjects
  <2> QED BY <1>2, <2>1 DEF SocketState
<1>4. s \in Sessions
  BY OwnSession
<1>5. /\ Fine(g) /\ g.live[s] \in Objects
      /\ \A t \in Sessions : Shown(g, t) = Shown(Heap, t)
  BY <1>4, GotFine DEF VoiceInv
<1>6. after \in SocketState /\ after.phase = "sending" /\ after.object = NoObj
  BY SendingTyped
<1> HIDE DEF after, g, s
<1>7. g \in HeapState /\ z \in VoiceObject /\ Short(z)
  BY <1>3, <1>5 DEF Fine, HeapState
<1> HIDE DEF z
<1>8. /\ c \in VoiceObject /\ c.preferences = z.preferences /\ c.processed = z.processed
      /\ c.muted = z.muted /\ c.speaking = z.speaking /\ c.recognizer = z.recognizer
  BY <1>7 DEF Cleared, VoiceObject, Ids
<1>9. /\ r \in Seq(Heard1) /\ Len(r) = Len(z.processed) /\ IdsOf(r) = IdsOf(z.processed)
      /\ \A i \in DOMAIN r : \/ r[i].answered = TRUE
                             \/ /\ z.processed[i].id # u /\ i \in DOMAIN z.processed
                                /\ r[i] = z.processed[i]
  <2> DEFINE p == z.processed
  <2>1. p \in Seq(Heard1)
    BY <1>7 DEF VoiceObject
  <2>2. r = After(p, u)
    BY <1>8
  <2>3. Answers(r, p, u)
    <3> HIDE DEF p, r, u
    <3> QED BY <2>1, <2>2, AfterTyped
  <2> QED BY <2>3 DEF Answers
<1> HIDE DEF c, r
<1>10. /\ x \in VoiceObject /\ x.preferences = z.preferences /\ x.processed = r
       /\ x.muted = z.muted /\ x.speaking = z.speaking /\ x.recognizer = z.recognizer
  BY <1>8, <1>9 DEF VoiceObject
<1> HIDE DEF x
<1>11. Short(x)
  BY <1>7, <1>9, <1>10 DEF Short
<1> HIDE DEF a
<1>12. /\ h \in HeapState /\ h.live = g.live /\ h.obj[a] = x
       /\ \A p \in Objects : p # a => h.obj[p] = g.obj[p]
  BY <1>3, <1>7, <1>10 DEF HeapState
<1> HIDE DEF h
<1>13. Fine(h)
  <2>1. h.obj[a].muted = TRUE => g.obj[a].muted = TRUE
    BY <1>10, <1>12 DEF z
  <2>2. h.obj[a].speaking = TRUE => g.obj[a].speaking = TRUE
    BY <1>10, <1>12 DEF z
  <2>3. Short(h.obj[a])
    BY <1>11, <1>12
  <2> QED BY <1>3, <1>5, <1>12, <2>1, <2>2, <2>3, PutFine
<1>14. \A t \in Sessions : g.live[t] = a => Shown(h, t) = x /\ Shown(Heap, t) = z /\ live[t] = a
  <2> TAKE t \in Sessions
  <2> HAVE g.live[t] = a
  <2>1. Shown(h, t) = x /\ Shown(g, t) = z
    BY <1>3, <1>12 DEF Shown, z
  <2>2. g.live[t] = live[t]
    BY <1>3, <1>5 DEF Fine, a
  <2> QED BY <1>5, <2>1, <2>2
<1>15. \A t \in Sessions : g.live[t] # a => Shown(h, t) = Shown(Heap, t)
  <2> TAKE t \in Sessions
  <2> HAVE g.live[t] # a
  <2>1. g.live[t] \in Objects \union { NoObj }
    BY <1>7 DEF HeapState
  <2>2. Shown(h, t) = Shown(g, t)
    BY <1>12, <2>1 DEF Shown
  <2> QED BY <1>5, <2>2
<1>16. socket'[k] = after /\ \A l \in Sockets : l # k => socket'[l] = socket[l]
  BY <1>1, <1>2
<1>17. NoTurnBegins
  BY <1>6, <1>16 DEF NoTurnBegins
<1>18. SameProcessed(h)
  <2> SUFFICES ASSUME NEW t \in Sessions, h.live[t] # NoObj
               PROVE  LET q == Shown(h, t).processed
                          p == Shown(Heap, t).processed
                      IN  /\ IdsOf(q) = IdsOf(p)
                          /\ \A i \in DOMAIN q :
                               \/ q[i].answered = TRUE
                               \/ /\ \E j \in DOMAIN p : q[i] = p[j]
                                  /\ \A l \in Sockets :
                                       socket[l].phase = "turn" /\ socket[l].id = q[i].id
                                       /\ socket[l].object = live[t] => socket'[l] = socket[l]
    BY DEF SameProcessed
  <2>1. CASE g.live[t] = a
    <3>1. Shown(h, t).processed = r /\ Shown(Heap, t).processed = z.processed
      BY <1>10, <1>14, <2>1
    <3>2. ASSUME NEW i \in DOMAIN r, r[i].answered # TRUE
          PROVE  /\ \E j \in DOMAIN z.processed : r[i] = z.processed[j]
                 /\ \A l \in Sockets : socket[l].id = r[i].id => socket'[l] = socket[l]
      <4>1. r[i].id # u /\ i \in DOMAIN z.processed /\ r[i] = z.processed[i]
        BY <1>9, <3>2
      <4> QED BY <4>1, <1>16
    <3> QED BY <1>9, <3>1, <3>2
  <2>2. CASE g.live[t] # a
    <3>1. live[t] # a
      BY <1>3, <1>5, <1>12, <2>2 DEF Fine
    <3>2. \A l \in Sockets : socket[l].object = live[t] => socket'[l] = socket[l]
      BY <1>16, <3>1 DEF a
    <3> QED BY <1>15, <2>2, <3>2
  <2> QED BY <2>1, <2>2
<1>19. Turns' /\ Owned(live)'
  BY <1>1, <1>13, <1>17, <1>18, TurnsKept
<1>20. Wishes'
  <2>1. \A t \in Sessions : Shown(h, t).preferences = Shown(Heap, t).preferences
    BY <1>10, <1>14, <1>15
  <2> QED BY <1>1, <1>13, <2>1, WishesKept
<1>21. Listening'
  <2>1. \A t \in Sessions : Unattended(t)' => Unattended(t)
    BY <1>6, <1>16 DEF Unattended
  <2>2. \A t \in Sessions : Shown(h, t).recognizer = Shown(Heap, t).recognizer
    BY <1>10, <1>14, <1>15
  <2> QED BY <1>1, <1>13, <2>1, <2>2, ListeningKept
<1>22. Typed'
  <2>1. socket' \in [ Sockets -> SocketState ]
    BY <1>1, <1>2, <1>6
  <2>2. jobs' \in Seq(Objects) /\ Len(jobs') <= MaxJobs
    <3>1. CASE tts = "queued"
      <4>1. jobs' = Append(jobs, g.live[s]) /\ Len(jobs) < MaxJobs
        BY <1>1, <3>1
      <4>2. jobs' \in Seq(Objects) /\ Len(jobs') = Len(jobs) + 1 /\ Len(jobs) \in Nat /\ MaxJobs \in Nat
        BY <1>2, <1>5, <4>1, VoiceAssumption
      <4> QED BY <4>1, <4>2
    <3>2. CASE tts # "queued"
      BY <1>1, <1>2, <3>2
    <3> QED BY <3>1, <3>2
  <2> QED BY <1>1, <1>2, <2>1, <2>2 DEF Typed
<1> QED BY <1>1, <1>13, <1>19, <1>20, <1>21, <1>22, StepKeeps
-----------------------------------------------------------------------------
(* Theorems *)

LEMMA UnmovedInv ==
  ASSUME VoiceInv, UNCHANGED voiceVars
  PROVE  VoiceInv'
<1>1. UNCHANGED << live, obj, socket, jobs, speech, asked, unheard >>
  BY DEF voiceVars
<1>2. VoiceShape' /\ QuietMeansUnmuted'
  BY <1>1 DEF VoiceInv, VoiceShape, QuietMeansUnmuted
<1>3. \A t \in Sessions : Unattended(t)' => Unattended(t)
  BY <1>1 DEF Unattended
<1> QED BY <1>1, <1>2, <1>3, StillStep

LEMMA VoiceInitInv ==
  ASSUME Init
  PROVE  VoiceInv
<1> DEFINE x == [Closed EXCEPT !.phase = "new"]
<1>1. /\ live = [ s \in Sessions |-> NoObj ] /\ obj = [ o \in Objects |-> NewObject ]
      /\ socket = [ k \in Sockets |-> x ] /\ jobs = << >> /\ unheard = {}
      /\ speech = [ step |-> "idle", object |-> NoObj ]
      /\ asked = [ s \in Sessions |-> [ u \in Utterances |-> "off" ] ]
  BY DEF Init
<1>2. x \in SocketState /\ x.phase = "new" /\ x.object = NoObj
  BY DEF Closed, Idle, SocketState, Ids
<1> HIDE DEF x
<1>3. \A k \in Sockets : socket[k].phase = "new" /\ socket[k].object = NoObj
  BY <1>1, <1>2
<1>4. \A s \in Sessions : live[s] = NoObj /\ Shown(Heap, s) = NewObject
  BY <1>1 DEF Shown, Heap
<1>5. VoiceShape
  <2>1. jobs \in Seq(Objects) /\ Len(jobs) <= MaxJobs
    BY <1>1, VoiceAssumption
  <2> QED BY <1>1, <1>2, <2>1, NewObjectTyped DEF VoiceShape
<1>6. Owned(live)
  BY <1>4 DEF Owned
<1>7. Turns
  BY <1>3, <1>4 DEF Turns, TurnsHaveObjects, Answered, Settled, Recalled, OneTurnPerUtterance,
                    NewObject
<1>8. Wishes
  BY <1>1, <1>4 DEF Wishes, NewObject
<1>9. Listening /\ QuietMeansUnmuted
  BY <1>1, <1>4 DEF Listening, QuietMeansUnmuted, NewObject
<1> QED BY <1>5, <1>6, <1>7, <1>8, <1>9 DEF VoiceInv

LEMMA VoiceStepInv ==
  ASSUME VoiceInv, [Next]_vars
  PROVE  VoiceInv'
<1>1. CASE UNCHANGED vars
  BY <1>1, UnmovedInv DEF vars
<1>2. ASSUME NEW k \in Sockets, Handle(k) PROVE VoiceInv'
  BY <1>2, ConnectInv, RefuseInv, BeginUtteranceInv, AudioChunkInv, DisconnectInv,
     StopRefusedInv, StopIgnoredInv, StartTurnInv DEF Handle
<1>3. ASSUME NEW k \in Sockets, Proceed(k) PROVE VoiceInv'
  <2>1. CASE TurnRuns(k)
    BY <2>1, UnmovedInv DEF TurnRuns
  <2> QED BY <1>3, <2>1, SendInv, EndTurnInv DEF Proceed
<1>4. ASSUME NEW s \in Sessions, Evict(s) \/ StopTTS(s) PROVE VoiceInv'
  BY <1>4, EvictInv, StopTTSInv
<1>5. CASE Take \/ OnStart \/ OnFinish
  BY <1>5, TakeInv, CallbackInv
<1> QED BY <1>1, <1>2, <1>3, <1>4, <1>5 DEF Next

\* What the sessions, their objects and the sockets are to each other, and what
\* is asked and spoken, is kept by every step.
THEOREM VoiceInductive == Spec => []VoiceInv
BY VoiceInitInv, VoiceStepInv, PTL DEF Spec

\* The sockets use their sessions' locks as SessionLocks says: its theorems
\* hold of the turns that they start, run and end.
THEOREM VoiceUsesLocks == Spec => LocksSpec
<1>1. Init => LocksInit
  BY DEF Init
<1>2. [Next]_vars => [LocksNext]_lockVars
  <2> SUFFICES ASSUME [Next]_vars PROVE LocksNext \/ UNCHANGED lockVars
    OBVIOUS
  <2>1. CASE UNCHANGED vars
    BY <2>1 DEF vars
  <2>2. ASSUME NEW k \in Sockets, Handle(k) PROVE GetLock(k) \/ Release(k) \/ UNCHANGED lockVars
    BY <2>2 DEF Handle, Connect, Refuse, BeginUtterance, AudioChunk, Disconnect, StopRefused,
                StopIgnored, StartTurn, FailTurn
  <2>3. ASSUME NEW k \in Sockets, Proceed(k) PROVE Resume(k) \/ Release(k) \/ UNCHANGED lockVars
    BY <2>3 DEF Proceed, TurnRuns, Send, EndTurn
  <2>4. ASSUME NEW s \in Sessions, Evict(s) \/ StopTTS(s) PROVE UNCHANGED lockVars
    BY <2>4 DEF Evict, StopTTS
  <2>5. CASE Take \/ OnStart \/ OnFinish
    BY <2>5 DEF Take, OnStart, OnFinish
  <2> QED BY <2>1, <2>2, <2>3, <2>4, <2>5, VoiceAssumption DEF Next, LocksNext
<1> QED BY <1>1, <1>2, PTL DEF Spec, LocksSpec

\* The state's types; an utterance sent to a session again, on its socket or on
\* another, has no second turn beside the first unless the session has
\* forgotten it; and without a socket no recognizer listens.
THEOREM VoiceIsSound == Spec => []VoiceInvariant
<1>1. VoiceInv /\ LocksTypeOK => VoiceInvariant
  <2> SUFFICES ASSUME VoiceInv, LocksTypeOK PROVE VoiceInvariant
    OBVIOUS
  <2>1. VoiceTypeOK
    BY DEF VoiceInv, VoiceShape, VoiceTypeOK, VoiceObject, SocketState, Short
  <2>2. NobodyListensAlone
    BY DEF VoiceInv, Listening, Unattended, Shown, Heap, NobodyListensAlone
  <2> QED BY <2>1, <2>2 DEF VoiceInvariant, VoiceInv, Turns
<1> QED BY <1>1, VoiceInductive, VoiceUsesLocks, LocksTyped, PTL

\* What a session remembers as processed was answered, or its turn is on: a
\* failed turn's utterance can be sent again.
THEOREM NothingProcessedInVain == Spec => []ProcessedIsAnswered
<1>1. VoiceInv => ProcessedIsAnswered
  <2> SUFFICES ASSUME VoiceInv, NEW s \in Sessions, live[s] # NoObj, NEW u \in Ids,
                      HasProcessed(obj[live[s]], u)
               PROVE  \/ \E i \in DOMAIN obj[live[s]].processed :
                           obj[live[s]].processed[i] = [ id |-> u, answered |-> TRUE ]
                      \/ \E k \in Sockets : /\ socket[k].phase = "turn"
                                            /\ socket[k].id = u /\ socket[k].object = live[s]
    BY DEF ProcessedIsAnswered
  <2> DEFINE q == Shown(Heap, s).processed
  <2>1. q = obj[live[s]].processed
    BY DEF Shown, Heap
  <2>2. q \in Seq(Heard1)
    BY ShownTyped DEF VoiceObject
  <2>3. Settled(q, live[s], socket)
    BY DEF VoiceInv, Turns, Answered
  <2> HIDE DEF q
  <2>4. PICK i \in DOMAIN q : q[i].id = u
    BY <2>1 DEF HasProcessed
  <2>5. q[i] \in Heard1
    BY <2>2
  <2>6. q[i].answered = TRUE => q[i] = [ id |-> u, answered |-> TRUE ]
    BY <2>4, <2>5 DEF Heard1
  <2> QED BY <2>1, <2>3, <2>4, <2>6 DEF Settled
<1> QED BY <1>1, VoiceInductive, PTL

\* A session shows speech only while a reply of its own is spoken.
THEOREM SpeechIsItsOwn == Spec => []QuietMeansUnmuted
<1>1. VoiceInv => QuietMeansUnmuted
  BY DEF VoiceInv
<1> QED BY <1>1, VoiceInductive, PTL

\* A turn that ends in a reply is an EndTurn.
LEMMA RepliesEndTurns ==
  ASSUME VoiceInv, Next, NEW k \in Sockets, socket[k].phase = "turn",
         socket'[k].phase = "sending"
  PROVE  \E tts \in { "queued", "refused", "off" } : EndTurn(k, tts)
<1>1. socket \in [ Sockets -> SocketState ]
  BY DEF VoiceInv, VoiceShape
<1>2. socket' # socket
  OBVIOUS
<1>3. ASSUME NEW l \in Sockets, NEW x, socket' = [socket EXCEPT ![l] = x] PROVE l = k /\ x = socket'[k]
  BY <1>1, <1>3
<1>4. Closed.phase = "closed" /\ Idle.phase = "open"
  BY DEF Closed, Idle
<1>5. ASSUME NEW l \in Sockets, Handle(l) PROVE FALSE
  <2>1. ~ \E o \in { "started", "unmade", "unstarted" }, d \in BOOLEAN : Connect(l, o, d)
    BY <1>3, <1>4 DEF Connect
  <2>2. ~ Refuse(l) /\ ~ Disconnect(l) /\ ~ FailTurn(l)
    BY <1>3, <1>4 DEF Refuse, Disconnect, FailTurn, Leave
  <2>3. ~ AudioChunk(l) /\ ~ \E u \in Utterances, on \in BOOLEAN : BeginUtterance(l, u, on)
    BY <1>2 DEF AudioChunk, BeginUtterance
  <2>4. ASSUME NEW u \in Ids PROVE ~ StopRefused(l, u) /\ ~ StopIgnored(l, u)
    BY <1>3 DEF StopRefused, StopIgnored, Sending, Heard
  <2>5. ASSUME NEW u \in Ids, StartTurn(l, u) PROVE FALSE
    <3>1. socket[l].phase = "open"
      BY <2>5 DEF StartTurn, Heard
    <3>2. socket'[k] = socket[k] \/ socket'[k] = [socket[k] EXCEPT !.forgotten = TRUE]
      BY <2>5, <3>1 DEF StartTurn
    <3>3. [socket[k] EXCEPT !.forgotten = TRUE].phase = socket[k].phase
      BY <1>1 DEF SocketState
    <3> QED BY <3>2, <3>3
  <2> QED BY <1>5, <2>1, <2>2, <2>3, <2>4, <2>5 DEF Handle
<1>6. ASSUME NEW l \in Sockets, Proceed(l)
      PROVE  \E tts \in { "queued", "refused", "off" } : EndTurn(k, tts)
  <2>1. ~ TurnRuns(l)
    BY <1>2 DEF TurnRuns, voiceVars
  <2>2. ~ Send(l)
    BY <1>3, <1>4 DEF Send
  <2>3. PICK tts \in { "queued", "refused", "off" } : EndTurn(l, tts)
    BY <1>6, <2>1, <2>2 DEF Proceed
  <2>4. l = k
    BY <1>3, <2>3 DEF EndTurn, Sending
  <2> QED BY <2>3, <2>4
<1>7. ASSUME NEW s \in Sessions PROVE ~ Evict(s) /\ ~ StopTTS(s)
  BY <1>2 DEF Evict, StopTTS
<1>8. ~ Take /\ ~ OnStart /\ ~ OnFinish
  BY <1>2 DEF Take, OnStart, OnFinish
<1> QED BY <1>5, <1>6, <1>7, <1>8 DEF Next

\* A reply is spoken, or not, as the customer wished with the utterance, unless
\* the session has dropped the wish.
THEOREM WishesAreFollowed == Spec => PreferenceIsKept
<1> DEFINE Follows ==
      \A k \in Sockets : socket[k].phase = "turn" /\ socket'[k].phase = "sending" =>
        LET u == socket[k].id
            wish == asked[SessionOf[k]][u]
        IN  u \in Utterances /\ wish # "dropped" =>
              (wish = "off" <=> socket'[k].tts = "off")
<1>1. VoiceInv /\ [Next]_vars => [Follows]_vars
  <2> SUFFICES ASSUME VoiceInv, Next, NEW k \in Sockets, socket[k].phase = "turn",
                      socket'[k].phase = "sending", socket[k].id \in Utterances,
                      asked[SessionOf[k]][socket[k].id] # "dropped"
               PROVE  asked[SessionOf[k]][socket[k].id] = "off" <=> socket'[k].tts = "off"
    OBVIOUS
  <2> DEFINE s == SessionOf[k]
             u == socket[k].id
             q == Shown(Heap, s).preferences
  <2>1. PICK tts \in { "queued", "refused", "off" } : EndTurn(k, tts)
    BY RepliesEndTurns
  <2>2. s \in Sessions
    BY OwnSession
  <2>3. q \in Seq(Wish)
    BY <2>2, ShownTyped DEF VoiceObject
  <2>4. /\ \A i \in DOMAIN q : asked[s][q[i].id] = IF q[i].on THEN "on" ELSE "off"
        /\ asked[s][u] = "on" => u \in IdsOf(q)
        /\ asked[s][u] \in { "on", "off" }
    BY <2>2 DEF VoiceInv, Wishes, VoiceShape
  <2>5. socket'[k].tts = tts
    <3> DEFINE x == [Idle EXCEPT !.phase = "sending", !.tts = tts]
    <3>1. socket' = [socket EXCEPT ![k] = x]
      BY <2>1 DEF EndTurn, Sending
    <3>2. x.tts = tts
      BY DEF Idle
    <3> HIDE DEF x
    <3> QED BY <3>1, <3>2 DEF VoiceInv, VoiceShape
  <2>6. tts = "off" <=> ~ Preference(Shown(Heap, s), u)
    <3>1. tts \in Speakable(Got(Heap, s).obj[Got(Heap, s).live[s]], u)
      BY <2>1 DEF EndTurn
    <3>2. Got(Heap, s).obj[Got(Heap, s).live[s]] = Shown(Heap, s)
      BY <2>2, GotFine DEF VoiceInv
    <3> QED BY <3>1, <3>2 DEF Speakable
  <2>7. Preference(Shown(Heap, s), u) <=> \E i \in DOMAIN q : q[i] = [ id |-> u, on |-> TRUE ]
    BY DEF Preference
  <2> HIDE DEF q, s, u
  <2>8. \A i \in DOMAIN q : q[i] \in Wish
    BY <2>3
  <2>9. (\E i \in DOMAIN q : q[i] = [ id |-> u, on |-> TRUE ]) <=> asked[s][u] = "on"
    <3>1. ASSUME NEW i \in DOMAIN q, q[i] = [ id |-> u, on |-> TRUE ] PROVE asked[s][u] = "on"
      BY <2>4, <3>1
    <3>2. ASSUME asked[s][u] = "on" PROVE \E i \in DOMAIN q : q[i] = [ id |-> u, on |-> TRUE ]
      <4>1. PICK i \in DOMAIN q : q[i].id = u
        BY <2>4, <3>2 DEF IdsOf
      <4>2. q[i] \in Wish /\ q[i].on = TRUE
        BY <2>4, <2>8, <3>2, <4>1 DEF Wish
      <4> QED BY <4>1, <4>2 DEF Wish
    <3> QED BY <3>1, <3>2
  <2>10. asked[s][u] = "off" <=> socket'[k].tts = "off"
    BY <2>4, <2>5, <2>6, <2>7, <2>9
  <2> QED BY <2>10 DEF s, u
<1> HIDE DEF Follows
<1>2. Spec => [][Follows]_vars
  BY <1>1, VoiceInductive, PTL DEF Spec
<1> QED BY <1>2 DEF PreferenceIsKept, Follows
=============================================================================
