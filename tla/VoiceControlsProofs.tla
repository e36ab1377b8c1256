------------------------- MODULE VoiceControlsProofs --------------------------
(* What TLAPS proves of VoiceControls for every number of starts and of        *)
(* sockets: the panel's types and ownership, that audio stays inside an        *)
(* utterance, and that a recording has its microphone.                         *)
EXTENDS VoiceControls, TLAPS

-----------------------------------------------------------------------------
(* The inductive invariant *)

\* A call that waits for a socket waits for one that exists, and alone.
WaitsAlone ==
  /\ \A i \in Starts : call[i] = "open" => awaits[i] \in Sockets
  /\ \A i, j \in Starts :
       call[i] = "open" /\ call[j] = "open" /\ awaits[i] = awaits[j] => i = j

\* The stages at which a call of startVoice has a microphone of its own.
Holding == { i \in Starts : call[i] \in { "module", "open" } }

\* The sockets that are, or may yet be, open.
Usable == { k \in Sockets : sock[k] \in { "open", "connecting" } }

\* While no two calls of startVoice have overlapped, there is one owner of
\* everything but the stray streams: the call in progress, or else the recording,
\* and wsRef is the only usable socket.
OneOwner ==
  /\ \A i, j \in InProgress : i = j
  /\ recording => InProgress = {}
  /\ live \ stray # {} => recording \/ Holding # {}
  /\ live \subseteq { streamRef } \union stray
  /\ Usable \subseteq { wsRef }
  /\ \A k \in Sockets : sock[k] = "connecting" => \E i \in Starts : call[i] = "open" /\ awaits[i] = k
  /\ ~ mounted => live \subseteq stray /\ Usable = {}

\* What a call has set up it keeps until something cleans up, and a recording has
\* announced its utterance on the open socket.
SetUp ==
  /\ \A i \in Holding : i \notin cut => streamRef = i /\ i \in live
  /\ recording /\ utterance \notin cut => streamRef = utterance /\ utterance \in live
  /\ recording /\ wsRef # None /\ sock[wsRef] = "open" => said[wsRef] = "start"

PanelIInv ==
  /\ PanelTypeOK
  /\ WaitsAlone
  /\ sendPcm => recording
  /\ ~ overlap => OneOwner /\ SetUp

-----------------------------------------------------------------------------

LEMMA InitPanel == Init => PanelIInv
BY VoiceControlsAssumption DEF Init, PanelIInv, PanelTypeOK, WaitsAlone, OneOwner, SetUp, Holding, Usable,
     InProgress, Starts, Sockets, None

-----------------------------------------------------------------------------
(* What a cleanup does, and that it keeps the invariant *)

SocketStates == { "none", "connecting", "open", "closing", "aborted", "closed" }

\* The resources are let go; a socket only moves away from being usable.
CleanedUp(close, s, on) ==
  /\ sendPcm' = FALSE /\ recording' = FALSE
  /\ streamRef' = None /\ processorRef' = None
  /\ live' = on \ { streamRef } /\ nodes' \subseteq nodes
  /\ sock' \in [ Sockets -> SocketStates ]
  /\ expected' \in BOOLEAN /\ wsRef' \in Sockets \union { None }
  /\ \A k \in Sockets : \/ sock'[k] = s[k]
                        \/ s[k] = "open" /\ sock'[k] = "closing"
                        \/ s[k] = "connecting" /\ sock'[k] = "aborted"
  /\ close => /\ wsRef' = None
              /\ \A k \in Sockets : k = wsRef => sock'[k] \notin { "open", "connecting" }
  /\ ~ close => wsRef' = wsRef /\ sock' = s

LEMMA CleanUpEffect ==
  ASSUME PanelTypeOK, NEW close \in BOOLEAN, NEW s \in [ Sockets -> SocketStates ],
         NEW on, CleanUp(close, s, on)
  PROVE  CleanedUp(close, s, on)
<1> USE DEF CleanedUp
<1>1. \A k \in Sockets : Closing(s[k]) = IF s[k] = "open" THEN "closing"
                                         ELSE IF s[k] = "connecting" THEN "aborted" ELSE s[k]
  BY DEF Closing, SocketStates
<1>2. /\ sendPcm' = FALSE /\ recording' = FALSE
      /\ streamRef' = None /\ processorRef' = None
      /\ live' = on \ { streamRef } /\ nodes' \subseteq nodes
  BY DEF CleanUp, ReleaseAudio, RecordingAfter
<1>3. CASE close
  <2>1. /\ expected' = TRUE /\ wsRef' = None
        /\ sock' = [ k \in Sockets |-> IF k = wsRef THEN Closing(s[k]) ELSE s[k] ]
    BY <1>3 DEF CleanUp, CloseSocket
  <2> QED
    BY <1>1, <1>2, <1>3, <2>1 DEF SocketStates
<1>4. CASE ~ close
  <2>1. sock' = s /\ expected' = expected /\ wsRef' = wsRef
    BY <1>4 DEF CleanUp
  <2> QED
    BY <1>2, <1>4, <2>1 DEF PanelTypeOK
<1> QED
  BY <1>3, <1>4

\* s is what the sockets' states are once some of the open ones have closed.
SomeClosed(s) ==
  \A k \in Sockets : s[k] = sock[k] \/ (sock[k] \in { "open", "closing" } /\ s[k] = "closed")

LEMMA NoneClosed == SomeClosed(sock)
BY DEF SomeClosed

\* A cleanup by a handler other than startVoice's own.
LEMMA CleanUpKeeps ==
  ASSUME PanelIInv, NEW close \in BOOLEAN,
         NEW s \in [ Sockets -> SocketStates ], CleanUp(close, s, live), Cuts(None),
         SomeClosed(s),
         UNCHANGED << utterance, call, awaits, overlap, stray >>,
         { mounted', canRecord', fetching', starting' } \subseteq BOOLEAN,
         ~ mounted' => close \/ ~ mounted,
         said' \in [ Sockets -> { "nothing", "start", "stop" } ]
  PROVE  PanelIInv'
<1> USE DEF CleanedUp, SomeClosed, None
<1>1. sock \in [ Sockets -> SocketStates ] /\ PanelTypeOK
  BY DEF PanelIInv, PanelTypeOK, SocketStates
<1>2. CleanedUp(close, s, live)
  BY <1>1, CleanUpEffect
<1>3. cut' = cut \union InProgress /\ InProgress \subseteq Starts /\ InProgress' = InProgress
      /\ Holding' = Holding /\ Holding \subseteq InProgress
  BY DEF Cuts, InProgress, Holding, Starts
<1>4. PanelTypeOK'
  <2>1. \A i \in Starts : call[i] = "open" => awaits[i] \in Sockets /\ sock'[awaits[i]] \in { "connecting", "aborted" }
    BY <1>1, <1>2 DEF PanelIInv, WaitsAlone, PanelTypeOK
  <2>2. { mounted, canRecord, fetching, starting, recording, sendPcm, expected, overlap }' \subseteq BOOLEAN
    <3>1. overlap' \in BOOLEAN
      BY <1>1 DEF PanelTypeOK
    <3> QED
      BY <1>2, <3>1
  <2>3. nodes' \subseteq Starts /\ live' \subseteq Starts /\ cut' \subseteq Starts /\ stray' \subseteq Starts
    BY <1>1, <1>2, <1>3 DEF PanelTypeOK
  <2>4. { streamRef, processorRef, utterance }' \subseteq Starts \union { None }
    BY <1>1, <1>2 DEF PanelTypeOK
  <2> QED
    BY <1>1, <1>2, <2>1, <2>2, <2>3, <2>4 DEF PanelTypeOK, SocketStates
<1>5. WaitsAlone'
  BY DEF PanelIInv, WaitsAlone
<1>6. ASSUME ~ overlap PROVE OneOwner' /\ SetUp'
  <2>1. OneOwner /\ SetUp
    BY <1>6 DEF PanelIInv
  <2>2. live' \subseteq stray'
    BY <1>2, <2>1 DEF OneOwner
  <2>3. Usable' \subseteq Usable /\ Usable' \subseteq { wsRef' }
    BY <1>2, <2>1 DEF OneOwner, Usable
  <2>4. ~ mounted' => Usable' = {}
    BY <1>2, <2>1, <2>3 DEF OneOwner, Usable
  <2>5. \A k \in Sockets : sock'[k] = "connecting" => \E i \in Starts : call[i] = "open" /\ awaits[i] = k
    BY <1>2, <2>1 DEF OneOwner
  <2>6. OneOwner'
    BY <1>2, <1>3, <2>1, <2>2, <2>3, <2>4, <2>5 DEF OneOwner
  <2>7. SetUp'
    BY <1>2, <1>3 DEF SetUp
  <2> QED
    BY <2>6, <2>7
<1> QED
  BY <1>2, <1>4, <1>5, <1>6 DEF PanelIInv

\* Call i gives up: it cleans up in its catch block.
LEMMA FailsKeeps ==
  ASSUME PanelIInv, NEW i \in Starts, i \in InProgress,
         NEW s \in [ Sockets -> SocketStates ], NEW on, Fails(i, s, on),
         \/ on = live /\ stray' = stray
         \/ on = live \union { i } /\ stray' = stray \union { i },
         \A k \in Sockets : \/ s[k] = sock[k]
                            \/ /\ call[i] = "open" /\ k = awaits[i]
                               /\ s[k] = "closed" \/ (s[k] = "open" /\ sock[k] = "connecting"),
         UNCHANGED << mounted, canRecord, fetching, utterance, awaits, said, overlap >>
  PROVE  PanelIInv'
<1> USE DEF CleanedUp, None
<1>1. PanelTypeOK
  BY DEF PanelIInv
<1>2. CleanedUp(TRUE, s, on)
  BY <1>1, CleanUpEffect DEF Fails
<1>3. /\ cut' = cut \union (InProgress \ { i }) /\ starting' = FALSE
      /\ call' = [ call EXCEPT ![i] = "done" ]
  BY DEF Fails, Cuts
<1>4. InProgress' = InProgress \ { i } /\ Holding' = Holding \ { i } /\ Holding' \subseteq InProgress'
  BY <1>1, <1>3 DEF PanelTypeOK, InProgress, Holding
<1>5. \A j \in Starts : call'[j] = "open" =>
         awaits[j] \in Sockets /\ sock'[awaits[j]] \in { "connecting", "aborted" }
  <2> SUFFICES ASSUME NEW j \in Starts, call'[j] = "open"
               PROVE  awaits[j] \in Sockets /\ sock'[awaits[j]] \in { "connecting", "aborted" }
    OBVIOUS
  <2>1. call[j] = "open" /\ j # i
    BY <1>1, <1>3 DEF PanelTypeOK
  <2>2. awaits[j] \in Sockets /\ sock[awaits[j]] \in { "connecting", "aborted" }
    BY <1>1, <2>1 DEF PanelIInv, WaitsAlone, PanelTypeOK
  <2>3. s[awaits[j]] = sock[awaits[j]]
    BY <2>1, <2>2 DEF PanelIInv, WaitsAlone
  <2> QED
    BY <1>2, <2>2, <2>3
<1>6. PanelTypeOK'
  <2>1. { mounted, canRecord, fetching, starting, recording, sendPcm, expected, overlap }' \subseteq BOOLEAN
    <3>1. { mounted, canRecord, fetching, overlap }' \subseteq BOOLEAN
      BY <1>1 DEF PanelTypeOK
    <3> QED
      BY <1>2, <1>3, <3>1
  <2>2. nodes' \subseteq Starts /\ live' \subseteq Starts /\ cut' \subseteq Starts /\ stray' \subseteq Starts
    BY <1>1, <1>2, <1>3 DEF PanelTypeOK, InProgress
  <2>3. { streamRef, processorRef, utterance }' \subseteq Starts \union { None }
    BY <1>1, <1>2 DEF PanelTypeOK
  <2>4. call' \in [ Starts -> { "none", "mic", "module", "open", "done" } ]
    BY <1>1, <1>3 DEF PanelTypeOK
  <2> QED
    BY <1>1, <1>2, <1>5, <2>1, <2>2, <2>3, <2>4 DEF PanelTypeOK, SocketStates
<1>7. WaitsAlone'
  BY <1>1, <1>3 DEF PanelIInv, WaitsAlone, PanelTypeOK
<1>8. ASSUME ~ overlap PROVE OneOwner' /\ SetUp'
  <2>1. OneOwner /\ SetUp
    BY <1>8 DEF PanelIInv
  <2>2. InProgress' = {} /\ Holding' = {} /\ live' \subseteq stray'
    BY <1>2, <1>4, <2>1 DEF OneOwner
  <2>3. \A k \in Sockets : sock'[k] \notin { "open", "connecting" }
    <3> SUFFICES ASSUME NEW k \in Sockets, sock'[k] \in { "open", "connecting" } PROVE FALSE
      OBVIOUS
    <3>1. s[k] = sock'[k] /\ k # wsRef
      BY <1>2
    <3>2. sock[k] \in { "open", "connecting" }
      BY <3>1
    <3> QED
      BY <2>1, <3>1, <3>2 DEF OneOwner, Usable
  <2>4. OneOwner'
    BY <1>2, <2>2, <2>3 DEF OneOwner, Usable
  <2>5. SetUp'
    BY <1>2, <2>2 DEF SetUp
  <2> QED
    BY <2>4, <2>5
<1> QED
  BY <1>2, <1>6, <1>7, <1>8 DEF PanelIInv

-----------------------------------------------------------------------------
(* The handlers, one lemma each *)

LEMMA StartVoiceKeeps ==
  ASSUME PanelIInv, NEW i \in Starts, StartVoice(i)
  PROVE  PanelIInv'
<1> USE DEF None
<1>1. PanelTypeOK /\ WaitsAlone
  BY DEF PanelIInv
<1>2. /\ call' = [ call EXCEPT ![i] = "mic" ] /\ call[i] = "none" /\ ~ recording
      /\ UNCHANGED << mounted, recording, sendPcm, wsRef, streamRef, utterance, awaits,
                      sock, said, live, cut, stray >>
  BY DEF StartVoice, MayStart, refs
<1>3. PanelTypeOK' /\ WaitsAlone'
  BY <1>1, <1>2 DEF StartVoice, refs, PanelTypeOK, WaitsAlone
<1>4. InProgress' = InProgress \union { i } /\ Holding' = Holding /\ Usable' = Usable
  BY <1>1, <1>2 DEF InProgress, Holding, Usable, PanelTypeOK
<1>5. ASSUME ~ overlap' PROVE OneOwner' /\ SetUp'
  <2>1. ~ overlap /\ InProgress = {}
    BY <1>5 DEF StartVoice
  <2>2. OneOwner /\ SetUp
    BY <2>1 DEF PanelIInv
  <2>3. \A k \in Sockets : sock'[k] = "connecting" => \E j \in Starts : call'[j] = "open" /\ awaits'[j] = k
    BY <1>1, <1>2, <2>1, <2>2 DEF OneOwner, InProgress
  <2> QED
    BY <1>2, <1>4, <2>1, <2>2, <2>3 DEF OneOwner, SetUp
<1> QED
  BY <1>2, <1>3, <1>5 DEF PanelIInv

LEMMA MicGrantedKeeps ==
  ASSUME PanelIInv, NEW i \in Starts, MicGranted(i), UNCHANGED overlap
  PROVE  PanelIInv'
<1> USE DEF None
<1>1. PanelTypeOK /\ WaitsAlone /\ i \in InProgress /\ sock \in [ Sockets -> SocketStates ]
  BY DEF PanelIInv, MicGranted, InProgress, PanelTypeOK, SocketStates
<1>2. CASE ~ mounted /\ Fails(i, sock, live) /\ UNCHANGED stray
  BY <1>1, <1>2, FailsKeeps DEF MicGranted
<1>3. CASE LosesStream(i)
  BY <1>1, <1>3, FailsKeeps DEF MicGranted, LosesStream
<1>4. CASE mounted /\ HoldsStream(i)
  <2>1. /\ streamRef' = i /\ live' = live \union { i } /\ call[i] = "mic" /\ call' = [ call EXCEPT ![i] = "module" ]
        /\ UNCHANGED << starting, recording, sendPcm, expected, wsRef, processorRef, sock, nodes, cut,
                        mounted, canRecord, fetching, utterance, awaits, said, overlap, stray >>
    BY <1>4 DEF MicGranted, HoldsStream
  <2>2. PanelTypeOK' /\ WaitsAlone'
    BY <1>1, <2>1 DEF PanelTypeOK, WaitsAlone
  <2>3. InProgress' = InProgress /\ Holding' = Holding \union { i } /\ Usable' = Usable
    BY <1>1, <2>1 DEF InProgress, Holding, Usable, PanelTypeOK
  <2>4. ASSUME ~ overlap PROVE OneOwner' /\ SetUp'
    <3>1. OneOwner /\ SetUp
      BY <2>4 DEF PanelIInv
    <3>2. ~ recording /\ Holding = {} /\ live \subseteq stray
      BY <1>1, <2>1, <3>1 DEF OneOwner, Holding, InProgress
    <3>3. \A k \in Sockets : sock'[k] = "connecting" => \E j \in Starts : call'[j] = "open" /\ awaits'[j] = k
      BY <1>1, <2>1, <3>1, <3>2 DEF OneOwner, Holding
    <3>4. OneOwner'
      BY <1>4, <2>1, <2>3, <3>1, <3>2, <3>3 DEF OneOwner
    <3>5. SetUp'
      BY <2>1, <2>3, <3>1, <3>2 DEF SetUp
    <3> QED
      BY <3>4, <3>5
  <2> QED
    BY <2>1, <2>2, <2>4 DEF PanelIInv
<1> QED
  BY <1>2, <1>3, <1>4 DEF MicGranted

LEMMA AudioFailsKeeps ==
  ASSUME PanelIInv, NEW i \in Starts, AudioFails(i), Others
  PROVE  PanelIInv'
<1>1. i \in InProgress /\ sock \in [ Sockets -> SocketStates ]
  BY DEF PanelIInv, AudioFails, InProgress, PanelTypeOK, SocketStates
<1> QED
  BY <1>1, FailsKeeps DEF AudioFails, Others

\* Call i announces its utterance on the open socket k.
LEMMA AnnouncesKeeps ==
  ASSUME PanelIInv, mounted, NEW i \in Starts, NEW k \in Sockets, Announces(i, k),
         i \in Holding, nodes' \subseteq Starts, processorRef' \in Starts \union { None },
         sock' = [ sock EXCEPT ![k] = "open" ],
         \/ call[i] = "module" /\ k = wsRef /\ sock[k] = "open"
         \/ call[i] = "open" /\ k = awaits[i] /\ sock[k] = "connecting",
         UNCHANGED << mounted, canRecord, fetching, expected, wsRef, streamRef, awaits, live, cut, overlap, stray >>
  PROVE  PanelIInv'
<1> USE DEF None
<1>1. PanelTypeOK /\ WaitsAlone
  BY DEF PanelIInv
<1>2. /\ said' = [ said EXCEPT ![k] = "start" ] /\ utterance' = i
      /\ sendPcm' = TRUE /\ recording' = TRUE /\ starting' = FALSE
      /\ call' = [ call EXCEPT ![i] = "done" ]
  BY DEF Announces, Told
<1>3. PanelTypeOK'
  <2>1. \A j \in Starts : call'[j] = "open" => sock'[awaits[j]] \in { "connecting", "aborted" }
    <3> SUFFICES ASSUME NEW j \in Starts, call'[j] = "open" PROVE sock'[awaits[j]] \in { "connecting", "aborted" }
      OBVIOUS
    <3>1. call[j] = "open" /\ j # i
      BY <1>1, <1>2 DEF PanelTypeOK
    <3>2. awaits[j] \in Sockets /\ sock[awaits[j]] \in { "connecting", "aborted" } /\ awaits[j] # k
      BY <1>1, <3>1 DEF WaitsAlone, PanelTypeOK
    <3> QED
      BY <1>1, <3>2 DEF PanelTypeOK
  <2>2. { mounted, canRecord, fetching, starting, recording, sendPcm, expected, overlap }' \subseteq BOOLEAN
    <3>1. { mounted, canRecord, fetching, expected, overlap }' \subseteq BOOLEAN
      BY <1>1 DEF PanelTypeOK
    <3> QED
      BY <1>2, <3>1
  <2> QED
    BY <1>1, <1>2, <2>1, <2>2 DEF PanelTypeOK
<1>4. WaitsAlone'
  BY <1>1, <1>2 DEF WaitsAlone, PanelTypeOK
<1>5. InProgress' = InProgress \ { i } /\ Holding' = Holding \ { i } /\ i \in InProgress
  BY <1>1, <1>2 DEF InProgress, Holding, PanelTypeOK
<1>6. Usable' = Usable /\ k \in Usable
  BY <1>1 DEF Usable, PanelTypeOK
<1>7. ASSUME ~ overlap PROVE OneOwner' /\ SetUp'
  <2>1. OneOwner /\ SetUp
    BY <1>7 DEF PanelIInv
  <2>2. InProgress' = {} /\ Holding' = {} /\ wsRef = k
    BY <1>5, <1>6, <2>1 DEF OneOwner, Holding, InProgress
  <2>3. \A n \in Sockets : sock'[n] # "connecting"
    BY <1>1, <1>6, <2>1, <2>2 DEF OneOwner, Usable, PanelTypeOK
  <2>4. OneOwner'
    BY <1>2, <1>6, <2>1, <2>2, <2>3 DEF OneOwner
  <2>5. SetUp'
    BY <1>1, <1>2, <2>1, <2>2 DEF SetUp, PanelTypeOK
  <2> QED
    BY <2>4, <2>5
<1> QED
  BY <1>2, <1>3, <1>4, <1>7 DEF PanelIInv

\* Call i creates a socket.
LEMMA ConnectsKeeps ==
  ASSUME PanelIInv, mounted, NEW i \in Starts, call[i] = "module", Connects(i),
         nodes' \subseteq Starts, processorRef' \in Starts \union { None },
         ~ (wsRef # None /\ sock[wsRef] = "open"),
         UNCHANGED << mounted, canRecord, fetching, streamRef, live, cut, overlap, stray >>
  PROVE  PanelIInv'
<1> USE DEF None
<1>1. PanelTypeOK /\ WaitsAlone
  BY DEF PanelIInv
<1>2. PICK k \in Sockets : /\ sock[k] = "none"
                           /\ sock' = [ sock EXCEPT ![k] = "connecting" ]
                           /\ wsRef' = k /\ expected' = FALSE
                           /\ awaits' = [ awaits EXCEPT ![i] = k ]
                           /\ call' = [ call EXCEPT ![i] = "open" ]
                           /\ UNCHANGED << starting, recording, sendPcm, utterance, said >>
  BY DEF Connects
<1>3. PanelTypeOK'
  <2>1. \A j \in Starts : call'[j] = "open" => sock'[awaits'[j]] \in { "connecting", "aborted" }
    <3> SUFFICES ASSUME NEW j \in Starts, call'[j] = "open" PROVE sock'[awaits'[j]] \in { "connecting", "aborted" }
      OBVIOUS
    <3>1. CASE j = i
      BY <1>1, <1>2, <3>1 DEF PanelTypeOK
    <3>2. CASE j # i
      <4>1. call[j] = "open" /\ awaits'[j] = awaits[j]
        BY <1>1, <1>2, <3>2 DEF PanelTypeOK
      <4>2. awaits[j] \in Sockets /\ sock[awaits[j]] \in { "connecting", "aborted" } /\ awaits[j] # k
        BY <1>1, <1>2, <4>1 DEF WaitsAlone, PanelTypeOK
      <4> QED
        BY <1>1, <1>2, <4>1, <4>2 DEF PanelTypeOK
    <3> QED
      BY <3>1, <3>2
  <2>2. { mounted, canRecord, fetching, starting, recording, sendPcm, expected, overlap }' \subseteq BOOLEAN
    BY <1>1, <1>2 DEF PanelTypeOK
  <2> QED
    BY <1>1, <1>2, <2>1, <2>2 DEF PanelTypeOK
<1>4. WaitsAlone'
  BY <1>1, <1>2 DEF WaitsAlone, PanelTypeOK
<1>5. InProgress' = InProgress /\ Holding' = Holding /\ i \in InProgress /\ i \in Holding
  BY <1>1, <1>2 DEF InProgress, Holding, PanelTypeOK
<1>6. Usable' = Usable \union { k }
  BY <1>1, <1>2 DEF Usable, PanelTypeOK
<1>7. ASSUME ~ overlap PROVE OneOwner' /\ SetUp'
  <2>1. OneOwner /\ SetUp
    BY <1>7 DEF PanelIInv
  <2>2. ~ recording /\ \A n \in Sockets : sock[n] # "connecting"
    BY <1>5, <2>1 DEF OneOwner, InProgress
  <2>3. Usable = {}
    BY <2>1, <2>2 DEF OneOwner, Usable, Sockets
  <2>4. \A n \in Sockets : sock'[n] = "connecting" => \E j \in Starts : call'[j] = "open" /\ awaits'[j] = n
    BY <1>1, <1>2, <2>2 DEF PanelTypeOK
  <2>5. OneOwner'
    BY <1>2, <1>5, <1>6, <2>1, <2>3, <2>4 DEF OneOwner
  <2>6. SetUp'
    BY <1>2, <1>5, <2>1, <2>2 DEF SetUp
  <2> QED
    BY <2>5, <2>6
<1> QED
  BY <1>2, <1>3, <1>4, <1>7 DEF PanelIInv

LEMMA ModuleLoadedKeeps ==
  ASSUME PanelIInv, NEW i \in Starts, ModuleLoaded(i), Others
  PROVE  PanelIInv'
<1> USE DEF None
<1>1. PanelTypeOK /\ i \in InProgress /\ i \in Holding /\ call[i] = "module"
      /\ sock \in [ Sockets -> SocketStates ]
  BY DEF PanelIInv, ModuleLoaded, InProgress, Holding, PanelTypeOK, SocketStates
<1>2. CASE ~ mounted
  BY <1>1, <1>2, FailsKeeps DEF ModuleLoaded, Others
<1>3. CASE mounted
  <2>1. /\ nodes' = nodes \union { i } /\ processorRef' = i
        /\ UNCHANGED << live, streamRef, cut, mounted, canRecord, fetching, overlap, stray >>
    BY <1>3 DEF ModuleLoaded, Others
  <2>2. nodes' \subseteq Starts /\ processorRef' \in Starts \union { None }
    BY <1>1, <2>1 DEF PanelTypeOK
  <2>3. CASE wsRef # None /\ sock[wsRef] = "open"
    <3>1. Announces(i, wsRef) /\ UNCHANGED << wsRef, expected, awaits, sock >>
      BY <1>3, <2>3 DEF ModuleLoaded
    <3>2. wsRef \in Sockets /\ sock' = [ sock EXCEPT ![wsRef] = "open" ]
      BY <1>1, <2>3, <3>1 DEF PanelTypeOK
    <3> QED
      BY <1>1, <1>3, <2>1, <2>2, <2>3, <3>1, <3>2, AnnouncesKeeps
  <2>4. CASE ~ (wsRef # None /\ sock[wsRef] = "open")
    <3>1. Connects(i)
      BY <1>3, <2>4 DEF ModuleLoaded
    <3> QED
      BY <1>1, <1>3, <2>1, <2>2, <2>4, <3>1, ConnectsKeeps
  <2> QED
    BY <2>3, <2>4
<1> QED
  BY <1>2, <1>3

LEMMA OpenedKeeps ==
  ASSUME PanelIInv, NEW i \in Starts, Opened(i), Others
  PROVE  PanelIInv'
<1>1. /\ PanelTypeOK /\ i \in InProgress /\ i \in Holding /\ call[i] = "open"
      /\ awaits[i] \in Sockets /\ sock[awaits[i]] = "connecting"
      /\ sock \in [ Sockets -> SocketStates ]
  BY DEF PanelIInv, WaitsAlone, Opened, InProgress, Holding, PanelTypeOK, SocketStates
<1> DEFINE opened == [ sock EXCEPT ![awaits[i]] = "open" ]
<1>2. /\ opened \in [ Sockets -> SocketStates ]
      /\ \A k \in Sockets : opened[k] = sock[k] \/ (k = awaits[i] /\ opened[k] = "open" /\ sock[k] = "connecting")
  <2>1. \A k \in Sockets : opened[k] = IF k = awaits[i] THEN "open" ELSE sock[k]
    BY <1>1
  <2>2. "open" \in SocketStates
    BY DEF SocketStates
  <2>3. opened \in [ Sockets -> SocketStates ]
    BY <1>1, <2>2
  <2> HIDE DEF opened
  <2> QED
    BY <1>1, <2>1, <2>3
<1>3. CASE ~ mounted
  <2>1. Fails(i, opened, live) /\ UNCHANGED << mounted, canRecord, fetching, utterance, awaits, said, overlap, stray >>
    BY <1>3 DEF Opened, Others
  <2> HIDE DEF opened
  <2> QED
    BY <1>1, <1>2, <2>1, FailsKeeps
<1>4. CASE mounted
  <2>1. /\ Announces(i, awaits[i]) /\ sock' = opened
        /\ UNCHANGED << wsRef, expected, streamRef, processorRef, live, nodes, cut,
                        mounted, canRecord, fetching, awaits, overlap, stray >>
    BY <1>4 DEF Opened, Others
  <2>2. nodes' \subseteq Starts /\ processorRef' \in Starts \union { None }
    BY <1>1, <2>1 DEF PanelTypeOK
  <2> QED
    BY <1>1, <1>4, <2>1, <2>2, AnnouncesKeeps
<1> QED
  BY <1>3, <1>4

LEMMA ConnectFailsKeeps ==
  ASSUME PanelIInv, NEW i \in Starts, ConnectFails(i), Others
  PROVE  PanelIInv'
<1>1. /\ i \in InProgress /\ call[i] = "open" /\ awaits[i] \in Sockets
      /\ sock \in [ Sockets -> SocketStates ]
  BY DEF PanelIInv, WaitsAlone, ConnectFails, InProgress, PanelTypeOK, SocketStates
<1> DEFINE closed == [ sock EXCEPT ![awaits[i]] = "closed" ]
<1>2. /\ closed \in [ Sockets -> SocketStates ]
      /\ \A k \in Sockets : closed[k] = sock[k] \/ (k = awaits[i] /\ closed[k] = "closed")
  <2>1. \A k \in Sockets : closed[k] = IF k = awaits[i] THEN "closed" ELSE sock[k]
    BY <1>1
  <2>2. "closed" \in SocketStates
    BY DEF SocketStates
  <2>3. closed \in [ Sockets -> SocketStates ]
    BY <1>1, <2>2
  <2> HIDE DEF closed
  <2> QED
    BY <1>1, <2>1, <2>3
<1>3. Fails(i, closed, live) /\ UNCHANGED << mounted, canRecord, fetching, utterance, awaits, said, overlap, stray >>
  BY DEF ConnectFails, Others
<1> HIDE DEF closed
<1> QED
  BY <1>1, <1>2, <1>3, FailsKeeps

LEMMA StopVoiceKeeps ==
  ASSUME PanelIInv, StopVoice, Others
  PROVE  PanelIInv'
<1>1. PanelTypeOK /\ sock \in [ Sockets -> SocketStates ]
  BY DEF PanelIInv, PanelTypeOK, SocketStates
<1>2. said' \in [ Sockets -> { "nothing", "start", "stop" } ]
  BY <1>1 DEF StopVoice, PanelTypeOK
<1>3. { mounted', canRecord', fetching', starting' } \subseteq BOOLEAN /\ (~ mounted' => ~ mounted)
  BY <1>1 DEF StopVoice, PanelTypeOK
<1>4. /\ CleanUp(FALSE, sock, live) /\ Cuts(None)
      /\ UNCHANGED << utterance, call, awaits, overlap, stray >>
  BY DEF StopVoice, Others
<1> QED
  BY <1>1, <1>2, <1>3, <1>4, NoneClosed, CleanUpKeeps

LEMMA UnmountKeeps ==
  ASSUME PanelIInv, Unmount, Others
  PROVE  PanelIInv'
<1>1. PanelTypeOK /\ sock \in [ Sockets -> SocketStates ]
  BY DEF PanelIInv, PanelTypeOK, SocketStates
<1>2. /\ { mounted', canRecord', fetching', starting' } \subseteq BOOLEAN
      /\ said' \in [ Sockets -> { "nothing", "start", "stop" } ]
  BY <1>1 DEF Unmount, PanelTypeOK
<1>3. /\ CleanUp(TRUE, sock, live) /\ Cuts(None)
      /\ UNCHANGED << utterance, call, awaits, overlap, stray >>
  BY DEF Unmount, Leaves, Others
<1> QED
  BY <1>1, <1>2, <1>3, NoneClosed, CleanUpKeeps

LEMMA AbortEventKeeps ==
  ASSUME PanelIInv, NEW k \in Sockets, NEW ready \in BOOLEAN, AbortEvent(k, ready), Others
  PROVE  PanelIInv'
<1>1. PanelTypeOK /\ sock \in [ Sockets -> SocketStates ]
  BY DEF PanelIInv, PanelTypeOK, SocketStates
<1>2. /\ { mounted', canRecord', fetching', starting' } \subseteq BOOLEAN
      /\ said' \in [ Sockets -> { "nothing", "start", "stop" } ]
  BY <1>1 DEF AbortEvent, PanelTypeOK
<1>3. /\ CleanUp(TRUE, sock, live) /\ Cuts(None)
      /\ UNCHANGED << utterance, call, awaits, overlap, stray >>
  BY DEF AbortEvent, Others
<1> QED
  BY <1>1, <1>2, <1>3, NoneClosed, CleanUpKeeps

LEMMA RefreshDoneKeeps ==
  ASSUME PanelIInv, NEW answer \in { "ready", "not_ready", "unusable" }, RefreshDone(answer), Others
  PROVE  PanelIInv'
<1>1. PanelTypeOK /\ sock \in [ Sockets -> SocketStates ]
  BY DEF PanelIInv, PanelTypeOK, SocketStates
<1>2. { mounted', canRecord', fetching', starting' } \subseteq BOOLEAN /\ mounted' = mounted
  <2>1. canRecord' \in BOOLEAN
    BY <1>1 DEF RefreshDone, PanelTypeOK
  <2> QED
    BY <1>1, <2>1 DEF RefreshDone, PanelTypeOK
<1>3. said' = said /\ UNCHANGED << utterance, call, awaits, overlap, stray >>
  BY DEF RefreshDone, Others
<1>4. said' \in [ Sockets -> { "nothing", "start", "stop" } ]
  BY <1>1, <1>3 DEF PanelTypeOK
<1>5. CASE mounted /\ answer = "not_ready" /\ recording
  <2>1. CleanUp(TRUE, sock, live) /\ Cuts(None)
    BY <1>5 DEF RefreshDone
  <2> QED
    BY <1>1, <1>2, <1>3, <1>4, <2>1, NoneClosed, CleanUpKeeps
<1>6. CASE ~ (mounted /\ answer = "not_ready" /\ recording)
  <2>1. /\ UNCHANGED << mounted, starting, recording, sendPcm, expected, wsRef, streamRef, processorRef, utterance >>
        /\ UNCHANGED << call, awaits, sock, said, live, nodes, cut, overlap, stray >>
    BY <1>3, <1>6 DEF RefreshDone, NoCleanUp
  <2>2. PanelTypeOK' /\ WaitsAlone'
    BY <1>2, <2>1 DEF PanelIInv, PanelTypeOK, WaitsAlone
  <2> QED
    BY <2>1, <2>2 DEF PanelIInv, OneOwner, SetUp, InProgress, Holding, Usable
<1> QED
  BY <1>5, <1>6

LEMMA RefreshKeeps ==
  ASSUME PanelIInv, Refresh, Others
  PROVE  PanelIInv'
<1>1. fetching' \in BOOLEAN
      /\ UNCHANGED << mounted, canRecord, starting, recording, sendPcm, expected, wsRef, streamRef, processorRef >>
      /\ UNCHANGED << utterance, call, awaits, sock, said, live, nodes, cut, overlap, stray >>
  BY DEF Refresh, refs, Others
<1>2. PanelTypeOK' /\ WaitsAlone'
  BY <1>1 DEF PanelIInv, PanelTypeOK, WaitsAlone
<1> QED
  BY <1>1, <1>2 DEF PanelIInv, OneOwner, SetUp, InProgress, Holding, Usable

LEMMA StatusEventKeeps ==
  ASSUME PanelIInv, NEW k \in Sockets, StatusEvent(k), Others
  PROVE  PanelIInv'
<1>1. sendPcm' = recording
      /\ UNCHANGED << mounted, canRecord, fetching, starting, recording, expected, wsRef, streamRef, processorRef >>
      /\ UNCHANGED << utterance, call, awaits, sock, said, live, nodes, cut, overlap, stray >>
  BY DEF StatusEvent, NoCleanUp, Others
<1>2. PanelTypeOK' /\ WaitsAlone'
  BY <1>1 DEF PanelIInv, PanelTypeOK, WaitsAlone
<1> QED
  BY <1>1, <1>2 DEF PanelIInv, OneOwner, SetUp, InProgress, Holding, Usable

LEMMA SocketClosesKeeps ==
  ASSUME PanelIInv, NEW k \in Sockets, NEW broken \in BOOLEAN, SocketCloses(k, broken), Others
  PROVE  PanelIInv'
<1> USE DEF None
<1> DEFINE closed == [ sock EXCEPT ![k] = "closed" ]
<1>1. /\ PanelTypeOK /\ WaitsAlone /\ sock \in [ Sockets -> SocketStates ]
      /\ sock[k] \in { "open", "closing" }
  BY DEF PanelIInv, PanelTypeOK, SocketStates, SocketCloses
<1>2. UNCHANGED << mounted, canRecord, fetching, starting, utterance, call, awaits, said, overlap, stray >>
  BY DEF SocketCloses, Others
<1>3. \A n \in Sockets : closed[n] = IF n = k THEN "closed" ELSE sock[n]
  BY <1>1
<1>4. closed \in [ Sockets -> SocketStates ]
  <2>1. "closed" \in SocketStates
    BY DEF SocketStates
  <2> QED
    BY <1>1, <2>1
<1>5. SocketCloses(k, broken) =>
        /\ IF Unexpected THEN ReleaseAudio(live) /\ Cuts(None)
           ELSE NoCleanUp /\ sendPcm' = FALSE /\ UNCHANGED cut
        /\ IF Unexpected /\ broken THEN CloseSocket(closed) ELSE
           /\ sock' = closed
           /\ wsRef' = IF wsRef = k THEN None ELSE wsRef
           /\ UNCHANGED expected
  BY DEF SocketCloses
<1> HIDE DEF closed
<1>6. CASE Unexpected /\ broken
  <2>1. CleanUp(TRUE, closed, live) /\ Cuts(None)
    <3>1. ReleaseAudio(live) /\ CloseSocket(closed) /\ Cuts(None)
      BY <1>5, <1>6
    <3> QED
      BY <3>1 DEF CleanUp
  <2>2. { mounted', canRecord', fetching', starting' } \subseteq BOOLEAN
        /\ said' \in [ Sockets -> { "nothing", "start", "stop" } ]
    BY <1>1, <1>2 DEF PanelTypeOK
  <2> QED
    <3>1. SomeClosed(closed)
      BY <1>1, <1>3 DEF SomeClosed
    <3> QED
      BY <1>2, <1>4, <2>1, <2>2, <3>1, CleanUpKeeps
<1>7. CASE ~ (Unexpected /\ broken)
  <2>1. sock' = closed /\ expected' = expected /\ wsRef' = IF wsRef = k THEN None ELSE wsRef
    BY <1>5, <1>7
  <2>2. /\ sendPcm' = FALSE
        /\ \/ UNCHANGED << recording, streamRef, live, cut >>
           \/ recording' = FALSE /\ live' = live \ { streamRef } /\ streamRef' = None /\ cut' = cut \union InProgress
        /\ recording' \in BOOLEAN /\ { streamRef', processorRef' } \subseteq Starts \union { None }
        /\ nodes' \subseteq Starts /\ live' \subseteq Starts /\ cut' \subseteq Starts
    <3>1. CASE Unexpected
      <4>1. ReleaseAudio(live) /\ Cuts(None)
        BY <1>5, <3>1
      <4>2. /\ sendPcm' = FALSE /\ recording' = FALSE /\ live' = live \ { streamRef }
            /\ nodes' \subseteq nodes /\ streamRef' = None /\ processorRef' = None
        BY <4>1 DEF ReleaseAudio, RecordingAfter
      <4>3. cut' = cut \union InProgress /\ InProgress \subseteq Starts
        BY <4>1 DEF Cuts, InProgress, Starts
      <4> QED
        BY <1>1, <4>2, <4>3 DEF PanelTypeOK
    <3>2. CASE ~ Unexpected
      <4>1. sendPcm' = FALSE /\ UNCHANGED << recording, live, nodes, streamRef, processorRef, cut >>
        BY <1>5, <3>2 DEF NoCleanUp
      <4> QED
        BY <1>1, <4>1 DEF PanelTypeOK
    <3> QED
      BY <3>1, <3>2
  <2>3. PanelTypeOK'
    <3>1. \A j \in Starts : call[j] = "open" => sock'[awaits[j]] \in { "connecting", "aborted" }
      BY <1>1, <1>3, <2>1 DEF WaitsAlone, PanelTypeOK
    <3>2. { mounted, canRecord, fetching, starting, recording, sendPcm, expected, overlap }' \subseteq BOOLEAN
      <4>1. { mounted, canRecord, fetching, starting, expected, overlap }' \subseteq BOOLEAN
        BY <1>1, <1>2, <2>1 DEF PanelTypeOK
      <4> QED
        BY <2>2, <4>1
    <3>3. { streamRef, processorRef, utterance }' \subseteq Starts \union { None }
      BY <1>1, <1>2, <2>2 DEF PanelTypeOK
    <3>4. wsRef' \in Sockets \union { None }
      BY <1>1, <2>1 DEF PanelTypeOK
    <3>5. /\ call' \in [ Starts -> { "none", "mic", "module", "open", "done" } ]
          /\ awaits' \in [ Starts -> Sockets \union { None } ]
          /\ said' \in [ Sockets -> { "nothing", "start", "stop" } ]
          /\ \A j \in Starts : call'[j] = "open" => sock'[awaits'[j]] \in { "connecting", "aborted" }
      BY <1>1, <1>2, <3>1 DEF PanelTypeOK
    <3>6. stray' \subseteq Starts
      BY <1>1, <1>2 DEF PanelTypeOK
    <3> QED
      BY <1>4, <2>1, <2>2, <3>2, <3>3, <3>4, <3>5, <3>6 DEF PanelTypeOK, SocketStates
  <2>4. WaitsAlone'
    BY <1>1, <1>2 DEF WaitsAlone
  <2>5. InProgress' = InProgress /\ Holding' = Holding /\ Holding \subseteq InProgress
    BY <1>2 DEF InProgress, Holding
  <2>6. Usable' = Usable \ { k }
    BY <1>1, <1>3, <2>1 DEF Usable
  <2>7. ASSUME ~ overlap PROVE OneOwner' /\ SetUp'
    <3>1. OneOwner /\ SetUp
      BY <2>7 DEF PanelIInv
    <3>2. Usable' \subseteq { wsRef' }
      BY <2>1, <2>6, <3>1 DEF OneOwner
    <3>3. /\ live' \subseteq { streamRef' } \union stray'
          /\ live' \ stray' # {} => live' = live /\ recording' = recording
          /\ recording' => recording
      BY <1>2, <2>2, <3>1 DEF OneOwner
    <3>4. \A n \in Sockets : sock'[n] = "connecting" => \E j \in Starts : call'[j] = "open" /\ awaits'[j] = n
      BY <1>2, <1>3, <2>1, <3>1 DEF OneOwner
    <3>5. OneOwner'
      BY <1>2, <2>2, <2>5, <2>6, <3>1, <3>2, <3>3, <3>4 DEF OneOwner
    <3>6. SetUp'
      <4>1. \A j \in Holding' : j \notin cut' => streamRef' = j /\ j \in live'
        BY <2>2, <2>5, <3>1 DEF SetUp
      <4>2. recording' /\ utterance' \notin cut' => streamRef' = utterance' /\ utterance' \in live'
        BY <1>2, <2>2, <3>1 DEF SetUp
      <4>3. recording' /\ wsRef' # None /\ sock'[wsRef'] = "open" => said'[wsRef'] = "start"
        BY <1>1, <1>2, <1>3, <2>1, <3>1, <3>3 DEF SetUp, PanelTypeOK
      <4> QED
        BY <4>1, <4>2, <4>3 DEF SetUp
    <3> QED
      BY <3>5, <3>6
  <2> QED
    BY <1>2, <2>2, <2>3, <2>4, <2>7 DEF PanelIInv
<1> QED
  BY <1>6, <1>7

-----------------------------------------------------------------------------
(* The theorems *)

LEMMA PanelStep == PanelIInv /\ [Next]_vars => PanelIInv'
<1> SUFFICES ASSUME PanelIInv, [Next]_vars PROVE PanelIInv'
  OBVIOUS
<1>1. ASSUME NEW i \in Starts, StartVoice(i) PROVE PanelIInv'
  BY <1>1, StartVoiceKeeps
<1>2. ASSUME NEW i \in Starts, (MicGranted(i) /\ UNCHANGED overlap) \/ ((AudioFails(i) \/ ModuleLoaded(i)) /\ Others)
      PROVE PanelIInv'
  BY <1>2, MicGrantedKeeps, AudioFailsKeeps, ModuleLoadedKeeps
<1>3. ASSUME NEW i \in Starts, (Opened(i) \/ ConnectFails(i)) /\ Others PROVE PanelIInv'
  BY <1>3, OpenedKeeps, ConnectFailsKeeps
<1>4. ASSUME (StopVoice \/ Refresh \/ Unmount) /\ Others PROVE PanelIInv'
  BY <1>4, StopVoiceKeeps, RefreshKeeps, UnmountKeeps
<1>5. ASSUME NEW answer \in { "ready", "not_ready", "unusable" }, RefreshDone(answer) /\ Others PROVE PanelIInv'
  BY <1>5, RefreshDoneKeeps
<1>6. ASSUME NEW k \in Sockets, StatusEvent(k) /\ Others PROVE PanelIInv'
  BY <1>6, StatusEventKeeps
<1>7. ASSUME NEW k \in Sockets, NEW ready \in BOOLEAN, AbortEvent(k, ready) /\ Others PROVE PanelIInv'
  BY <1>7, AbortEventKeeps
<1>8. ASSUME NEW k \in Sockets, NEW broken \in BOOLEAN, SocketCloses(k, broken) /\ Others PROVE PanelIInv'
  BY <1>8, SocketClosesKeeps
<1>9. CASE UNCHANGED vars
  <2>1. /\ UNCHANGED << mounted, canRecord, fetching, starting, recording, sendPcm, expected, overlap, stray >>
        /\ UNCHANGED << wsRef, streamRef, processorRef, utterance, call, awaits, sock, said, live, nodes, cut >>
    BY <1>9 DEF vars, refs
  <2>2. PanelTypeOK' /\ WaitsAlone'
    BY <2>1 DEF PanelIInv, PanelTypeOK, WaitsAlone
  <2> QED
    BY <2>1, <2>2 DEF PanelIInv, OneOwner, SetUp, InProgress, Holding, Usable
<1> QED
  BY <1>1, <1>2, <1>3, <1>4, <1>5, <1>6, <1>7, <1>8, <1>9 DEF Next

\* Whatever the user clicks and the sockets do, and however many starts there are:
\* unless two starts overlapped, cleanupVoiceResources can stop every microphone
\* but one whose start failed before it was in streamRef, and only such a one is
\* left behind by a panel that is gone (VoiceControls.tsx:71-78, 463-467, 537-582).
THEOREM PanelIsSafe == Spec => []PanelInvariant
<1>1. PanelIInv => PanelInvariant
  BY DEF PanelIInv, PanelInvariant, MicIsOwned, NothingOutlivesPanel, OneOwner, Usable
<1> QED
  BY InitPanel, PanelStep, <1>1, PTL DEF Spec

\* Audio goes out only while the utterance is announced on the socket it uses, for
\* every number of calls and sockets.
THEOREM AudioStaysInside == Spec => []AudioInsideUtterance
<1>1. PanelIInv => AudioInsideUtterance
  BY DEF PanelIInv, AudioInsideUtterance, SetUp
<1> QED
  BY InitPanel, PanelStep, <1>1, PTL DEF Spec

\* A recording that nothing cleaned up has the microphone of its utterance.
THEOREM RecordingIsHeard == Spec => []RecordingHasMicrophone
<1>1. PanelIInv => RecordingHasMicrophone
  BY DEF PanelIInv, RecordingHasMicrophone, SetUp
<1> QED
  BY InitPanel, PanelStep, <1>1, PTL DEF Spec
===============================================================================
