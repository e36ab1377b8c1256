---------------------------- MODULE VoiceControls ----------------------------
(* The push-to-talk panel (frontend/src/components/VoiceControls.tsx): the   *)
(* browser's event loop runs one handler at a time, and startVoice suspends  *)
(* at each await while clicks, socket events and the panel's removal run.    *)
(* A call of startVoice, its microphone stream and its utterance share a     *)
(* number.  Sockets are numbered in the order they are created.              *)
(*                                                                           *)
(* External: WebSocket, getUserMedia and AudioWorklet.  close() on a socket  *)
(* that is still connecting makes the connection fail with an error event; a *)
(* message is delivered only while its socket is open.                       *)
EXTENDS Naturals, FiniteSets

CONSTANTS
  MaxStarts,   \* bound on the calls of startVoice
  MaxSockets   \* bound on the sockets it opens

ASSUME VoiceControlsAssumption == MaxStarts \in Nat /\ MaxSockets \in Nat

Starts  == 1 .. MaxStarts
Sockets == 1 .. MaxSockets
None    == 0

VARIABLES
  mounted,     \* isMountedRef
  canRecord,   \* voiceStatus?.canRecord
  fetching,    \* statusLoading: a status request is on its way
  starting,    \* startingVoiceRef
  recording,   \* recordingRef
  sendPcm,     \* shouldSendPcmRef
  expected,    \* expectedSocketCloseRef
  wsRef,
  streamRef,
  processorRef,
  utterance,   \* utteranceIdRef
  call,        \* where each call of startVoice is suspended
  awaits,      \* the socket a call waits for
  sock,        \* readyState; "aborted" is CLOSING before it ever opened
  said,        \* the last control message sent on a socket
  live,        \* streams whose tracks are not stopped
  nodes,       \* streams with a connected audio node
  cut,         \* history: calls during which the resources were cleaned up
  overlap,     \* history: a call of startVoice began while another was suspended
  stray        \* history: streams whose call failed before streamRef held them

refs == << wsRef, streamRef, processorRef, utterance >>
vars == << mounted, canRecord, fetching, starting, recording, sendPcm, expected,
           refs, call, awaits, sock, said, live, nodes, cut, overlap, stray >>

\* Every field holds what it can hold, and a waiting call a socket that may still
\* answer it.
PanelTypeOK ==
  /\ { mounted, canRecord, fetching, starting, recording, sendPcm, expected, overlap } \subseteq BOOLEAN
  /\ wsRef \in Sockets \union { None }
  /\ { streamRef, processorRef, utterance } \subseteq Starts \union { None }
  /\ call \in [ Starts -> { "none", "mic", "module", "open", "done" } ]
  /\ awaits \in [ Starts -> Sockets \union { None } ]
  /\ sock \in [ Sockets -> { "none", "connecting", "open", "closing", "aborted", "closed" } ]
  /\ said \in [ Sockets -> { "nothing", "start", "stop" } ]
  /\ nodes \subseteq Starts /\ live \subseteq Starts /\ cut \subseteq Starts /\ stray \subseteq Starts
  /\ \A i \in Starts : call[i] = "open" => sock[awaits[i]] \in { "connecting", "aborted" }

-----------------------------------------------------------------------------
(* What the handlers share *)

InProgress == { i \in Starts : call[i] \in { "mic", "module", "open" } }

\* websocket.close()
Closing(state) == CASE state = "open" -> "closing" [] state = "connecting" -> "aborted"
                    [] OTHER -> state

\* Bug: the resources go, the panel still shows a recording.
RecordingAfter_Kept == recording

\* resetRecording, which every caller sets.
RecordingAfter == FALSE

\* A cleanup's part on audio, when the streams in on are on.
ReleaseAudio(on) ==
  /\ sendPcm' = FALSE
  /\ recording' = RecordingAfter
  /\ live' = on \ { streamRef }
  /\ nodes' = nodes \ { streamRef, processorRef }
  /\ streamRef' = None /\ processorRef' = None

\* wsRef is closed; the sockets' states were s.
CloseSocket(s) ==
  /\ expected' = TRUE
  /\ wsRef' = None
  /\ sock' = [ k \in Sockets |-> IF k = wsRef THEN Closing(s[k]) ELSE s[k] ]

\* cleanupVoiceResources({closeSocket: close, resetRecording: true})
CleanUp(close, s, on) ==
  /\ ReleaseAudio(on)
  /\ IF close THEN CloseSocket(s) ELSE sock' = s /\ UNCHANGED << expected, wsRef >>

NoCleanUp == UNCHANGED << recording, live, nodes, streamRef, processorRef, expected >>

\* A cleanup runs while the calls other than i are suspended.
Cuts(i) == cut' = cut \union (InProgress \ { i })

\* The catch and finally blocks of call i, when the streams in on are on.
Fails(i, s, on) ==
  /\ CleanUp(TRUE, s, on)
  /\ Cuts(i)
  /\ starting' = FALSE
  /\ call' = [call EXCEPT ![i] = "done"]

\* Bug: an utterance is announced on a new socket only.
Told_NewSocketOnly(k) == IF said[k] = "nothing" THEN [said EXCEPT ![k] = "start"] ELSE said

\* start_utterance is sent on socket k.
Told(k) == [said EXCEPT ![k] = "start"]

\* Call i has its socket k: it announces the utterance and recording starts.
Announces(i, k) ==
  /\ said' = Told(k)
  /\ utterance' = i
  /\ sendPcm' = TRUE /\ recording' = TRUE
  /\ starting' = FALSE
  /\ call' = [call EXCEPT ![i] = "done"]

-----------------------------------------------------------------------------
(* Clicks *)

\* The refs startVoice looks at; stopVoice is over before the next click.
MayStart == ~ recording /\ ~ starting

\* startVoice, up to its awaits of the TTS stop and of getUserMedia.
StartVoice(i) ==
  /\ mounted /\ ~ fetching /\ canRecord
  /\ MayStart
  /\ call[i] = "none" /\ \A j \in 1 .. i - 1 : call[j] # "none"
  /\ starting' = TRUE
  /\ call' = [call EXCEPT ![i] = "mic"]
  /\ overlap' = (overlap \/ InProgress # {})
  /\ UNCHANGED << mounted, canRecord, fetching, recording, sendPcm, expected, refs,
                  awaits, sock, said, live, nodes, cut, stray >>

\* stopVoice
StopVoice ==
  /\ mounted /\ recording
  /\ said' = IF wsRef # None /\ sock[wsRef] = "open" /\ utterance # None
             THEN [said EXCEPT ![wsRef] = "stop"] ELSE said
  /\ CleanUp(FALSE, sock, live)
  /\ Cuts(None)
  /\ UNCHANGED << mounted, canRecord, fetching, starting, utterance, call, awaits >>

\* refreshVoiceStatus, up to its await.
Refresh ==
  /\ mounted /\ ~ fetching
  /\ fetching' = TRUE
  /\ UNCHANGED << mounted, canRecord, starting, recording, sendPcm, expected, refs,
                  call, awaits, sock, said, live, nodes, cut >>

\* Bug: the effect's cleanup only marks the panel as gone.
Leaves_Only == NoCleanUp /\ UNCHANGED << sendPcm, wsRef, sock, cut >>

Leaves == CleanUp(TRUE, sock, live) /\ Cuts(None)

\* The panel is removed: the language changes.
Unmount ==
  /\ mounted
  /\ mounted' = FALSE
  /\ Leaves
  /\ UNCHANGED << canRecord, fetching, starting, utterance, call, awaits, said >>

-----------------------------------------------------------------------------
(* Continuations of startVoice *)

\* The stream gets its AudioContext and is put in streamRef.
HoldsStream(i) ==
  /\ streamRef' = i
  /\ live' = live \union { i }
  /\ call' = [call EXCEPT ![i] = "module"]
  /\ UNCHANGED << starting, recording, sendPcm, expected, wsRef, processorRef, sock, nodes, cut, stray >>

\* No AudioContext: the catch block runs while the stream is in no ref yet, and
\* leaves it on.
LosesStream(i) ==
  /\ Fails(i, sock, live \union { i })
  /\ stray' = stray \union { i }

\* getUserMedia resolves; a panel that is gone stops the stream itself.
MicGranted(i) ==
  /\ call[i] = "mic"
  /\ \/ ~ mounted /\ Fails(i, sock, live) /\ UNCHANGED stray
     \/ mounted /\ (HoldsStream(i) \/ LosesStream(i))
  /\ UNCHANGED << mounted, canRecord, fetching, utterance, awaits, said >>

\* getUserMedia or addModule rejects.
AudioFails(i) ==
  /\ call[i] \in { "mic", "module" }
  /\ Fails(i, sock, live)
  /\ UNCHANGED << mounted, canRecord, fetching, utterance, awaits, said >>

\* ensureWebSocket creates a socket.
Connects(i) ==
  \E k \in Sockets :
    /\ sock[k] = "none" /\ \A j \in 1 .. k - 1 : sock[j] # "none"
    /\ sock' = [sock EXCEPT ![k] = "connecting"]
    /\ wsRef' = k
    /\ expected' = FALSE
    /\ awaits' = [awaits EXCEPT ![i] = k]
    /\ call' = [call EXCEPT ![i] = "open"]
    /\ UNCHANGED << starting, recording, sendPcm, utterance, said >>

\* addModule resolves: the node is connected and the socket asked for.
ModuleLoaded(i) ==
  /\ call[i] = "module"
  /\ IF ~ mounted THEN Fails(i, sock, live) /\ UNCHANGED << utterance, awaits, said >> ELSE
     /\ nodes' = nodes \union { i }
     /\ processorRef' = i
     /\ UNCHANGED << live, streamRef, cut >>
     /\ IF wsRef # None /\ sock[wsRef] = "open"
        THEN Announces(i, wsRef) /\ UNCHANGED << wsRef, expected, awaits, sock >>
        ELSE Connects(i)
  /\ UNCHANGED << mounted, canRecord, fetching >>

\* onopen, and the call that waits for it.
Opened(i) ==
  LET k == awaits[i]
      opened == [sock EXCEPT ![k] = "open"]
  IN  /\ call[i] = "open" /\ sock[k] = "connecting"
      /\ IF ~ mounted THEN Fails(i, opened, live) /\ UNCHANGED << utterance, said >> ELSE
         /\ sock' = opened
         /\ Announces(i, k)
         /\ UNCHANGED << wsRef, expected, streamRef, processorRef, live, nodes, cut >>
      /\ UNCHANGED << mounted, canRecord, fetching, awaits >>

\* Bug: the promise of a socket that was closed on purpose is not rejected.
Rejects_IfUnexpected(k) == sock[k] = "connecting"

Rejects(k) == sock[k] \in { "connecting", "aborted" }

\* onerror of a socket that never opened, and the call that waits for it.
ConnectFails(i) ==
  LET k == awaits[i]
  IN  /\ call[i] = "open" /\ Rejects(k)
      /\ Fails(i, [sock EXCEPT ![k] = "closed"], live)
      /\ UNCHANGED << mounted, canRecord, fetching, utterance, awaits, said >>

-----------------------------------------------------------------------------
(* Events of an open socket *)

\* The answer to refreshVoiceStatus: ready, not ready, or no usable answer.
RefreshDone(answer) ==
  /\ fetching
  /\ fetching' = FALSE
  /\ canRecord' = IF mounted THEN answer = "ready" ELSE canRecord
  /\ IF mounted /\ answer = "not_ready" /\ recording
     THEN CleanUp(TRUE, sock, live) /\ Cuts(None)
     ELSE NoCleanUp /\ UNCHANGED << sendPcm, wsRef, sock, cut >>
  /\ UNCHANGED << mounted, starting, utterance, call, awaits, said >>

\* handleVoiceEvent, a status event.
StatusEvent(k) ==
  /\ mounted /\ sock[k] = "open"
  /\ sendPcm' = recording
  /\ NoCleanUp
  /\ UNCHANGED << mounted, canRecord, fetching, starting, wsRef, utterance, call, awaits,
                  sock, said, cut >>

\* handleMalformedVoiceMessage, or the event voice_not_ready, which may carry a
\* status.
AbortEvent(k, ready) ==
  /\ mounted /\ sock[k] = "open"
  /\ ready => canRecord
  /\ canRecord' = ready
  /\ CleanUp(TRUE, sock, live)
  /\ Cuts(None)
  /\ starting' = FALSE
  /\ UNCHANGED << mounted, fetching, utterance, call, awaits, said >>

\* Whether onclose and onerror take the event for a failure.
Unexpected == mounted /\ ~ expected /\ (recording \/ starting)

\* onclose of a socket that was open, after onerror when the connection broke.
SocketCloses(k, broken) ==
  LET closed == [sock EXCEPT ![k] = "closed"]
  IN  /\ sock[k] \in { "open", "closing" }
      /\ IF Unexpected THEN ReleaseAudio(live) /\ Cuts(None)
         ELSE NoCleanUp /\ sendPcm' = FALSE /\ UNCHANGED cut
      /\ IF Unexpected /\ broken THEN CloseSocket(closed) ELSE
         /\ sock' = closed
         /\ wsRef' = IF wsRef = k THEN None ELSE wsRef
         /\ UNCHANGED expected
      /\ UNCHANGED << mounted, canRecord, fetching, starting, utterance, call, awaits, said >>

-----------------------------------------------------------------------------
(* Specification *)

Init ==
  /\ mounted = TRUE /\ canRecord = FALSE /\ fetching = TRUE
  /\ starting = FALSE /\ recording = FALSE /\ sendPcm = FALSE /\ expected = FALSE
  /\ wsRef = None /\ streamRef = None /\ processorRef = None /\ utterance = None
  /\ call = [ i \in Starts |-> "none" ]
  /\ awaits = [ i \in Starts |-> None ]
  /\ sock = [ k \in Sockets |-> "none" ]
  /\ said = [ k \in Sockets |-> "nothing" ]
  /\ live = {} /\ nodes = {} /\ cut = {} /\ overlap = FALSE /\ stray = {}

Others == UNCHANGED << overlap, stray >>

Next ==
  \/ \E i \in Starts : \/ StartVoice(i)
                       \/ MicGranted(i) /\ UNCHANGED overlap
                       \/ (AudioFails(i) \/ ModuleLoaded(i)) /\ Others
                       \/ (Opened(i) \/ ConnectFails(i)) /\ Others
  \/ (StopVoice \/ Refresh \/ Unmount) /\ Others
  \/ \E answer \in { "ready", "not_ready", "unusable" } : RefreshDone(answer) /\ Others
  \/ \E k \in Sockets : \/ StatusEvent(k) /\ Others
                        \/ \E ready \in BOOLEAN : AbortEvent(k, ready) /\ Others
                        \/ \E broken \in BOOLEAN : SocketCloses(k, broken) /\ Others

Spec == Init /\ [][Next]_vars

\* A browser opens a socket or gives up on it; nothing makes the user answer
\* the microphone's permission prompt.
FairSpec == Spec /\ \A i \in Starts : WF_vars((Opened(i) \/ ConnectFails(i)) /\ Others)

-----------------------------------------------------------------------------
(* Properties *)

\* cleanupVoiceResources can stop every microphone that is on, but for the streams
\* whose start failed before it put them in streamRef, as long as no two calls of
\* startVoice overlapped (VoiceControls.tsx:463-467, 537-582).
MicIsOwned == ~ overlap => live \subseteq { streamRef } \union stray

\* When the panel is gone and no start is pending, no socket is left and no
\* microphone is on, under the same two exceptions.
NothingOutlivesPanel ==
  ~ mounted /\ InProgress = {} /\ ~ overlap =>
    live \subseteq stray /\ \A k \in Sockets : sock[k] \notin { "open", "connecting" }

\* The state's types, with the two on what the panel owns.
PanelInvariant == PanelTypeOK /\ MicIsOwned /\ NothingOutlivesPanel

\* Audio reaches the server only between start_utterance and stop_utterance of
\* the socket it is sent on, whatever old sockets do, while no calls overlapped.
AudioInsideUtterance ==
  ~ overlap /\ sendPcm /\ wsRef # None /\ sock[wsRef] = "open" /\ nodes \intersect live # {} =>
    said[wsRef] = "start"

\* A panel that shows a recording has the microphone of its utterance, unless
\* something cleaned up while the recording was being started.
RecordingHasMicrophone ==
  recording /\ utterance \notin cut /\ ~ overlap => streamRef = utterance /\ utterance \in live

\* A start that waits for its socket comes to an end, also when the socket is
\* closed under it.
StartsEnd == \A i \in Starts : call[i] = "open" ~> call[i] = "done"
=============================================================================
