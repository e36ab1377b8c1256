---------------------------- MODULE VoiceGateway ----------------------------
(* The voice path of the server: the websocket handler of /voice/asr         *)
(* (api/voice.py), VoiceGatewayAgent, VoiceSessionController and             *)
(* VoiceRuntime.  Every socket is a task of the event loop: it handles its   *)
(* messages one after the other and gives way to the others where it awaits  *)
(* the turn or a send.  A turn runs under its session's lock (SessionLocks). *)
(* The replies' jobs are spoken by a worker thread, whose callbacks keep the *)
(* session object they were made with; the runner itself is TTSRunner's.     *)
(*                                                                           *)
(* Transcripts, replies and audio are left out: what is recognised, whether  *)
(* it echoes the last reply, and whether a turn fails are choices.           *)
EXTENDS SessionLocks

CONSTANTS
  Sockets,      \* websockets over the time modelled, each opened once
  Utterances,   \* utterance ids the clients use
  NoUtterance,
  MaxObjects,   \* objects that can be referred to at a time
  MaxIds,       \* max_ids, and the 50 preferences a session keeps
  MaxJobs       \* bound on jobs in the runner's queue

ASSUME VoiceAssumption ==
  /\ Calls = Sockets
  /\ IsFiniteSet(Sessions) /\ IsFiniteSet(Sockets)
  /\ NoUtterance \notin Utterances
  /\ MaxIds \in Nat \ { 0 } /\ MaxJobs \in Nat /\ MaxObjects \in Nat
  /\ MaxObjects >= Cardinality(Sessions) + Cardinality(Sockets) + MaxJobs + 1

VARIABLES
  live,      \* VoiceSessionController._sessions: the object of a session id
  obj,       \* the VoiceSession objects, released ones included; a processed
             \* utterance's field answered is history: its turn returned
  socket,    \* each socket's handler; forgotten is history: the session has
             \* forgotten the utterance of the turn
  jobs,      \* queued speech jobs: the object their callbacks close over
  speech,    \* the worker thread and the object of its job
  asked,     \* history: the last TTS preference a session was sent with each
             \* utterance, or "dropped" since the server does not keep it any more
  unheard    \* history: sessions with a socket that broke before its greeting

voiceVars == << live, obj, socket, jobs, speech, asked, unheard >>
vars == << lockVars, voiceVars >>
history == << asked, unheard >>

-----------------------------------------------------------------------------
(* Types *)

Objects == 1 .. MaxObjects
NoObj == 0
Ids == Utterances \union { NoUtterance }

\* Of the status only whether it is "speaking" is kept: nothing reads the rest.
NewObject == [ speaking |-> FALSE, muted |-> FALSE, recognizer |-> "none",
               current |-> NoUtterance, preferences |-> << >>, processed |-> << >> ]

\* The fields hold what they can hold.
VoiceTypeOK ==
  /\ LocksTypeOK
  /\ live \in [ Sessions -> Objects \union { NoObj } ]
  /\ \A o \in Objects :
       /\ obj[o].speaking \in BOOLEAN /\ obj[o].muted \in BOOLEAN
       /\ obj[o].recognizer \in { "none", "created", "running" }
       /\ obj[o].current \in Ids
       /\ Len(obj[o].preferences) <= MaxIds /\ Len(obj[o].processed) <= MaxIds
  /\ \A k \in Sockets : socket[k].phase \in { "new", "open", "turn", "sending", "closed" }
  /\ Len(jobs) <= MaxJobs
  /\ asked \in [ Sessions -> [ Utterances -> { "on", "off", "dropped" } ] ]
  /\ speech \in [ step : { "idle", "taken", "started" }, object : Objects \union { NoObj } ]

-----------------------------------------------------------------------------
(* VoiceSession and its controller, as functions of the table and objects *)

\* The table and the objects, as a handler goes along.
Heap == [ live |-> live, obj |-> obj ]

\* Objects that handlers, callbacks and the table refer to.
Reachable(h) == { h.live[s] : s \in Sessions } \union { socket[k].object : k \in Sockets }
                \union { jobs[i] : i \in DOMAIN jobs } \union { speech.object }

\* get_session makes the object if there is none.
Got(h, s) ==
  IF h.live[s] # NoObj THEN h
  ELSE LET new == CHOOSE o \in Objects : o \notin Reachable(h)
       IN  [ live |-> [h.live EXCEPT ![s] = new], obj |-> [h.obj EXCEPT ![new] = NewObject] ]

\* release_session
Released(h, s) ==
  IF h.live[s] = NoObj THEN h
  ELSE [h EXCEPT !.live[s] = NoObj, !.obj[h.live[s]].recognizer = "none"]

Trimmed(q) == IF Len(q) > MaxIds THEN Tail(q) ELSE q

\* An OrderedDict of at most MaxIds entries by id: the entry moves to the end.
Remembered(q, e) == Trimmed(Append(Picked(q, { i \in DOMAIN q : q[i].id # e.id }), e))

\* Bug: an utterance without a preference is spoken.
Preference_DefaultOn(o, u) ==
  \A i \in DOMAIN o.preferences : o.preferences[i].id = u => o.preferences[i].on

\* get_utterance_tts_preference
Preference(o, u) == \E i \in DOMAIN o.preferences : o.preferences[i] = [ id |-> u, on |-> TRUE ]

HasProcessed(o, u) == \E i \in DOMAIN o.processed : o.processed[i].id = u

\* clear_active_utterance
Cleared(o, u) == IF o.current = u THEN [o EXCEPT !.current = NoUtterance] ELSE o

\* stop_tts of the gateway, on the session it gets.
Hushed(o) == [o EXCEPT !.muted = FALSE, !.speaking = FALSE]

\* The step's outcome.  Of an object that is no longer a session's nobody reads
\* more than what its callbacks set; one nothing refers to is gone.
Becomes(h) ==
  /\ live' = h.live
  /\ obj' = LET reachable == Reachable(h)
                current == { h.live[s] : s \in Sessions }
            IN  [ o \in Objects |->
                  IF o \in current THEN h.obj[o]
                  ELSE IF o \in reachable
                  THEN [NewObject EXCEPT !.speaking = h.obj[o].speaking, !.muted = h.obj[o].muted]
                  ELSE NewObject ]

IdsOf(q) == { q[i].id : i \in DOMAIN q }

\* Preferences that go with a session's object.
Drop(s) ==
  asked' = [asked EXCEPT ![s] = [ u \in Utterances |->
    IF live[s] # NoObj /\ u \in IdsOf(obj[live[s]].preferences) THEN "dropped" ELSE @[u] ]]

-----------------------------------------------------------------------------
(* The websocket handler *)

Idle == [ phase |-> "open", id |-> NoUtterance, object |-> NoObj, forgotten |-> FALSE,
          tts |-> "none" ]
Closed == [Idle EXCEPT !.phase = "closed"]

\* Bug: the handler leaves without stopping the session.
Ended_Kept(s) == Heap

\* stop_session in the handler's `finally`.
Ended(s) == Released(Heap, s)

Leave(k) ==
  LET s == SessionOf[k]
  IN  /\ Becomes(Ended(s))
      /\ socket' = [socket EXCEPT ![k] = Closed]
      /\ Drop(s)

\* start_session, with the outcome of making and starting a recognizer.
Started(h, s, outcome) ==
  LET g == Got(h, s)
      o == g.obj[g.live[s]]
  IN  [g EXCEPT !.obj[g.live[s]] =
         IF o.recognizer # "none" \/ outcome = "started"
         THEN [o EXCEPT !.recognizer = IF @ = "none" THEN "running" ELSE @,
                        !.muted = FALSE, !.speaking = FALSE]
         ELSE [o EXCEPT !.recognizer = IF outcome = "unmade" THEN "none" ELSE "created",
                        !.speaking = FALSE]]

\* The connection is accepted, voice input is ready, the session is started
\* and greeted.  A failing start leaves the handler before its `try`; so does
\* a greeting that cannot be sent.
Connect(k, outcome, delivered) ==
  LET s == SessionOf[k]
      g == Got(Heap, s)
      h == Started(g, s, outcome)
      ok == g.obj[g.live[s]].recognizer # "none" \/ outcome = "started"
  IN  /\ socket[k].phase = "new"
          /\ Becomes(h)
      /\ socket' = [socket EXCEPT ![k] = IF ok /\ delivered THEN Idle ELSE Closed]
      /\ unheard' = IF ok /\ ~ delivered THEN unheard \union { s } ELSE unheard
      /\ UNCHANGED << lockVars, jobs, speech, asked >>

\* Voice input is not ready: an error event, and the socket is closed.
Refuse(k) ==
  /\ socket[k].phase = "new"
  /\ socket' = [socket EXCEPT ![k] = Closed]
  /\ UNCHANGED << lockVars, live, obj, jobs, speech, history >>

\* start_utterance while voice input is ready.
BeginUtterance(k, u, on) ==
  LET s == SessionOf[k]
      h == Got(Heap, s)
      o == h.obj[h.live[s]]
      kept == Remembered(o.preferences, [ id |-> u, on |-> on ])
  IN  /\ socket[k].phase = "open"
          /\ Becomes([h EXCEPT !.obj[h.live[s]] =
            [o EXCEPT !.current = u, !.muted = FALSE, !.speaking = FALSE,
                      !.preferences = kept]])
      /\ asked' = [asked EXCEPT ![s] = [ v \in Utterances |->
           IF v = u THEN IF on THEN "on" ELSE "off"
           ELSE IF v \in IdsOf(o.preferences) \ IdsOf(kept) THEN "dropped" ELSE @[v] ]]
      /\ UNCHANGED << lockVars, socket, jobs, speech, unheard >>

\* An audio chunk; the recognizer is made if the object has none.
AudioChunk(k) ==
  LET s == SessionOf[k]
      h == Got(Heap, s)
      g == IF h.obj[h.live[s]].recognizer = "none" THEN Started(h, s, "started") ELSE h
  IN  /\ socket[k].phase = "open"
          /\ Becomes([g EXCEPT !.obj[g.live[s]].speaking = FALSE,
                           !.obj[g.live[s]].recognizer = "running"])
      /\ UNCHANGED << lockVars, socket, jobs, speech, history >>

\* Whatever raises in the handler, or a disconnect between two messages.
Disconnect(k) ==
  /\ socket[k].phase \in { "open", "sending" }
  /\ Leave(k)
  /\ UNCHANGED << lockVars, jobs, speech, unheard >>

-----------------------------------------------------------------------------
(* stop_utterance *)

\* The id a stop is about: its own, or the active one.
StopId(o, u) == IF u = NoUtterance THEN o.current ELSE u

Mismatch(o, u) == o.current # NoUtterance /\ StopId(o, u) # o.current

\* The handler has events to send; tts is the outcome in its tts_status, if any.
Sending(k, tts) == socket' = [socket EXCEPT ![k] = [Idle EXCEPT !.phase = "sending", !.tts = tts]]

\* The stop is for another utterance than the active one, or there is no
\* recognizer: one event and nothing else.
StopRefused(k, u) ==
  LET h == Got(Heap, SessionOf[k])
      o == h.obj[h.live[SessionOf[k]]]
  IN  /\ socket[k].phase = "open"
      /\ Becomes(h)
      /\ Mismatch(o, u) \/ o.recognizer = "none"
      /\ Sending(k, "none")
      /\ UNCHANGED << lockVars, jobs, speech, history >>

Heard(k, u) == /\ socket[k].phase = "open"
               /\ live[SessionOf[k]] # NoObj
               /\ ~ Mismatch(obj[live[SessionOf[k]]], u)
               /\ obj[live[SessionOf[k]]].recognizer # "none"

\* Bug: duplicates are not looked for.
Duplicate_Never(o, u) == FALSE

Duplicate(o, u) == HasProcessed(o, u)

\* Nothing was said, or the reply being spoken was heard (only of an utterance
\* that is not the active one), or the utterance was handled before.
StopIgnored(k, u) ==
  LET s == SessionOf[k]
      o == obj[live[s]]
      id == StopId(o, u)
  IN  /\ Heard(k, u)
      /\ Becomes([Heap EXCEPT !.obj[live[s]] = Cleared(o, id)])
      /\ Sending(k, "skipped")
      /\ UNCHANGED << lockVars, jobs, speech, history >>

\* A new utterance: it counts as processed, speech is stopped, and its turn
\* waits for the session's lock.
StartTurn(k, u) ==
  LET s == SessionOf[k]
      o == obj[live[s]]
      id == StopId(o, u)
      kept == Remembered(o.processed, [ id |-> id, answered |-> FALSE ])
  IN  /\ Heard(k, u)
      /\ ~ Duplicate(o, id)
      /\ Becomes([Heap EXCEPT !.obj[live[s]] = [Hushed(o) EXCEPT !.processed = kept]])
      /\ jobs' = << >>
      /\ socket' = [ l \in Sockets |->
           IF l = k THEN [Idle EXCEPT !.phase = "turn", !.id = id, !.object = live[s]]
           ELSE IF /\ socket[l].object = live[s]
                   /\ socket[l].id \in IdsOf(o.processed) \ IdsOf(kept)
           THEN [socket[l] EXCEPT !.forgotten = TRUE] ELSE socket[l] ]
      /\ GetLock(k)
      /\ UNCHANGED << speech, asked, unheard >>

\* _queue_auto_tts on the object the session has by then: the event it ends in.
Speakable(o, u) == IF Preference(o, u) THEN { "queued", "refused" } ELSE { "off" }

\* The turn returns.  The reply is queued for speech on the session's present
\* object; the handler's own object, which it may no longer be, is settled.
EndTurn(k, tts) ==
  LET s == SessionOf[k]
      u == socket[k].id
      h == Got(Heap, s)
      settled == [Cleared(h.obj[socket[k].object], u) EXCEPT !.processed =
                    [ i \in DOMAIN @ |-> IF @[i].id = u THEN [@[i] EXCEPT !.answered = TRUE] ELSE @[i] ]]
  IN  /\ socket[k].phase = "turn"
          /\ tts \in Speakable(h.obj[h.live[s]], u)
      /\ tts = "queued" => Len(jobs) < MaxJobs
      /\ jobs' = IF tts = "queued" THEN Append(jobs, h.live[s]) ELSE jobs
      /\ Becomes([h EXCEPT !.obj[socket[k].object] = settled])
      /\ Sending(k, tts)
      /\ Release(k)
      /\ UNCHANGED << speech, asked, unheard >>

\* The turn raises: the exception leaves the handler.
FailTurn(k) ==
  /\ socket[k].phase = "turn"
  /\ Leave(k)
  /\ Release(k)
  /\ UNCHANGED << jobs, speech, unheard >>

\* The task has its session's lock.
TurnRuns(k) ==
  /\ Resume(k)
  /\ UNCHANGED voiceVars

\* The events are sent one after the other (a Disconnect may come in between);
\* a tts_status may fail to be sent.
Send(k) ==
  /\ socket[k].phase = "sending"
  /\ socket' = [socket EXCEPT ![k] = Idle]
  /\ UNCHANGED << lockVars, live, obj, jobs, speech, history >>

-----------------------------------------------------------------------------
(* Other callers of the controller and the runner *)

\* get_session of another session drops this one: ten minutes old, or the
\* oldest of too many.
Evict(s) ==
  /\ live[s] # NoObj
  /\ Becomes(Released(Heap, s))
  /\ Drop(s)
  /\ UNCHANGED << lockVars, socket, jobs, speech, unheard >>

\* POST /voice/tts/stop with a session id.
StopTTS(s) ==
  LET h == Got(Heap, s)
  IN      /\ jobs' = << >>
      /\ Becomes([h EXCEPT !.obj[h.live[s]] = Hushed(@)])
      /\ UNCHANGED << lockVars, socket, speech, history >>

\* The worker takes a job; a stop from here on does not reach it.
Take ==
  /\ speech.step = "idle"
  /\ jobs # << >>
  /\ speech' = [ step |-> "taken", object |-> Head(jobs) ]
  /\ jobs' = Tail(jobs)
  /\ UNCHANGED << lockVars, live, obj, socket, history >>

\* on_start
OnStart ==
  /\ speech.step = "taken"
  /\ speech' = [speech EXCEPT !.step = "started"]
  /\ obj' = [obj EXCEPT ![speech.object].muted = TRUE, ![speech.object].speaking = TRUE]
  /\ UNCHANGED << lockVars, live, socket, jobs, history >>

\* Bug: the status is left to the next event.
Quiet_StatusKept(o) == [o EXCEPT !.muted = FALSE]

Quiet(o) == [o EXCEPT !.muted = FALSE, !.speaking = FALSE]

\* on_finish, whether the job succeeded, failed or was interrupted.
OnFinish ==
  /\ speech.step = "started"
  /\ speech' = [ step |-> "idle", object |-> NoObj ]
  /\ obj' = [obj EXCEPT ![speech.object] = Quiet(@)]
  /\ UNCHANGED << lockVars, live, socket, jobs, history >>

-----------------------------------------------------------------------------
(* Specification *)

Init ==
  /\ LocksInit
  /\ live = [ s \in Sessions |-> NoObj ]
  /\ obj = [ o \in Objects |-> NewObject ]
  /\ socket = [ k \in Sockets |-> [Closed EXCEPT !.phase = "new"] ]
  /\ jobs = << >>
  /\ speech = [ step |-> "idle", object |-> NoObj ]
  /\ asked = [ s \in Sessions |-> [ u \in Utterances |-> "off" ] ]
  /\ unheard = {}

Handle(k) ==
  \/ \E outcome \in { "started", "unmade", "unstarted" }, d \in BOOLEAN : Connect(k, outcome, d)
  \/ Refuse(k)
  \/ \E u \in Utterances, on \in BOOLEAN : BeginUtterance(k, u, on)
  \/ AudioChunk(k)
  \/ Disconnect(k)
  \/ \E u \in Ids : StopRefused(k, u) \/ StopIgnored(k, u) \/ StartTurn(k, u)
  \/ FailTurn(k)

Proceed(k) == TurnRuns(k) \/ Send(k)
              \/ \E tts \in { "queued", "refused", "off" } : EndTurn(k, tts)

Next == \/ \E k \in Sockets : Handle(k) \/ Proceed(k)
        \/ \E s \in Sessions : Evict(s) \/ StopTTS(s)
        \/ Take \/ OnStart \/ OnFinish

Spec == Init /\ [][Next]_vars

-----------------------------------------------------------------------------
(* Properties *)

\* An utterance sent to a session twice, on one socket or two, is turned into
\* one turn, unless the session has forgotten it since the first was sent
\* (voice_gateway_agent.py:170).
OneTurnPerUtterance ==
  \A k, l \in Sockets :
    /\ k # l /\ socket[k].phase = "turn" /\ socket[l].phase = "turn"
    /\ socket[k].object = socket[l].object /\ socket[k].id = socket[l].id
    => socket[k].forgotten \/ socket[l].forgotten

\* Without a socket nothing listens for a session, unless its socket broke
\* before the greeting.
NobodyListensAlone ==
  \A s \in Sessions :
    /\ live[s] # NoObj /\ obj[live[s]].recognizer = "running"
    /\ \A k \in Sockets : SessionOf[k] = s => socket[k].phase \in { "new", "closed" }
    => s \in unheard

\* The state's types, with the two that concern sockets.
VoiceInvariant == VoiceTypeOK /\ OneTurnPerUtterance /\ NobodyListensAlone

\* What the session of an id remembers as processed was answered or is being
\* handled: after a failed turn the client may send the utterance again.
ProcessedIsAnswered ==
  \A s \in Sessions : live[s] # NoObj =>
    \A u \in Ids : HasProcessed(obj[live[s]], u) =>
      \/ \E i \in DOMAIN obj[live[s]].processed :
           obj[live[s]].processed[i] = [ id |-> u, answered |-> TRUE ]
      \/ \E k \in Sockets : /\ socket[k].phase = "turn"
                            /\ socket[k].id = u /\ socket[k].object = live[s]

\* A session shows speech, and is muted, only while a reply of its own is
\* being spoken, whatever starts, stops and releases come in between.
QuietMeansUnmuted ==
  \A o \in Objects : obj[o].muted \/ obj[o].speaking =>
    speech = [ step |-> "started", object |-> o ]

\* A reply goes unspoken for the customer's preference, or is spoken against
\* it, only if the preference sent with its utterance was dropped meanwhile.
PreferenceIsKept ==
  [][ \A k \in Sockets : socket[k].phase = "turn" /\ socket'[k].phase = "sending" =>
        LET u == socket[k].id
            wish == asked[SessionOf[k]][u]
        IN  u \in Utterances /\ wish # "dropped" =>
              (wish = "off" <=> socket'[k].tts = "off") ]_vars
=============================================================================
