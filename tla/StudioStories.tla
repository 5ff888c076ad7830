---------------------------- MODULE StudioStories ---------------------------
(***************************************************************************)
(* The story and chat requests of the Studio server, on top of Workspace   *)
(* and the story checker.  A request makes several calls, each of which    *)
(* takes and drops its own locks, so the run may be replaced between any   *)
(* two of them; the chat route compares Snapshot objects to find out.      *)
(*                                                                         *)
(* The main thread starts the runs and closes the workspace; each handler  *)
(* thread answers requests.  What the agent says is left open: it answers  *)
(* or fails, after any time.                                               *)
(***************************************************************************)
EXTENDS StudioWorkspace

CONSTANTS Main,         \* the main thread
          MaxRequests   \* bound: requests a behaviour may contain

ASSUME MainAssumption == Main \in Threads

Handlers == Threads \ {Main}

VARIABLES request,   \* where each handler is in its request
          path,      \* workspace.file(...) gave the handler a path
          stateRun,  \* the run whose state a handler has read by state()
          held,      \* the Snapshot a chat request works with
          drafted,   \* the run whose file seeded the story draft
          reply,     \* what the handler last sent
          requests   \* requests begun

storyVars == <<request, path, stateRun, held, drafted, reply, requests>>
localVars == <<path, stateRun, held, drafted>>
allVars == <<vars, storyVars>>

NoReply == [kind |-> "none", of |-> NoRun, drafted |-> NoRun, checked |-> NoRun]
Refused == [NoReply EXCEPT !.kind = "refused"]

\* An exception no handler catches: the connection closes without an answer.
Dropped(r) == [NoReply EXCEPT !.kind = "dropped", !.of = r]

StoriesInit ==
  /\ Init
  /\ request = [h \in Handlers |-> "idle"]
  /\ path = [h \in Handlers |-> FALSE]
  /\ stateRun = [h \in Handlers |-> NoRun]
  /\ held = [h \in Handlers |-> NoSnapshot]
  /\ drafted = [h \in Handlers |-> NoRun]
  /\ reply = [h \in Handlers |-> NoReply]
  /\ requests = 0

\* The handler is at a point of its request, and in no call of its own.
At(h, point) == request[h] = point /\ call[h] = "none"
GoTo(h, point) == request' = [request EXCEPT ![h] = point]
Send(h, answer) == reply' = [reply EXCEPT ![h] = answer] /\ GoTo(h, "idle")

\* workspace.file("architecture.json"): no lock, true while there is a file.
FindsFile(h) == path' = [path EXCEPT ![h] = file # NoFile]

\* A request arrives; nothing is left of the one before.
Arrive(h, point) ==
  /\ At(h, "idle") /\ requests < MaxRequests
  /\ requests' = requests + 1
  /\ GoTo(h, point)
  /\ drafted' = [drafted EXCEPT ![h] = NoRun]
  /\ reply' = [reply EXCEPT ![h] = NoReply]
  /\ UNCHANGED <<vars, path, stateRun, held>>

-----------------------------------------------------------------------------
(* GET /api/v1/stories/<id> and GET /api/v1/draft *)

GetFile(h) ==
  /\ \/ At(h, "story.file") /\ GoTo(h, "story.state")
     \/ At(h, "draft.file") /\ GoTo(h, "draft.state")
  /\ FindsFile(h)
  /\ UNCHANGED <<vars, stateRun, held, drafted, reply, requests>>

\* Fault: a request that comes too early polls until a run has ended well.
PollsAgain(h) == GoTo(h, "story.file") /\ UNCHANGED reply

NotReady(h) == Send(h, Refused)

\* Fault: only a failed run is refused.
NotFailed == explore # "failed"

\* The run whose state is read has ended well.
Ended == explore \in Done

\* A failed or unfinished run is refused, and a draft of an incomplete one.
GetRefused(h) ==
  /\ Free(stateLock)
  /\ \/ At(h, "story.state") /\ (~Ended \/ ~path[h])
     \/ At(h, "draft.state") /\ (explore # "done" \/ ~path[h])
  /\ NotReady(h)
  /\ UNCHANGED <<vars, localVars, requests>>

GetAccepted(h) ==
  /\ Free(stateLock) /\ path[h]
  /\ \/ At(h, "story.state") /\ Ended /\ GoTo(h, "story.check")
     \/ At(h, "draft.state") /\ explore = "done" /\ GoTo(h, "draft.read")
  /\ stateRun' = [stateRun EXCEPT ![h] = run]
  /\ UNCHANGED <<vars, path, held, drafted, reply, requests>>

GetCheck(h) ==
  /\ At(h, "story.check") /\ CheckBegin(h) /\ GoTo(h, "story.checking")
  /\ UNCHANGED <<lockVars, runVars, procVars, waitVars, readVars, closer>>
  /\ UNCHANGED <<localVars, reply, requests>>

\* A ValueError is answered with 422; a missing file ends the handler.
GetChecked(h) ==
  /\ request[h] = "story.checking" /\ CheckReturn(h)
  /\ \/ /\ call[h] = "checked"
        /\ Send(h, [NoReply EXCEPT !.kind = "story", !.of = stateRun[h], !.checked = session[h]])
     \/ call[h] = "check.raised" /\ Send(h, Refused)
     \/ call[h] = "check.missing" /\ Send(h, Dropped(stateRun[h]))
  /\ UNCHANGED <<lockVars, runVars, procVars, waitVars, readVars, closer>>
  /\ UNCHANGED <<localVars, requests>>

\* stories.draft reads the file anew, with no lock, and raises as a check does.
GetDraft(h) ==
  /\ At(h, "draft.read")
  /\ Send(h, IF Readable
               THEN [NoReply EXCEPT !.kind = "draft", !.of = stateRun[h], !.drafted = file.by]
               ELSE IF file = NoFile THEN Dropped(stateRun[h]) ELSE Refused)
  /\ UNCHANGED <<vars, localVars, requests>>

-----------------------------------------------------------------------------
(* POST /api/v1/chat: _answer and _answer_story *)

\* Each of the three calls of workspace.snapshot(), and the point it returns to.
SnapshotCalls == {<<"chat.begin", "chat.got">>, <<"chat.seed", "chat.compare">>,
                  <<"chat.again", "chat.confirm">>}

ChatSnapshot(h) ==
  /\ \E c \in SnapshotCalls : At(h, c[1]) /\ GoTo(h, c[2])
  /\ CallSnapshot(h)
  /\ UNCHANGED <<localVars, reply, requests>>

ChatGot(h) ==
  /\ At(h, "chat.got")
  /\ IF result[h] = NoSnapshot
       THEN Send(h, Refused) /\ UNCHANGED held
       ELSE /\ held' = [held EXCEPT ![h] = result[h]]
            /\ GoTo(h, "chat.ask")
            /\ UNCHANGED reply
  /\ UNCHANGED <<vars, path, stateRun, drafted, requests>>

\* snapshot() found the file and lost it to close() before it read it; nothing
\* else removes the file of a run that has ended well under _graph_lock.
ChatDropped(h) ==
  /\ \E c \in SnapshotCalls : At(h, c[2])
  /\ result[h] = NoSnapshot /\ explore \in Done /\ closer = "closed"
  /\ Send(h, Dropped(run))
  /\ UNCHANGED <<vars, localVars, requests>>

\* The agent fails, or answers a question: the text is checked against the
\* Snapshot the request holds.
ChatAnswered(h) ==
  /\ At(h, "chat.ask")
  /\ \/ Send(h, Refused)
     \/ Send(h, [NoReply EXCEPT !.kind = "answer", !.of = held[h].of, !.checked = held[h].of])
  /\ UNCHANGED <<vars, localVars, requests>>

\* The agent answers a story request: is there a file, is it still ours?
ChatStory(h) ==
  /\ At(h, "chat.ask")
  /\ FindsFile(h)
  /\ IF path'[h] THEN GoTo(h, "chat.seed") /\ UNCHANGED reply ELSE Send(h, Refused)
  /\ UNCHANGED <<vars, stateRun, held, drafted, requests>>

\* Fault: the Snapshot is not compared again.
NeverReplaced(h) == FALSE

\* workspace.snapshot() is not snapshot.
Replaced(h) == result[h] # held[h]

ChatCompare(h) ==
  /\ At(h, "chat.compare")
  /\ IF Replaced(h) THEN Send(h, Refused) ELSE GoTo(h, "chat.draft") /\ UNCHANGED reply
  /\ UNCHANGED <<vars, localVars, requests>>

ChatDraft(h) ==
  /\ At(h, "chat.draft")
  /\ IF Readable
       THEN /\ drafted' = [drafted EXCEPT ![h] = file.by]
            /\ GoTo(h, "chat.check")
            /\ UNCHANGED reply
       ELSE Send(h, Refused) /\ UNCHANGED drafted
  /\ UNCHANGED <<vars, path, stateRun, held, requests>>

ChatCheck(h) ==
  /\ At(h, "chat.check") /\ CheckBegin(h) /\ GoTo(h, "chat.checking")
  /\ UNCHANGED <<lockVars, runVars, procVars, waitVars, readVars, closer>>
  /\ UNCHANGED <<localVars, reply, requests>>

\* Here an OSError is answered like a ValueError.
ChatChecked(h) ==
  /\ request[h] = "chat.checking" /\ CheckReturn(h)
  /\ IF call[h] = "checked" THEN GoTo(h, "chat.again") /\ UNCHANGED reply ELSE Send(h, Refused)
  /\ UNCHANGED <<lockVars, runVars, procVars, waitVars, readVars, closer>>
  /\ UNCHANGED <<localVars, requests>>

ChatConfirm(h) ==
  /\ At(h, "chat.confirm")
  /\ Send(h, IF Replaced(h)
               THEN Refused
               ELSE [kind |-> "chat", of |-> held[h].of, drafted |-> drafted[h],
                     checked |-> session[h]])
  /\ UNCHANGED <<vars, localVars, requests>>

-----------------------------------------------------------------------------

\* The main thread starts a run when none is under way.
MainStep ==
  /\ (CallStart(Main) /\ explore # "running") \/ StartStep(Main)
  /\ UNCHANGED storyVars

\* The steps a handler takes inside a call.
InCall(h) ==
  /\ \/ ReadStep(h)
     \/ /\ CheckBuild(h) \/ CheckInstall(h)
        /\ UNCHANGED <<lockVars, runVars, procVars, waitVars, readVars, closer>>
  /\ UNCHANGED storyVars

\* GET /api/v1/graph.
GetGraph(h) ==
  /\ At(h, "graph.call") /\ CallGraph(h) /\ GoTo(h, "graph.got")
  /\ UNCHANGED <<localVars, reply, requests>>
GetGraphSent(h) ==
  At(h, "graph.got") /\ GoTo(h, "idle") /\ UNCHANGED <<vars, localVars, reply, requests>>

HandlerStep(h) ==
  \/ GetFile(h) \/ GetRefused(h) \/ GetAccepted(h) \/ GetCheck(h) \/ GetChecked(h) \/ GetDraft(h)
  \/ GetGraph(h) \/ GetGraphSent(h)
  \/ ChatSnapshot(h) \/ ChatGot(h) \/ ChatAnswered(h) \/ ChatStory(h) \/ ChatCompare(h)
  \/ ChatDraft(h) \/ ChatCheck(h) \/ ChatChecked(h) \/ ChatConfirm(h) \/ ChatDropped(h)
  \/ InCall(h)

RunStep(r) == (ExploreStep(r) \/ WaiterStep(r)) /\ UNCHANGED storyVars

\* The session is over: nothing is left to do.
Stopped ==
  /\ closer = "closed" /\ \A t \in Threads : call[t] = "none"
  /\ \A h \in Handlers : request[h] = "idle"
  /\ UNCHANGED allVars

StoriesNext ==
  \/ \E h \in Handlers :
       \/ HandlerStep(h)
       \/ \E point \in {"story.file", "draft.file", "graph.call", "chat.begin"} : Arrive(h, point)
  \/ MainStep
  \/ \E r \in Runs : RunStep(r)
  \/ CloseStep /\ UNCHANGED storyVars
  \/ Stopped

\* Threads run, the agent has a timeout and the explore child ends by itself
\* or by its collector's timeout.  Nobody has to send a request, to start a
\* run or to close.
Fairness ==
  /\ \A h \in Handlers : WF_allVars(HandlerStep(h))
  /\ WF_allVars(StartStep(Main) /\ UNCHANGED storyVars)
  /\ \A r \in Runs : WF_allVars(RunStep(r))
  /\ WF_allVars((CloseEndsChild \/ CloseRemoves) /\ UNCHANGED storyVars)

StoriesSpec == StoriesInit /\ [][StoriesNext]_allVars
StoriesFairSpec == StoriesSpec /\ Fairness

-----------------------------------------------------------------------------
(* Properties *)

\* "The snapshot changed while the story was being drafted / checked": a story
\* that the chat route delivers was drafted from and checked against the very
\* snapshot whose names and facts the agent was asked about.
ChatStoryIsOfOneSnapshot ==
  \A h \in Handlers :
    reply[h].kind = "chat" => reply[h].drafted = reply[h].of /\ reply[h].checked = reply[h].of

\* A story check never goes back in time: it is made against the run whose
\* state let the request in, or against a later one.
StoryCheckIsNotOlder ==
  \A h \in Handlers : reply[h].kind = "story" => reply[h].checked >= reply[h].of

\* _stories reads architecture.json outside every lock and catches only
\* ValueError.  A request that the state has let in loses its answer to a
\* missing file only when start() has begun a later run meanwhile, or close()
\* has removed the folder: the file of the run it was let in for is there
\* until then.
DroppedOnlyWhenOvertaken ==
  \A h \in Handlers : reply[h].kind = "dropped" => run > reply[h].of \/ closer = "closed"

\* No request is left hanging, whatever restarts and however long the locks
\* are contended: each handler answers, or drops the connection, and is free.
EveryRequestEnds ==
  \A h \in Handlers : (request[h] # "idle") ~> (request[h] = "idle")

\* A run that was spawned leaves RUNNING: its end reaches the browser however
\* the child died and whatever the handlers do.
EveryRunEnds ==
  \A r \in Runs : (run = r /\ child = r) ~> (run > r \/ explore # "running")
=============================================================================
