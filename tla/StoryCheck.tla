----------------------------- MODULE StoryCheck -----------------------------
(***************************************************************************)
(* The story checker the CLI injects into Studio (_story_checker).  A      *)
(* handler thread checks a story against architecture.json; the session    *)
(* built from the file is cached, and Workspace clears the cache when a    *)
(* run begins and when it ends.  The build happens with no lock held, so   *)
(* only the generation counter tells a fresh build from one that an        *)
(* invalidation has overtaken.                                             *)
(*                                                                         *)
(* A snapshot is named by the number of the explore run that wrote it.     *)
(***************************************************************************)
EXTENDS Naturals

CONSTANTS Threads,   \* the handler threads of the server, and its main thread
          MaxRuns    \* bound: how many explore runs a behaviour may start

ASSUME MaxRunsAssumption == MaxRuns \in Nat \ {0}

Runs == 1..MaxRuns
NoRun == 0

VARIABLES file,        \* architecture.json: who wrote it, and whether it is whole
          generation,  \* generation of the checker
          cached,      \* cached_session: the run it was built from
          call,        \* the call each thread is in, and where it is in it
          asked,       \* requested_generation of each thread
          session      \* the session each thread checks with

checkVars == <<file, generation, cached, call, asked, session>>

\* There is no file: it was unlinked, or no run has written it yet.
NoFile == [by |-> NoRun, whole |-> FALSE]

\* A read of the file decodes only when the writer has finished it.
Readable == file.whole

CheckInit ==
  /\ file = NoFile
  /\ generation = 0
  /\ cached = NoRun
  /\ call = [t \in Threads |-> "none"]
  /\ asked = [t \in Threads |-> 0]
  /\ session = [t \in Threads |-> NoRun]

\* Fault: clear() forgets to count, so an overtaken build looks fresh.
ClearSameGeneration ==
  /\ generation' = generation
  /\ cached' = NoRun

\* clear(): a new generation, and nothing cached.
Clear ==
  /\ generation' = generation + 1
  /\ cached' = NoRun

\* check(), first critical section: take the cached session, or the
\* generation under which this thread will build one.
CheckBegin(t) ==
  /\ call[t] = "none"
  /\ asked' = [asked EXCEPT ![t] = generation]
  /\ session' = [session EXCEPT ![t] = cached]
  /\ call' = [call EXCEPT ![t] = IF cached = NoRun THEN "check.build" ELSE "checked"]
  /\ UNCHANGED <<file, generation, cached>>

\* read_saved_snapshot with no lock held: a partial file raises ValueError, and
\* a missing one FileNotFoundError, which not every caller catches.
CheckBuild(t) ==
  /\ call[t] = "check.build"
  /\ IF Readable
       THEN /\ session' = [session EXCEPT ![t] = file.by]
            /\ call' = [call EXCEPT ![t] = "check.install"]
       ELSE /\ call' = [call EXCEPT ![t] = IF file = NoFile THEN "check.missing"
                                          ELSE "check.raised"]
            /\ UNCHANGED session
  /\ UNCHANGED <<file, generation, cached, asked>>

\* Fault: the generation is kept where the session belongs.
InstallsGeneration(t) == asked[t] + MaxRuns

\* A session that another thread installed meanwhile wins.
Installed(t) == IF cached = NoRun THEN session[t] ELSE cached

\* check(), second critical section: install the build unless overtaken.
CheckInstall(t) ==
  /\ call[t] = "check.install"
  /\ IF generation = asked[t]
       THEN /\ cached' = Installed(t)
            /\ session' = [session EXCEPT ![t] = cached']
       ELSE UNCHANGED <<cached, session>>
  /\ call' = [call EXCEPT ![t] = "checked"]
  /\ UNCHANGED <<file, generation, asked>>

\* check() returns its result to the caller, or raises.
CheckReturn(t) ==
  /\ call[t] \in {"checked", "check.raised", "check.missing"}
  /\ call' = [call EXCEPT ![t] = "none"]
  /\ UNCHANGED <<file, generation, cached, asked, session>>

CheckStep(t) == CheckBegin(t) \/ CheckBuild(t) \/ CheckInstall(t) \/ CheckReturn(t)
=============================================================================
