------------------------------ MODULE Services ------------------------------
(***************************************************************************)
(* The parts of the library that serve a program beside its core, each on  *)
(* state of its own: the announcements of the STP server, the logger, the  *)
(* module loader, the pipeline, the suites of tests and the websocket      *)
(* server.  The module only brings them together and says of each what its *)
(* users rely on.                                                          *)
(***************************************************************************)
EXTENDS Integers, Sequences, FiniteSets

CONSTANTS Period, Jumps, Notices, NoNotice, Horizon,  \* Announcer
          LogThreads, Files, Tcps, NoThread, Levels, MaxLines,  \* Logger
          Mods, Loads, MaxDeps,  \* ModuleLoader
          Elements, Classes, NoElement,  \* Pipeline
          Tests, Suites, MaxAsserts, MaxList, MaxRuns,  \* TestSuite
          Clients, Sends, Chunks, Medium, Long, TwoBytes  \* WebSocket

\* Times are in milliseconds.
ASSUME AnnouncerAssumption == Period \in Nat /\ Horizon \in Nat /\ Jumps \subseteq Int

ASSUME LoggerAssumption == NoThread \notin LogThreads

\* A class whose processor passes data on does not release them.
ASSUME PipelineAssumption ==
    /\ IsFiniteSet(Elements) /\ Elements \subseteq Nat
    /\ NoElement \notin Nat /\ NoElement \notin Classes
    /\ \A c \in Classes : c.releases \in BOOLEAN /\ (c.processer = "passes" => ~ c.releases)

\* A suite can be told from a test.
ASSUME SuiteAssumption ==
    /\ IsFiniteSet(Suites) /\ Suites \subseteq Nat
    /\ Tests \cap Suites = {}

\* The marks fit behind the bit for the mask, and a frame is of bits and has a
\* length that two bytes can hold.
WebCodes == 0 .. 15
WebMarks == 0 .. 127
WebLengths == 0 .. 65535
WebFrames == {f \in [code : WebCodes, data : Seq({0, 1}), mask : [1 .. 4 -> {0, 1}]] :
                Len(f.data) \in WebLengths}

ASSUME WebAssumption ==
    /\ Medium \in WebMarks /\ Long \in WebMarks /\ Medium < Long
    /\ TwoBytes \in Nat
    /\ Sends \subseteq [Clients -> Seq(WebFrames)]

\* Announcer
VARIABLES pc, wall, last, timer, msg, kept, dropped, spent, shift, seen
udpVars == <<pc, wall, last, timer, msg, kept, dropped, spent, shift, seen>>
Udp == INSTANCE Announcer WITH Messages <- Notices, Nil <- NoNotice, clock <- wall, freed <- dropped

\* Logger
VARIABLES level, fresh, outs, open, holder, at, line, logged, due, received
logVars == <<level, fresh, outs, open, holder, at, line, logged, due, received>>
Log == INSTANCE Logger WITH Threads <- LogThreads, Nobody <- NoThread, list <- outs

\* ModuleLoader
VARIABLES mods, deps, isLoad, modAt, dep, loading, calls, crashed
modVars == <<mods, deps, isLoad, modAt, dep, loading, calls, crashed>>
Mod == INSTANCE ModuleLoader WITH at <- modAt

\* Pipeline
VARIABLES class, pad, pushes, made, released
pipeVars == <<class, pad, pushes, made, released>>
Pipe == INSTANCE Pipeline WITH Null <- NoElement, stack <- pushes

\* TestSuite
VARIABLES list, count, failCount, failed, reports, running, asserts, ran, runs, late
suiteVars == <<list, count, failCount, failed, reports, running, asserts, ran, runs, late>>
Suite == INSTANCE TestSuite WITH stack <- running

\* WebSocket
VARIABLES frames, wire, pending, clients, ready, failing, turn, state, buffer, events,
          alone, got
webVars == <<frames, wire, pending, clients, ready, failing, turn, state, buffer, events,
             alone, got>>
Web == INSTANCE WebSocket WITH list <- clients, at <- turn, calls <- events

-----------------------------------------------------------------------------
\* The server announces itself in time, and what the program wants.
AnnouncedInTime == Udp!InTime

\* Outputs get the lines that are due.
LogComplete == Log!EveryOutputEveryLine

\* Modules are loaded in the order of registration.
ModulesInOrder == Mod!LoadsInOrder

\* Data of a pipeline are released once and behind their last use.
PipelineReleases == Pipe!ReleasedBehind

\* Suites report what ran.
SuiteReports == Suite!ReportsWhatRan

\* The application gets the messages of its clients.
WebMessagesArrive == Web!MessagesArrive
=============================================================================
