------------------------------- MODULE Processes -------------------------------
(***************************************************************************)
(* What surrounds the analysis: the sessions' supervisor on Windows, the   *)
(* engine's process and connection, the message loop, the settings of the  *)
(* project, and the scan of a source that comes before its analysis.  They *)
(* do not share state: each behaviour is one of one module, its world,     *)
(* while the variables of the others stay "idle"; those of EngineProcess,  *)
(* which this module extends, stay as they are at first.                   *)
(***************************************************************************)
EXTENDS EngineProcess, Sequences, FiniteSets

CONSTANTS
    Clients, Active, Sockets, None,                 \* TcpSupervisorWindows
    Dialogs, Packets, Limit, EndSize,               \* EngineConnection
    Ids, Docs, Texts, Rejected, ParentOf, Projects, Options, Current,
    CommandLines, Traffics, MaxMessages,                          \* Session
    Lines, MaxLines, Paths, Names,                  \* WarningPolicy
    Sources                                         \* SourceLexicalMap

VARIABLES
    world,
    step, stopping, listener, registry, sessions, job, client, stage, sock, shut,
    ends, leaky, copying, input, process, inJob, inherits, traffic,
    dialog, transit, incoming, buffer, at, messages, packet, offset, taken,
    kinds, commandLine, option, initialized, shutdown, ended, project, asked, style,
    snippets, engine, item, buffers, index, disk, shown, cancelled, pulls, late, owed,
    credit, capable, received,
    read, section, enabled, levels, directories,
    source, place, inside, span, spans

Windows == INSTANCE TcpSupervisorWindows WITH pc <- step, output <- copying
Connection == INSTANCE EngineConnection
Messages == INSTANCE Session WITH traffic <- kinds, messages <- received
Policy == INSTANCE WarningPolicy
Scan == INSTANCE SourceLexicalMap WITH i <- place

ASSUME ConnectionAssumption == Connection!Setting
ASSUME DirectoriesAssumption == Messages!Tree
ASSUME LinesAssumption == Policy!Written
ASSUME SourcesAssumption == Scan!Finite

-----------------------------------------------------------------------------

windowsVars == <<step, stopping, listener, registry, sessions, job, client, stage, sock, shut,
                 ends, leaky, copying, input, process, inJob, inherits, traffic>>
connectionVars == <<dialog, transit, incoming, buffer, at, messages, packet, offset, taken>>
messagesVars == <<kinds, commandLine, option, initialized, shutdown, ended, project, asked, style,
                  snippets, engine, item, buffers, index, disk, shown, cancelled, pulls, late,
                  owed, credit, capable, received>>
policyVars == <<read, section, enabled, levels, directories>>
lexicalVars == <<source, place, inside, span, spans>>

WindowsIdle ==
    /\ step = "idle" /\ stopping = "idle" /\ listener = "idle" /\ registry = "idle"
    /\ sessions = "idle" /\ job = "idle" /\ client = "idle" /\ stage = "idle"
    /\ sock = "idle" /\ shut = "idle" /\ ends = "idle" /\ leaky = "idle"
    /\ copying = "idle" /\ input = "idle" /\ process = "idle" /\ inJob = "idle"
    /\ inherits = "idle" /\ traffic = "idle"

ConnectionIdle ==
    /\ dialog = "idle" /\ transit = "idle" /\ incoming = "idle" /\ buffer = "idle"
    /\ at = "idle" /\ messages = "idle" /\ packet = "idle" /\ offset = "idle"
    /\ taken = "idle"

MessagesIdle ==
    /\ kinds = "idle" /\ commandLine = "idle" /\ option = "idle" /\ initialized = "idle"
    /\ shutdown = "idle" /\ ended = "idle" /\ project = "idle" /\ asked = "idle"
    /\ style = "idle" /\ snippets = "idle" /\ engine = "idle" /\ item = "idle"
    /\ buffers = "idle" /\ index = "idle" /\ disk = "idle" /\ shown = "idle"
    /\ cancelled = "idle" /\ pulls = "idle" /\ late = "idle" /\ owed = "idle"
    /\ credit = "idle" /\ capable = "idle" /\ received = "idle"

PolicyIdle ==
    /\ read = "idle" /\ section = "idle" /\ enabled = "idle" /\ levels = "idle"
    /\ directories = "idle"

LexicalIdle ==
    /\ source = "idle" /\ place = "idle" /\ inside = "idle" /\ span = "idle"
    /\ spans = "idle"

AllInit ==
    /\ Init
    /\ world \in {"windows", "process", "connection", "messages", "policy", "lexical"}
    /\ IF world = "windows" THEN Windows!Init ELSE WindowsIdle
    /\ IF world = "connection" THEN Connection!Init ELSE ConnectionIdle
    /\ IF world = "messages" THEN Messages!Init ELSE MessagesIdle
    /\ IF world = "policy" THEN Policy!Init ELSE PolicyIdle
    /\ IF world = "lexical" THEN Scan!Init ELSE LexicalIdle

In(w) ==
    /\ world = w /\ UNCHANGED world
    /\ IF w = "windows" THEN TRUE ELSE UNCHANGED windowsVars
    /\ IF w = "process" THEN TRUE ELSE UNCHANGED vars
    /\ IF w = "connection" THEN TRUE ELSE UNCHANGED connectionVars
    /\ IF w = "messages" THEN TRUE ELSE UNCHANGED messagesVars
    /\ IF w = "policy" THEN TRUE ELSE UNCHANGED policyVars
    /\ IF w = "lexical" THEN TRUE ELSE UNCHANGED lexicalVars

AllNext ==
    \/ In("windows") /\ Windows!Next
    \/ In("process") /\ Next
    \/ In("connection") /\ Connection!Next
    \/ In("messages") /\ Messages!Next
    \/ In("policy") /\ Policy!Next
    \/ In("lexical") /\ Scan!Next

allVars == <<world, vars, windowsVars, connectionVars, messagesVars, policyVars,
             lexicalVars>>

AllSpec == AllInit /\ [][AllNext]_allVars

-----------------------------------------------------------------------------
(* The properties of the other modules, each in its world; the comments at *)
(* their definitions say what they are about.                              *)

(* tcp_adapter_windows.cpp: a stop leaves no program and gets never stuck. *)
StopLeavesNothing == world = "windows" => Windows!StopLeavesNothing

(* tcp_adapter_windows.cpp: replies arrive and sessions end.               *)
SessionsServed == world = "windows" => Windows!SessionsServed

(* engine_transport.cpp: send and receive.                                 *)
StreamFaithful == world = "connection" => Connection!StreamFaithful

(* main.cpp: requests, cancellations and answers.                          *)
RequestsAnswered == world = "messages" => Messages!RequestsAnswered

(* main.cpp: settings, the project and the documents.                      *)
StateFollowsClient == world = "messages" => Messages!StateFollowsClient

(* warnings.cpp: the levels of warnings.                                   *)
PolicyAsWritten == world = "policy" => Policy!PolicyAsWritten

(* source_lexical.cpp: strings and comments.                               *)
SpansRight == world = "lexical" => Scan!SpansRight
=============================================================================
