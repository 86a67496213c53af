# Verification of gdscript-lsp

`gdscript-lsp` is a language server for GDScript: a process that keeps an index
of a Godot project, answers an editor's requests on standard input and output
(or one process per TCP connection), and pushes diagnostics that it computes
itself or obtains from a running Godot editor. This directory holds TLA+ models
of the parts of it where threads, processes and messages interleave and of the
algorithms that decide what an editor is told, the TLC runs that check them, and
TLAPS proofs of the safety properties.

Paths below are relative to the repository root; `lsp/` is `src/lsp/` and
`core/` is `src/core/`.

## The system

| Part | State it keeps | Operations | Hard behaviour |
|---|---|---|---|
| Message loop (`lsp/main.cpp`) | `buffers` (open editors), `cancelled` ids, shutdown and initialized flags | one JSON-RPC message at a time | cancellation of requests already in progress, file events for open buffers, refused opens |
| Diagnostic coordinator (`lsp/diagnostic_coordinator.cpp`) | generation, urgent and background queues, open set, snapshots, pending pulls, file stamps | `begin_update`/`finish_update`, `schedule_full`, `pull`, `cancel_pull`, `request_stop`; the worker `run` with `publish`, `accept`, `refresh_external_files`; the callbacks `engine_result`, `engine_state` | three threads, with state read in one critical section and used in another; disk polls; work queues that are replaced while items are in hand; shutdown |
| Engine bridge (`lsp/engine_bridge.cpp`) | epoch, configuration, documents with revisions and queue marks, pending saves, status | `configure`, `submit`, `saved`, `forget`, `project_changed`, `stop`; the thread `run` | a connection that fails, times out, is superseded; reports for old texts |
| Engine transport and process (`lsp/engine_transport.cpp`) | socket, receive buffer, child pid and process group | `connect`, `send`, `receive`, `start`, `running`, `stop` | partial reads and writes, deadlines, orphans |
| TCP supervisor (`lsp/tcp_adapter_posix.cpp`, `_windows.cpp`) | listener, set of children | accept, fork, exec, reap, stop | signals at every point |
| Workspace index (`core/workspace.cpp`) | documents, class registry, autoloads, dependencies and their reverse | `open`, `update_document`, `close_document`, `refresh_files`, `affected_documents`, queries | incremental update against full rebuild, inheritance cycles, dependents before and after a change |
| Text and edits (`core/text.cpp`, `core/document.cpp`) | the buffer, and the tree the incremental parser keeps | positions to bytes and back, changes, the edit told to the parser | characters of several bytes and units, positions behind a line |
| Structure of a script (`core/document.cpp`, `core/source_lexical.cpp`, `core/syntax_checks.cpp`) | spans of strings and comments, blocks and delimiters while a file is read, recovered functions | lexical scan, indentation, recovery of functions | one misread character changes the meaning of the rest; errors in one function spread to the next |
| Annotations and warnings (`core/annotations.cpp`, `core/warnings.cpp`) | regions, tool mode, what was applied where; levels and directory rules | `AnnotationAnalyzer::run`, the reading of `project.godot` | effects that depend on the order in the source |
| Semantic analyzer (`core/semantic_analyzer.cpp`) | scopes, flow, constants being evaluated | bodies, member constants, calls | constants in circles, paths through branches, overloads |
| URIs (`core/uri.cpp`) | none | canonical form | two spellings of one file |

How they interact. The main thread calls the workspace (under its
shared mutex) and the coordinator (under its mutex). The worker thread of the
coordinator polls the disk, reads the workspace and publishes. The bridge's
thread talks to the Godot editor and calls back into the coordinator, which
calls `submit`, `forget`, `saved` and `ready` on the bridge. An edit is three
calls from the main thread: `begin_update` (raise the generation, demote the
urgent queue), `update_document`, `finish_update` (queue what was edited and its
dependents). Whoever publishes a document compares the generation it started
with at each step, and hands the document back when it moved.

What makes each part correct:

* coordinator: an open buffer is never replaced by the disk; every change ends
  in a publication, by the worker or by the engine; a file change that the poll
  saw is indexed; a report is attributed to the text it is about; each request
  is answered exactly once, and before shutdown is;
* bridge: a report is passed on only for the revision and the connection it was
  asked on; a document that was submitted is asked about on every connection;
* supervisor: no signal to a process that is not its child, no session left
  behind, no zombie kept;
* Windows supervisor: every session ends, no program outlives the supervisor, no
  reply is cut off, a stop is never stuck;
* engine's process: stop leaves nothing of it behind and returns;
* message loop: one answer for each request; engine, snippets, project and texts
  are what the client and the command line asked for last;
* index: incremental updates agree with a rebuild, dependents of a change are
  those whose diagnostics can differ, circles of inheritance are broken and blamed
  on those who are in them;
* text and structure: what the server takes a text for is what the text says, by
  a reference definition written without the algorithm;
* analyzer: what is reported is wrong, and what is wrong is reported.

`PROJECT.json` lists the components with what is modelled of each, and under
`hazards` the places where the code could go wrong in a way that tests hardly
reach.

## Modules

| Module | Models | Checked by | Proved in |
|---|---|---|---|
| `DiagnosticCoordinator` | coordinator, its three threads, and what they share with the index, the message loop and the bridge | `MCDiagnosticCoordinator` | `DiagnosticCoordinatorProof`, `DiagnosticUpdatesProof` |
| `EngineContract` | abstract specification: what the bridge promises the coordinator | `MCEngineBridge` (refinement) | `EngineBridgeProof` (refinement) |
| `EngineBridge` | the bridge's methods, its worker, the connection and the editor at the other end | `MCEngineBridge` | `EngineBridgeProof` |
| `TcpSupervisor` | the POSIX supervisor, its sessions, their descriptors, signals and process ids | `MCTcpSupervisor` | `TcpSupervisorProof` |
| `TcpSupervisorWindows` | the Windows supervisor, its session threads, relays, pipes, programs and job object | `MCProcesses` | `TcpSupervisorWindowsProof` |
| `EngineProcess` | the process of a launched engine, its probes and its group | `MCProcesses` | `EngineTransportProof` |
| `EngineConnection` | framing over a socket that moves any number of bytes | `MCProcesses` | `EngineTransportProof` |
| `Session` | the message loop: requests, settings, project, documents | `MCProcesses` | `ProcessesProof` |
| `WarningPolicy` | levels of warnings from `project.godot` | `MCProcesses` | `ProcessesProof` |
| `SourceLexicalMap` | strings and comments | `MCProcesses` | `ProcessesProof` |
| `Processes` | the six modules above side by side, each a world of its own | `MCProcesses` | |
| `TextEdits` | positions, identifiers, incremental changes, the parser's edit | `MCLanguage` | |
| `IndentationCheck` | blocks, delimiters and continued lines | `MCLanguage` | |
| `FunctionRecovery` | functions and classes of a damaged script | `MCLanguage` | |
| `AnnotationAnalyzer` | where annotations apply and what they do | `MCLanguage` | |
| `FunctionBodies` | flow, scopes and jumps of a body | `MCLanguage` | |
| `MemberConstants` | constants evaluated on demand | `MCLanguage` | `MemberConstantsProof` |
| `CallCheck` | overloads, assignability | `MCLanguage` | |
| `FileUris` | canonical URIs, absolute and normal paths | `MCLanguage` | |
| `WorkspaceRegistry` | the index and its incremental updates | `MCLanguage` | |
| `SourceLines` | helper: the nesting of lines | | |

### DiagnosticCoordinator

*Grain.* A step is one critical section of the coordinator's, the bridge's or
the workspace's mutex, or one scan of the disk. `pc[t]` says which section the
thread `t` will enter next and `job[t]` holds the local variables of what it is
running, so one action serves the several threads that run the same function:
`publish` is `ReadSource`, `Submit`, `Compute`, `ReadVersion`, `Accept` on the
worker and (for a pull) on the main thread, and its tail on the bridge. The map
in `PROJECT.json` names the lines of each action.

*Data.* A text is a number drawn from `clock`, so every edit and every write of
a file gives a new text, and 0 is a missing file. A file's stamp (modification
time and size) is its text. Diagnostics are a set of marks: `"standalone"` with
each faulty text among the documents that the document reads, or `"engine"`
with the one text the engine was sent. `Reads` is a constant, reflexive and
transitive: which documents the diagnostics of a document look at. The version
of an open document is its text, that of a document from the disk 0.

*Environment.* The client opens, edits, closes, saves, reports file events,
pulls, cancels, reconnects and shuts down (`Traffic` selects which). A save is two
things: the editor writes its buffer to the file (`WriteBuffer`), and some time
later, perhaps after a poll has seen the file or after other messages, `didSave`
arrives. Other programs write and remove files (`DiskWrite`); the engine connects and fails
(`BridgeState`), and reports on what it was sent (`BridgeTake`, `BridgeDone`).

*The root.* A document in `Outside` is refused by `update_document` and is not
among the stamps of the poll (`FileStamps`), but `refresh_files` has no such check:
a file event for it indexes the file, and a close of it then reads the file again.

*Abstractions that matter.* One engine report is in flight at a time, as in the
bridge. `UpdateDocument` always takes the dependents before and after the change;
where only bodies changed the code announces the document alone
(`core/workspace.cpp:893-899`), which makes the background queue smaller by
documents whose diagnostics are the same. A file that is saved again with the text
it has keeps its stamp. `affected_documents` is its definition over `Reads`, not the breadth-first
search that computes it. `BridgeTake` and `BridgeDone` stand for the whole
transaction with the engine; a transaction that fails is `BridgeState`.
`PickPoll` may happen whenever a poll is due in some execution: time is not
modelled. Reading the stamps of all files is one step.

*Runs.*

| Run (cfg) | Question | Bounds |
|---|---|---|
| `updates` (`CoordinatorUpdates`) | edits, closes, disk writes and polls, two documents, one depending on the other: `OpenBufferWins`, `OnlyFullScanLoses`, `OnlyFullScanHides`; liveness: `Settles` | 3 texts, 2 client messages |
| `file_events` (`CoordinatorFileEvents`) | file events against polls and an edit, with a third document outside the root, which file events index: `OnlyFullScanLoses` | 3 texts, 1 message |
| `engine` (`CoordinatorEngine`) | an engine that comes, goes and is reconnected, with edits, saves, the polls that see them and a request: `TypeOK`, `OnlyFullScanLosesPresent` | 1 document, 2 texts, 1 request, 2 messages, 1 state change |
| `pulls` (`CoordinatorPulls`) | a request, its cancellation, edits, closes and a shutdown while the engine comes and goes: `ReplyOnce`, `ShutdownAnswersAll`; liveness: `PullAnswered`, without saves and reconnections | 1 document, 2 texts, 1 message, 2 state changes |

`Lost(u)` is the state in which the client's view of `u` differs from what the
diagnostics of `u` are now and nobody has `u` in hand: no queue, no thread that
will publish it or schedule it, no report on its present text owed by the
engine. `Hidden(u)` is the state in which the poll's stamp for a file is current,
the index is not, and no refresh is on its way. The action properties say that only
`ScheduleFull` can enter these states; the run `lost_clearing` shows that it does.

The bounds are small because each defect needs few events: an edit that
overtakes a publication needs two texts, a stale stamp two writes, a lost
dependent two documents. Three texts give every property a change before,
during and after the step it is about. What the two runs with an engine leave out of
each other (closes and the shutdown, saves and polls) meets in the theorems
`RepliesOnce`, `StopAnswersAll` and `NothingPresentLost`, which hold for every traffic
that their hypotheses allow. `CHECK_DEADLOCK FALSE` appears where the
server is allowed to stop: with the poll off or an idle engine, a server whose
client has sent its last message waits for ever.

*Fairness.* `FairSpec` assumes that each of the threads keeps
moving (weak fairness of its steps: mutexes are held for bounded times, and the
engine's transactions end by answer or deadline), that polls happen
(`WF(PickPoll)`), and strong fairness of `PickBackground`: the poll comes first
in the worker's loop, so background work relies on polls that take less than
their interval. The client, the disk and the engine's state owe nothing.

### EngineBridge and EngineContract

*Grain.* A step is one critical section of `mutex_`, or one group of messages on
the connection. The labels of `pc` follow `run`: `top` (the wait at the head),
`unavailable`/`connecting` (the two calls of `set_state` before the attempt),
`handshake`, `requeue`, `announce`, then `loop`, `take`, `close`, `idle`, `send`,
`receive`, `reported`, `check` for one pass of the inner loop, and `fallback`,
`backoff` after an exception. Callers may step between any two of them. `session`
is the epoch the worker read at the head; `Cancelled` is the predicate it hands to
every wait.

*Data.* A text is a number from `clock`, the editor's verdict on a text is that
number, and `Empty` stands for the empty report. A revision is the coordinator's
generation: it may stay the same from one submission to the next, with another text.

*Environment.* The callers configure, submit, save, forget, change
`project.godot` and stop, in any order. The editor (`EngineStep`) takes messages
first in, first out, and reports on a text when it gets it. Under the habit
`"again"` it also reports when nobody asked and when a document is closed; under
`"silent"` it may leave a text without a report. The two are not combined: an
editor that skips the report on a text after an unasked report on the one
before gives the barrier nothing to tell them apart by, so that the bridge relies
on one report for each text it sends.

*Left out.* Time: priorities, due times and the coalescing delay are replaced by
letting any queued document be taken at any moment, and deadlines by `Fail`,
which may happen wherever the worker waits. Launching the editor is part of
`Handshake` (`EngineProcess` models it). Exceptions all lead to `Drop`.

*Refinement.* `ImplementsContract` maps the bridge to `EngineContract`: `live`
is `Live` (in the inner loop and not cancelled), `asking` is the document in hand
while `Live`, and between two sessions everything that is held counts as queued,
because `Requeue` will make it so before the next one. The contract says that a
report passed on is the verdict on the text that was asked about, for a revision
that is still held, and that authority is withdrawn by the call that asks for it.
`DiagnosticCoordinator` relies on this shape in `BridgeTake`, `BridgeDone` and
`BridgeState`.

| Run (cfg) | Question | Bounds |
|---|---|---|
| `bridge_contract` (`BridgeContract`) | `TypeOK`, `ReadyIsBacked`, `InOrder`, `SavesKept`, the refinement; liveness: `EventuallyReported`, `StopJoins`; with silences of the editor | 1 document, 2 texts, 2 other calls, 2 failures, both modes |
| `bridge_documents` (`BridgeDocuments`) | `InOrder` and the refinement with two documents and an editor that repeats itself, launched | 2 documents, 2 texts, 3 other calls, no failure, 1 unasked report |

Two texts are an old and a new one; the calls are a configuration, a change of
it and, in the second run, one more in between; with two failures there are
three connections. Two
documents show that reports and open marks of one are not taken for the other's.
The bounds on faults also mean that failures end, which `EventuallyReported`
needs. `CHECK_DEADLOCK FALSE`: a bridge that is off or stopped waits.

*Fairness.* Weak fairness of the worker and of the editor: both are threads that
wait on nothing but each other or a deadline. Strong fairness of `Take(u)`: a
queued document is due within a bounded delay (at most 150 ms) and each pass of
the loop that finds nothing due ends after a wait of 25 ms, so that a document
that stays queued is picked on some later pass. Callers and failures owe nothing.

`docs[u].saved` at line 54 of `engine_bridge.cpp` looks redundant: a save also
enters `pending_saves_`, which is emptied only where the mark is.

### TcpSupervisor

*Grain.* A step is one system call of the supervisor or of a session, or the
arrival of a signal, which the handlers (`HandleStop`, `Wake`) deal with at any
point. `pc` names the call that the supervisor will make next: `loop` (the test
of the flag and `reap_children`), `accept`, `blocked` in accept, `configure`
(`set_close_on_exec`), `fork`, `parent` (the parent's side), `closing`, `kill`,
`wait`, `exited`.

*Processes.* `proc[p]` is the program behind an id: `forked` (a session that still
runs the supervisor's image, with its handlers), `starting` (executed, default
action of signals), `serving` (the session's own handler), `draining` (its
standard input is closed), `zombie`, or `stranger`, another program that got an id
after it was reaped. `fds` are the connections of which each process holds a
descriptor, `held` those of the supervisor. `missed` is a history variable: the
sessions to which the supervisor sent SIGTERM while they ran its own handler.

| Run (cfg) | Question | Bounds |
|---|---|---|
| `supervisor` (`Supervisor`) | `TypeOK`, `SignalsOnlySessions`, `NoOrphans`, `HeldByItsSession`; liveness: `StopCompletes` | 3 ids, 2 connections |
| `swallowed_stop` (`SwallowedStop`) | violated: `StopStopsSessions` | 1 id, 1 connection |

Two ids are enough for one session to die and its id to be reused while another
lives; the third lets both happen around a fork. `CHECK_DEADLOCK FALSE`: the system rests when the supervisor has exited.

*Fairness.* Weak fairness of the supervisor and of each session: running
processes are scheduled. Failures of accept, clients that hang up, signals and
sessions that exit on their own are left unfair, so that `StopCompletes` holds with
clients that stay connected.

### TcpSupervisorWindows

*Grain.* A step is one call of Windows by the main thread, by a session's thread
or by one of its two copying threads, one event of the console, or what the
session's program and the client do. `stage[c]` is the place of `run_session` for
the connection `c`: `pipes`, `configure`, `spawn`, `assign`, `resume`, `relay`,
`wait`, `join`, `finish`, `close`, `done`; `output[c]` and `input[c]` are the places
of the relays.

*Data.* The traffic of a connection is one request and its reply, and `traffic[c]`
says how far they have come. A handle of a socket is recycled as soon as it is
closed. `CreateProcess` hands a program every inheritable pipe end that exists at
that moment, so a session started in the window between the creation of another
session's pipes and their `configure` keeps ends of them (`inherits`).

*Properties.* `StopLeavesNothing`: the registry names exactly the sockets of the
sessions that have not finished; when the supervisor exits no program is left;
while it stops, one of its threads can always go on. `SessionsServed`: a reply
that was written arrives, and a session whose client hung up can always go on to
its end, unless another program holds an end of its pipes. That last exception is
a fact about the code that TLC found: with two connections accepted together the
first session's program does not see the end of its input before the second
session's program has ended.

*Calls that block.* Each call that may block has a guard with a name, which its
action uses: `WaitReturns`, `JoinReturns`, `ReadReturns`, `SendReturns`,
`ReceiveReturns`, `WriteReturns`, `ProgramReturns`. `GoesOn(c)` and `MainGoesOn`
say with these guards that a thread of the session, or the main thread, has a call
that returns; the two properties about getting stuck are stated with them rather
than with `ENABLED`, which could not be proved about. On all states of the run's
instance `GoesOn(c)` is `ENABLED` of the session's threads, and `MainGoesOn` that of
the main thread while it stops.

### EngineProcess and EngineConnection

`EngineProcess` is `start`, `running`, `log` and `stop` with the caller's two
probes and the engine: each program forks, leads a group of its own once either
side has said so, prints into a pipe that holds `Capacity`, leaves a helper behind
and exits when it likes. The log keeps the last `LogLimit` of what was read
(`append_log`, 64 KiB). `EngineUnderControl`: between two starts nothing of what
was started lives, the waits of `stop` are for a program that was killed, and a probe is
judged by the end of what it printed, as much as the log holds, although it may
print and exit between the read and the `waitpid` of `running`. A probe that prints
more than the log holds is judged without the beginning of its output. What a drain
takes at once (64 reads of 4096 bytes) is more than a pipe holds, so that `Capacity`
stands for both.

`EngineConnection` counts bytes as units: of a header, of the blank line that ends
it, of a body, which may hold blank lines too. `StreamFaithful`: what `receive`
returns is what the engine sent, in order, whatever pieces arrive, up to a header
that is too long or has no length; nothing that has arrived whole is overlooked
by `readable`; and what the engine reads is the packets in order, whatever pieces
are sent.

### Session

One action per kind of message. `owed` counts the answers that an id is owed;
`credit` counts, for each id, the cancellations less the waiting pulls that they
refused, and less the later requests that they refused. A `$/cancelRequest` does
both: it refuses the pull that waits (`lsp/main.cpp:537`), and its id is remembered,
waiting pull or not, so that the next request that uses the id is refused too (538,
541). `RequestsAnswered` therefore says one of each at most; that no request is
answered twice; and that what waited when the server was shut down, or ended, has
been answered. A pull that comes after the shutdown is kept without an answer
(`late`): `publish` does nothing once the coordinator stops. A second shutdown is
answered and drains nothing, for `request_stop` returns early.

`StateFollowsClient`: the engine of the command line wins; a snippet is
sent only to a client that understands them, also after an `initialize` that
failed; the project is the innermost one around the directory of `--project`, whatever
the client asks for, and the request fails if there is none; without that option it is
the innermost one around the folders, or else the root, or else the working
directory (`Above`, the directories around one, is the least set that has it and the
parents of its own); the workspace has the buffer of each open document and the file
of every other, except documents that it refuses. A workspace that cannot be opened
leaves the session uninitialized and its settings as they were read; it is then tried
again by the next `initialize`. The bound of five messages, of one kind in each
behaviour, lets a request be cancelled, sent, cancelled again, used again and
answered; the engine of the command line, the settings and the understanding of
snippets vary in the sessions about settings only, `--project`, the folders and the
root in those about projects. Four directories hold two projects, one within the other, and `--project`
names the outer one or a directory that is in none.

### The modules about texts and scripts

Each of them runs the algorithm of the code, step by step where the code keeps
state, over every input of a bounded set, and compares what comes out with a
definition that does not mention the algorithm.

| Module | Inputs | The property says |
|---|---|---|
| `TextEdits` | texts of up to 3 of 7 characters of one to four bytes, 2 edits | `TextFollowsEditor`: the bytes are those of the editor's text after every edit; positions and bytes correspond; a position that is nowhere is taken for the next place on its line; the identifier at a place is the word that it touches; the tree that is told of a changed middle is a tree of the text |
| `SourceLexicalMap` | all texts of up to 4 of 8 bytes, and of 6 and 7 of the ones about quotes and escapes; a step is one pass of a loop of the scan | `SpansRight`: an independent reading, which looks at each byte once and remembers what it is in, finds the same strings and comments; contexts and code follow from them |
| `IndentationCheck` | up to 5 lines, with tabs, spaces, brackets, strings, continuations | half of `StructureRead`: a line is reported exactly if it goes back to an indentation that no block has; brackets are counted whatever is on their lines |
| `FunctionRecovery` | up to 3 lines (4 in a class) and every tree that a parser may make of them, with functions that end anywhere and classes with or without a name and a body that end anywhere | the other half: each function is in its class once, has its own lines, takes none of another's, and an error in it stays in it; a header without an end is cut where the code cuts it |
| `AnnotationAnalyzer` | up to 4 lines of annotations about warnings, 3 about the script, 3 about exports and calls | `AnnotationsInForce`: a warning is suppressed exactly where the text says; of the exports of one variable the first counts; annotations of the script lead it; the tool mode is known in time; a class with an abstract method is reported exactly if it is not abstract |
| `WarningPolicy` | up to 4 lines of settings | `PolicyAsWritten`: the last setting counts, and the innermost rule of a directory |
| `FunctionBodies` | up to 5 lines of one of 7 alphabets | `BodiesJudged`: by an interpreter of the lines, what is reported as unreachable cannot run, a function reported for its missing return may run to its end; unused names are those that no line means; jumps leave a loop of their own function |
| `MemberConstants` | 4 constants in two classes: one fixed, the others with one of 13 or 17 expressions | `ConstantsJudged`: a circle is reported once and where it is, every constant is judged in the class that declares it, and what depends on a circle is quiet |
| `CallCheck` | up to 3 overloads of up to 2 parameters, up to 2 arguments | `CallsJudged`: a call that fits is accepted, one that fits none is reported where it fails, and the judgement of an argument is the same at every place |
| `FileUris` | every path of up to 3 of 7 characters, and 14 longer ones about drives, dots and separators, each with every coding of its characters, on both systems | `FilesIdentified`: all codings of an absolute and normal path have the URI that the server makes of that file, on Windows up to the case of the drive; any URI that the server makes is canonical and opens its file; what is opened is the file that was named |
| `WorkspaceRegistry` | 3 documents with 5, 4 and 4 texts, opened, changed, closed and refreshed without bound, 2 orders of the hash tables | `IndexCoherent`: after any sequence of changes, mended or rebuilt, the index is the one its texts give, and circles are broken; `AffectedComplete`: a change announces every document that looks different now |

`FileUris` takes what the standard library does with paths (`Normal`, `Absolute`) from
its documentation; the working directory of Windows is the root of drive `C:`. Left
out, for Windows, are network paths (two separators at the start) and names that end
in a dot or a space. `FunctionRecovery` counts the limit of a header in lines, and
lets it fall between two. `AnnotationAnalyzer` reduces an argument to a constant, to an
error or to neither; a name that resolves to something that is no constant
(`core/annotations.cpp:431-434`) and a value of a native enum (417) are not among its
arguments. `CallCheck` is about the list of overloads that `call_value` gets; how
that list is put together, and that signature help puts together another, is not
modelled.

`BodiesJudged`, `StructureRead`, `AnnotationsInForce` and the others are
conjunctions of parts that have a name and a comment of their own. For each part
the module has a wrong version of one of its definitions (marked `Mutant:`) which
TLC tells from the right one by that part.

What TLC showed about these parts and no run states as a disagreement, because
no document of the repository says otherwise: a global name that was declared
twice and becomes valid when one declaration goes is not announced to the
documents that use it (`AffectedByChange` is about names that are declared once);
a constant with the name of a global class hides it or not by the order of the
hash tables (`Unshadowed`); a method that the damaged tree gives to the script's
own class stays a member of it beside its recovered copy in the class it is in; a
class that the damaged tree lets run into a later function of the script goes from
the syntax, with its functions, when that one is parsed again, while their symbols
stay members (`core/document.cpp:1069-1071`; `FunctionsFound` asks for the lines of
such a node only where there is one); a client that names a path with dots, doubled
separators or, on Windows, without a drive names another document than the one that
was scanned, for `canonical_file_uri` decodes and codes but does not make a path
absolute and normal as `file_uri_for_path` does (`Ordinary`);
the mark that keeps a circle's constants from being reported a second time
(`suppress_invalid_constant`) does not pass through a subscript (`QuietOnCircles`
excepts those).

### Runs of these modules

| Run (cfg) | Question | Bounds |
|---|---|---|
| `processes` (`Processes`) | `StopLeavesNothing`, `SessionsServed`, `EngineUnderControl`, `StreamFaithful`, `RequestsAnswered`, `StateFollowsClient`, `PolicyAsWritten`, `SpansRight` | 2 connections of which one carries a request, 2 socket handles (symmetric); 3 programs, a pipe of 2, a log of 3, 5 outputs; 2 messages in and 2 packets out; 5 client messages, with no `--project` and two; settings and sources as in the table above |
| `language` (`Language`) | the other nine properties of the table above | the inputs of the table above |

The modules of a run share no state. `Processes` (with its instance in
`MCProcesses`) and `MCLanguage` put them side by side: each behaviour is one of one module, its `world`, and the others stand
still; a property is the module's own, in its world. One run then checks them
all, at the price of nothing but their sum. `CHECK_DEADLOCK FALSE`: each of these
worlds ends, when the input is read or the supervisor has exited.

Two connections show a handle that is recycled, a pipe end that is inherited
and a stop between two sessions. Three programs are the two probes and the
engine, and one of them more when a probe fails. The sets of lines were chosen so
that each alternative of the code is taken and that each wrong version is found.

### Disagreements with documents and tests

Each is a run that TLC finds violated, and an entry of `findings`:

* `lost_clearing`: a full scan empties the queues and lists the indexed
  documents; a removed document that was still to be cleared keeps its
  diagnostics in the client. A document that is not indexed and was queued for a
  waiting request is dropped the same way, which is why `pulls` leaves out the
  saves and reconnections that scan from the main thread: its property fails with
  either of them.
* `stale_report`: an engine report on the text before an edit, passed on between
  `begin_update` and `update_document`, is published with the new version. For the
  same reason a report on a removed file can arrive after its diagnostics were
  cleared; `OnlyFullScanLosesPresent` leaves such documents out.
  It leaves out sessions whose files other programs write for another reason, below.
* `swallowed_stop`: a session that was just forked still has the supervisor's
  handler for SIGTERM; the signal that is to stop it is swallowed, the session
  goes on to serve its client, and the supervisor waits for it.

Three more states that the model reaches and that no document speaks about, so that
no run lists them. `begin_update` raises the generation before the index is
changed, so that one generation can see two texts. A request that starts before
the engine is ready (line 39) may take the generation of a polled change, read the
text from before it, wait while the worker submits the new text, and submit the old
one after it (lines 213-226): the bridge accepts any text that differs, and the
engine's report on the old text is passed on as the present one. `Lost` is then
entered without a full scan; the `engine` run has requests, an engine that comes
and goes, edits, saves and polls, but no other program that writes files. The
other two: a full scan takes new stamps (line 91 of
`diagnostic_coordinator.cpp`) without refreshing the files, so a change made since
the last poll is never indexed (`Hidden`; `OnlyFullScanHides` says that nothing
else does it); and a file that is created and removed between two polls but
indexed in between by a file event or a close stays in the index, because
`refresh_external_files` (lines 197-200) compares stamps only.

### Proofs

`DiagnosticCoordinatorProof` proves for every set of documents and requests,
every dependency relation and every bound, from `ReadsAssumption`,
`BoundsAssumption` and `NoneAssumption`:

* `TypeCorrect`: `Spec => []TypeOK`;
* `RepliesOnce`: `Spec => []ReplyOnce`;
* `StopAnswersAll`: `Spec => []ShutdownAnswersAll`;
* `BuffersWin`: `Spec => []OpenBufferWins`.

None of the four is inductive. The invariant `IInv` adds: a thread that
publishes has a document in hand (`UriKnown`; without it a queue could receive
`None`); each request that was received is in exactly one of three places,
waiting in `pulls`, held by the main thread, or answered (`PullPlaced`), the main
thread holds requests only while it registers or drains them (`PullsHeld`), and
`stopping` coincides with the main thread's last labels and an empty `pulls`
(`StopOrder`); while the main thread handles an edit its job carries the text of
the editor (`EditPlaced`), and outside that handling the index agrees with the
editor (`BuffersAgree`); what is edited again or closed is in the index as its buffer
until then (`Buffered`). `IInv` was checked by TLC on the instances of the runs
before it was proved. The proof has one lemma per conjunct and, in it, one step
per action; `StepFrame` and `StepCarries` collect what the functions shared by
the threads may change, so that each conjunct is checked once for all of them.

`DiagnosticUpdatesProof` goes on from `IInv` to what the scheduler does with a
change:

* `NothingHidden`: `Spec => OnlyFullScanHides`;
* `NothingLostAlone`: `Spec => OnlyFullScanLoses`, if `~CanConnect`;
* `NothingPresentLost`: `Spec => OnlyFullScanLosesPresent`, if `"disk"` is not in
  `Traffic` (no other program writes files; the editor saves, and polls and file
  events notice it), with or without an engine.

All three rest on `KeptInductive`, `Spec => [](IInv /\ Kept)`. `Kept` says what each
thread holds at each point of an update, a scan and a publication (`Tasks`: what
is still to be read is part of what was to be read, only edits and files have an
update, a generation that was noted is not ahead of the present one), that a
document in `open` has a buffer (`OpenIsBuffered`; a poll may leave it alone), that
the poll stays in the root (`InRoot`), and
that no stamp and no buffer is ahead of the clock (`Stamped`; a file that another
program wrote has a new stamp). A change then cannot be hidden: `stamps` are exchanged
before the files are read, what changed is in the poll's hands from then on (`Refreshing`), and a closed
buffer is on the main thread's list until its file is read again.

`NothingLostAlone` is about a step that would make `Lost(u)` true. `Pending(u)`
says that `u` is queued or will be when an update finishes. What the worker
computed is either right or there is something pending (`Fresh`), a step of an
update makes wrong only what it has in its scope or among the affected, before and
after (`Reads` is reflexive and transitive, so a change reaches exactly these), and
a worker that finds another generation hands its document back. `Alone` says that
without an engine nobody reports but the worker. The assumption `~CanConnect` is
needed: with an engine the clearing of a removed document can be lost, and so can
what the section on disagreements describes. The attempt to prove it found an error
of the model: `Updating` counted an update that the workspace refuses, outside of
the root, as one that will schedule its document. It no longer does (`Refused`).

`NothingPresentLost` is the same for a document that exists, with an engine that
comes, goes and is reconnected, while edits, closes, saves, requests, polls and file
events interleave as they like: a poll may find a saved file before `didSave`, between
two edits, or while the document is being closed. Its hypothesis says that no other
program writes the files; the last paragraph of the section on disagreements shows how
it fails otherwise.
The difficulty is that the coordinator forgets: with an engine the worker submits a
text and returns, and `submit` drops a text that the bridge has already, so that the
next report depends on what every thread did before. In place of `Alone` the
invariant has

* `Settled`: a document of the root that the index holds from its file has there what
  is on the disk, unless it is being opened (`Opening`), in which case the editor may
  already have saved it; so only the main thread's edits, closes and refreshes around
  them change a text;
* `Linked`, `Carried` and `Entered`: what the session, the bridge's thread and the
  bridge's table of documents hold of each other (a connection that reports is of
  the present epoch, a new one asks about every document, and what is held but not
  queued is what was asked about last);
* `Claimed`: the worker claims the engine's authority only to clear a document;
* `Stale`, a name for a worker that read its text before an edit of the same
  generation, with what follows from it: there is none of a document whose edit or
  refresh is still to be applied (`Awaits`), nor does the bridge hold another text of
  it from that generation, and while both threads are in an update nothing of the
  present generation is held at all (`Untouched`); there is none
  while a request is served that began before the engine was
  ready (`Requested`; that is the step that fails when other programs write), and the
  bridge does not hold the newer text behind one (`Unserved`);
* `Told`: what was asked for and is neither queued nor on its way was reported;
* `FreshEntries` and `FreshReport`: what the bridge holds and what it asks about is
  right, or somebody will look at the document again (`Behind`).

A submission that the bridge drops then leaves nothing undone: the same text is with
the engine, or on its way to the client, or the client has its diagnostics
(`WorkerPublishes`, `EngineKeeps`). All of these were checked by TLC before they were
proved, on instances like that of the `engine` run.

`EngineBridgeProof` proves, for every set of documents, every mode, habit and
bound, from `BoundsAssumption` and `NoneAssumption`:

* `TypeCorrect`: `Spec => []TypeOK`;
* `AuthorityBacked`: `Spec => []ReadyIsBacked`;
* `OrderKept`: `Spec => []InOrder`;
* `SavesAreKept`: `Spec => SavesKept`;
* `VerdictTrusted` and `BridgeImplementsContract`: `Spec => [](IInv /\ Queues /\ Trusted)`
  and `Spec => ImplementsContract`, for an editor that does not both repeat reports
  and leave some out (`Habits` does not have `"again"` and `"silent"`).

The type needs `Placed`, which ties the label to the locals: from `send` to
`check` a document is in hand, and from `reported` on a verdict is too (without it
`Check` could pass on `None`).
`AuthorityBacked` holds because `set_state` is a comparison of epochs and an
assignment in one critical section, and each method that raises the epoch
assigns the status in the same one, `stop` excepted.

The rest is about the two queues to and from the editor. `Queues` is inductive
together with `IInv` (`QueuesInductive`) and has three parts. `Wire`: at each label
the queue to the editor has one of a few shapes, such as a text, perhaps a save,
and the barrier, and what the editor has opened differs from what the worker
believes by what is in the queue (`InOrder` is a consequence). `Barriers`: an answer
is under way only while the worker waits for it with nothing left to be read by the
editor, and then there is one, the answer to its own request; this is why an answer of an
earlier transaction cannot end a later one. `Quiet`: an editor that does not repeat
itself has nothing to say between transactions. `Trusted` follows from these: what
stands in the queue about the document in hand, on another text than the one sent,
is overtaken by a report on this text before the answer. It fails if a report
on an older text is repeated while the one on the new text is left out, which the
worker cannot tell from a verdict: the protocol has no version in it. TLC finds
`ImplementsContract` violated with both habits, and the assumption excludes
no editor that has only one.

`Control` (`ControlInductive`) is about the worker and its callers: the connection
belongs to an epoch that has begun, and to a past one after `stop` (`Epochs`); while
it is of the present epoch the engine is wanted (`Attached`); at `announce`
everything is queued and nothing in hand (`AllQueued`, `InHand`); a remembered save
is marked on its document (`Marked`). With it each step maps to one of the
contract, or to none: a caller's method to the method, `Announce` to the start of a
session, `Check` to a report on the text of the revision that the document still
has, and everything on the wire to a stutter.

`EngineTransportProof` proves two theorems about the engine's process and its
connection.

* `UnderControl`: `Spec => []EngineUnderControl`, for every bound on the starts,
  from `BoundsAssumption`, and for every size of the log. Programs
  are started one after the other (`InOrder`), so
  the one forked last is the only one that is not accounted for until the parent
  has noted it (`Accounted`); `Known` ties the labels to the two ids, `Leads` says
  that what may be killed leads its group, and `Logged` that the end of what
  was printed is in the log, as much as it holds, and after it what is in the pipe.
* `StreamsWhole`: `AllSpec => []StreamFaithful`, for every set of dialogs and packets
  and every limit that satisfy `Setting`, which TLC evaluates for the instance of
  `MCProcesses`. A dialog comes with its units and with the place where each message
  starts (`LaidOut`), so that the theorem needs no induction along the messages.
  `Ahead` says which units of the next message the buffer has, and `FirstBlank` that
  the first blank line in it ends this message's header, whatever the body looks
  like; `Received` follows, and that nothing whole is overlooked.

`TcpSupervisorProof` proves, for every set of ids and connections, from
`NoneAssumption`:

* `TypeCorrect`: `Spec => []TypeOK`;
* `SignalsStayHome`: `Spec => []SignalsOnlySessions`;
* `NoSessionLeft`: `Spec => []NoOrphans`;
* `ConnectionsSeparate`: `Spec => []HeldByItsSession`.

The invariant adds `Books` (which sessions are in `children`, in `child` or in
`todo` at each label: this is what makes a child that is forked but not yet
recorded, or killed but not yet waited for, impossible to lose) and
`Descriptors` (the supervisor holds a connection only from accept to the
parent's `close`, no session has one that it still has before the fork, a forked
session has the one it serves, and a connection that anybody holds was accepted
and so is not accepted again).

`TcpSupervisorWindowsProof` proves, for every set of connections and sockets,
which of them are active included, and without an assumption:

* `StopReachesAll`: `AllSpec => []StopLeavesNothing`;
* `SessionsDeliver`: `AllSpec => []SessionsServed`.

The invariant adds to the types:

* `Handles`: a connection has a socket of its own from its accept to the end of its
  session;
* `Stops`: the listener is closed exactly by a stop, the job exactly when the
  supervisor waits for its sessions, and then every socket of a session that has not
  finished is shut down both ways;
* `Lives`: a program that is in the job lives no longer than the job, one that is
  not is at `assign`, and none is suspended once its session relays or waits;
* `Replies`: what each place of a relay knows of the traffic; a socket is shut down
  for sending by a stop or by the end of the output only;
* `Pipes`: a supervisor's thread holds the two ends that it uses while its session
  relays and no others, and an input that has ended has closed its own.

A stop is never stuck because of the last three: when the job is closed, the only
program left is one at `assign`, whose session goes on; otherwise nobody holds the
other ends of the pipes, so that reads end and writes fail, and the sockets are shut
down, so that receives and sends return. For a client that hung up the same argument
takes the exception of `HangUpEndsSession` in place of the closed job.

`ProcessesProof` proves, for every set of ids, documents, texts, directories,
settings and sources, and every bound, about three modules of `Processes`:

* `RequestsGetAnswers`: `AllSpec => []RequestsAnswered`. A cancellation that is
  remembered has not refused a later request yet, whether or not it refused one that
  waited; what waits after the shutdown came after it.
* `StateIsTheClients`: `AllSpec => []StateFollowsClient`, from `DirectoriesAssumption`
  (`Tree`: every directory has a parent or is outermost). The snippets follow the last
  `initialize` and there is no completion before one succeeds; the buffers are what
  the client shows and none is open before `initialize`. The root that was found is
  the only project among its own surroundings, so that it is below every other that
  holds the file.
* `PolicyFollowsSettings`: `AllSpec => []PolicyAsWritten`, from `LinesAssumption`
  (`Written`: the rules of one line give each directory one decision). The invariant
  says what each part of the policy is in terms of the last line of its kind
  (`LatestOf`); that a set of lines has a last one, and the prefixes of a path a
  longest, is the well-foundedness of `<`.
* `SpansFound`: `AllSpec => []SpansRight`, from `SourcesAssumption` (`Finite`: a source is
  a sequence of bytes, any bytes). The reference is a recursive function of the number
  of bytes read. `ReadingSteps` says that it has its equations: by the
  well-foundedness of `<` every number has a prefix of it (`PrefixExists`), and two
  prefixes agree (`PrefixUnique`). In the invariant scan and reader are in the same
  thing: in code, and then no raw string begins that the scan has run past (`InCode`),
  in the same comment (`InComment`), in a string of the same quote, width and kind
  (`InString`), where the reader is in the middle of an escape only at the end of the
  source. `SpansRead` says what the reader finds at each byte of a finished span,
  `CodeRead` at each byte before the scan that is in none.

`MemberConstantsProof` proves `OrderMakesNoDifference`: `Spec => []ConstantsJudged`, for
every script whose expressions are made as the parser makes them
(`ScriptsAssumption`). The stack of evaluations is a chain: each constant on it waits
for the one above, which it needs, so that a constant that is met again on it is on a
circle, and the class is the topmost one's (`Chained`). What has a value has it from
values of its operands, what is quiet needs a circle, and what depends on the running
program for another reason is what was reported (`Judged`). `Reach` is the least set
that is closed under operands, rather than a recursion. That nothing needs a circle
unnoticed would be an induction along the operands; in its place stands that of any
constants that have a value one had it first, and was given those of the others that
it needs only by the report of a circle (`Ordered`).

### What is only model-checked

Liveness (`Settles`, `PullAnswered`, `StopCompletes`, `EventuallyReported`,
`StopJoins`) needs fairness and `ENABLED`, which the prover does not handle.
`AnnotationsInForce`, `TextFollowsEditor`, `FilesIdentified`, `BodiesJudged`,
`StructureRead`, `CallsJudged`, `IndexCoherent` and `AffectedComplete` compare the
results of recursive definitions over sequences and trees with other recursive
definitions; what such a definition computes for every input is an induction that
the library's theorems, with an operator as a parameter, do not give the installed
provers. (`SpansFound` has one along the bytes of a source, over a set in place of
the parameter.)
Nothing can be proved of the properties of the runs with `expect` "violation": they
are false.

## Plan

Done: the coordinator, the bridge with its contract, both supervisors, the
engine's process and connection, the message loop, the index, and the algorithms
on texts and scripts that decide what is reported; the proofs above. In the order
of what matters most:

1. `Session` composed with the coordinator's request interface, in place of the
   `pulls` it has instead.
2. The caret context, and the inference of the types of expressions over a small
   table of types.

## Not modelled

* The grammar (tree-sitter, vendored) and the symbols made of a sound tree: the
  modules take lines or declarations as input, and `FunctionRecovery` every tree
  that a parser might make.
* The inference of every expression's type, signals and the folding of
  constants: `MemberConstants` says whether a value is known, not which it is, so
  that the overflow of folded integers (`core/semantic_analyzer.cpp:937`) is a
  hazard without a property.
* Queries (completion, signature help, hover, outline, references, rename): they read
  the index and change nothing.
* The caret context, which reads the lexical map and the tree around one place.
* The native API and the Unicode table, which are data read once; the modules that
  ask them something have a small table as a constant.
* Connecting sockets, setting up listeners, the Windows branches of the engine's
  process, and the framing of the editor's own messages on standard input.
* Real time (poll interval, background delay, deadlines) is replaced by
  nondeterminism; a poll that takes longer than its interval starves the background
  queue (`diagnostic_coordinator.cpp:308`), which the fairness of the runs excludes.
* Formatting, logging and the text of messages, the editor plug-in, and the
  parse-tree tool.
