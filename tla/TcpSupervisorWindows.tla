------------------------- MODULE TcpSupervisorWindows -------------------------
(***************************************************************************)
(* The TCP supervisor on Windows (src/src/lsp/tcp_adapter_windows.cpp).    *)
(* There is no fork: a thread per connection starts the session program    *)
(* with two pipes for its standard input and output, and two more threads  *)
(* copy between the pipes and the socket.  The session programs belong to  *)
(* a job object that takes them with it when the supervisor closes it.     *)
(*                                                                         *)
(* CreateProcess gives a new program every handle that is inheritable at   *)
(* that moment, whichever thread made it: a pipe's reader sees the end of  *)
(* the input only when no live program has its writing end.                *)
(* The traffic of a connection is one request and its reply.               *)
(***************************************************************************)
EXTENDS FiniteSets

CONSTANTS
    Clients,       \* connections, each made at most once
    Active,        \* those that may ask or hang up before they are cut off
    Sockets,       \* socket handles, which the system recycles
    None

VARIABLES
    pc, stopping, listener, registry, sessions, job,  \* run_tcp_adapter_windows
    client,        \* the client's end of a connection
    stage,         \* where run_session is for a connection
    sock, shut,    \* its socket, and the directions that were shut down
    ends, leaky,   \* the pipe ends the supervisor holds; the inheritable ones
    output, input, \* the two copying threads
    process,       \* the session program
    inJob,
    inherits,      \* the pipe ends of other sessions the program was given
    traffic        \* how far the request and its reply have come

main == <<pc, stopping, listener, registry, sessions, job>>
threads == <<stage, sock, shut, ends, leaky, output, input>>
programs == <<process, inJob, inherits>>
vars == <<main, client, threads, programs, traffic>>

Ends == {"inR", "inW", "outR", "outW"}
Both == {"receive", "send"}

-----------------------------------------------------------------------------
(* Who holds what.                                                         *)

Alive(c) == process[c] \in {"suspended", "running"}

(* A session program has its own standard input and output for life.       *)
HeldOutside(c, end) ==
    \E d \in Clients : Alive(d) /\ <<c, end>> \in inherits[d]

HasReader(c) == Alive(c) \/ "inR" \in ends[c] \/ HeldOutside(c, "inR")
InputEnds(c) == "inW" \notin ends[c] /\ ~HeldOutside(c, "inW")
OutputEnds(c) == ~Alive(c) /\ "outW" \notin ends[c] /\ ~HeldOutside(c, "outW")

-----------------------------------------------------------------------------
(* The calls that block.  Each returns by itself when what it waits for    *)
(* is there, whatever the client does from then on.                        *)

WaitReturns(c) == stage[c] = "wait" /\ ~Alive(c)
JoinReturns(c) == stage[c] = "join" /\ output[c] = "ended" /\ input[c] = "ended"
ReadReturns(c) == output[c] = "read" /\ (traffic[c] = "piped" \/ OutputEnds(c))
SendReturns(c) == output[c] = "send" /\ ("send" \in shut[c] \/ client[c] = "gone")

(* select with its 100 ms timeout, then recv under socket_mutex.           *)
ReceiveReturns(c) ==
    /\ input[c] = "select" /\ output[c] # "send"
    /\ \/ "receive" \in shut[c] \/ traffic[c] = "sent"
       \/ client[c] \in {"finished", "gone"}

WriteReturns(c) == input[c] = "write" /\ (process[c] = "running" \/ ~HasReader(c))

(* What the program waits for: a request, or the end of its input.         *)
Asked(c) == traffic[c] = "asked" /\ "outR" \in ends[c]
ProgramReturns(c) == process[c] = "running" /\ (Asked(c) \/ InputEnds(c))

Stage(c, from, to) == stage[c] = from /\ stage' = [stage EXCEPT ![c] = to]

-----------------------------------------------------------------------------
(* The console handler and the main thread.                                *)

ConsoleEvent ==
    /\ pc # "exited"
    /\ stopping' = TRUE /\ listener' = FALSE
    /\ UNCHANGED <<pc, registry, sessions, job, client, threads, programs,
                   traffic>>

(* The head of the loop and reap_sessions.                                 *)
Loop ==
    /\ pc = "loop"
    /\ IF stopping THEN pc' = "closing" /\ UNCHANGED sessions
       ELSE pc' = "accept" /\ sessions' = {c \in sessions : stage[c] # "done"}
    /\ UNCHANGED <<stopping, listener, registry, job, client, threads, programs,
                   traffic>>

FreeSockets == Sockets \ {sock[c] : c \in Clients}

(* accept, and SetHandleInformation, which fails or does not.              *)
Accept(c, s) ==
    /\ pc = "accept" /\ listener /\ client[c] = "waiting" /\ s \in FreeSockets
    /\ \/ /\ client' = [client EXCEPT ![c] = "open"]
          /\ sock' = [sock EXCEPT ![c] = s] /\ pc' = "start"
       \/ /\ client' = [client EXCEPT ![c] = "gone"]
          /\ UNCHANGED sock /\ pc' = "loop"
    /\ UNCHANGED <<stopping, listener, registry, sessions, job, stage, shut,
                   ends, leaky, output, input, programs, traffic>>

(* Another error than a closed listener: try again.                        *)
AcceptFails ==
    /\ pc = "accept" /\ listener
    /\ pc' = "loop"
    /\ UNCHANGED <<stopping, listener, registry, sessions, job, client, threads,
                   programs, traffic>>

(* A listener that was closed ends a waiting accept and the loop.          *)
AcceptClosed ==
    /\ pc = "accept" /\ ~listener
    /\ pc' = "closing"
    /\ UNCHANGED <<stopping, listener, registry, sessions, job, client, threads,
                   programs, traffic>>

(* The socket is registered before the thread that owns it starts.         *)
StartSession(c) ==
    /\ pc = "start" /\ Stage(c, "none", "pipes") /\ sock[c] # None
    /\ registry' = registry \cup {sock[c]}
    /\ sessions' = sessions \cup {c} /\ pc' = "loop"
    /\ UNCHANGED <<stopping, listener, job, client, sock, shut, ends, leaky,
                   output, input, programs, traffic>>

CloseListener ==
    /\ pc = "closing"
    /\ listener' = FALSE /\ pc' = "shutdown"
    /\ UNCHANGED <<stopping, registry, sessions, job, client, threads, programs,
                   traffic>>

(* Mutant: only receiving is shut down.                                    *)
ShutdownReceives ==
    /\ pc = "shutdown"
    /\ shut' = [c \in Clients |-> IF sock[c] \in registry
                                 THEN shut[c] \cup {"receive"} ELSE shut[c]]
    /\ pc' = "job"
    /\ UNCHANGED <<stopping, listener, registry, sessions, job, client, stage,
                   sock, ends, leaky, output, input, programs, traffic>>

ShutdownSockets ==
    /\ pc = "shutdown"
    /\ shut' = [c \in Clients |-> IF sock[c] \in registry THEN Both ELSE shut[c]]
    /\ pc' = "job"
    /\ UNCHANGED <<stopping, listener, registry, sessions, job, client, stage,
                   sock, ends, leaky, output, input, programs, traffic>>

(* JOB_OBJECT_LIMIT_KILL_ON_JOB_CLOSE.                                     *)
CloseJob ==
    /\ pc = "job"
    /\ job' = FALSE /\ pc' = "join"
    /\ process' = [c \in Clients |-> IF inJob[c] THEN "dead" ELSE process[c]]
    /\ UNCHANGED <<stopping, listener, registry, sessions, client, threads,
                   inJob, inherits, traffic>>

JoinAll ==
    /\ pc = "join" /\ \A c \in sessions : stage[c] = "done"
    /\ sessions' = {} /\ pc' = "exited"
    /\ UNCHANGED <<stopping, listener, registry, job, client, threads, programs,
                   traffic>>

-----------------------------------------------------------------------------
(* run_session: one action per call that matters; a call that fails goes   *)
(* straight to finish.                                                     *)

(* CreatePipe twice: all four ends are inheritable at first.               *)
CreatePipes(c) ==
    /\ \/ /\ Stage(c, "pipes", "configure")
          /\ ends' = [ends EXCEPT ![c] = Ends]
          /\ leaky' = [leaky EXCEPT ![c] = Ends]
       \/ Stage(c, "pipes", "finish") /\ UNCHANGED <<ends, leaky>>
       \/ /\ Stage(c, "pipes", "finish")
          /\ ends' = [ends EXCEPT ![c] = {"inR", "inW"}]
          /\ leaky' = [leaky EXCEPT ![c] = {"inR", "inW"}]
    /\ UNCHANGED <<main, client, sock, shut, output, input, programs, traffic>>

(* SetHandleInformation of the supervisor's ends, and inheritable_stderr.  *)
Configure(c) ==
    /\ \/ /\ Stage(c, "configure", "spawn")
          /\ leaky' = [leaky EXCEPT ![c] = {"inR", "outW"}]
       \/ Stage(c, "configure", "finish") /\ UNCHANGED leaky
    /\ UNCHANGED <<main, client, sock, shut, ends, output, input, programs,
                   traffic>>

(* CreateProcess(CREATE_SUSPENDED, inherit): it gets the inheritable ends  *)
(* of every session.                                                       *)
Spawn(c) ==
    /\ \/ /\ Stage(c, "spawn", "assign")
          /\ process' = [process EXCEPT ![c] = "suspended"]
          /\ inherits' = [inherits EXCEPT ![c] =
                 UNION {{d} \X leaky[d] : d \in Clients \ {c}}]
       \/ Stage(c, "spawn", "finish") /\ UNCHANGED <<process, inherits>>
    /\ UNCHANGED <<main, client, sock, shut, ends, leaky, output, input, inJob,
                   traffic>>

(* Mutant: a program that could not be supervised is left as it is.        *)
AssignLeaves(c) ==
    /\ \/ /\ job /\ Stage(c, "assign", "resume")
          /\ inJob' = [inJob EXCEPT ![c] = TRUE] /\ UNCHANGED process
       \/ Stage(c, "assign", "finish") /\ UNCHANGED <<inJob, process>>
    /\ UNCHANGED <<main, client, sock, shut, ends, leaky, output, input,
                   inherits, traffic>>

(* AssignProcessToJobObject; a program that is not in the job is ended and *)
(* waited for.  The job may have been closed by now.                       *)
Assign(c) ==
    /\ \/ /\ job /\ Stage(c, "assign", "resume")
          /\ inJob' = [inJob EXCEPT ![c] = TRUE] /\ UNCHANGED process
       \/ /\ Stage(c, "assign", "finish")
          /\ process' = [process EXCEPT ![c] = "dead"] /\ UNCHANGED inJob
    /\ UNCHANGED <<main, client, sock, shut, ends, leaky, output, input,
                   inherits, traffic>>

Resume(c) ==
    /\ \/ /\ Stage(c, "resume", "relay")
          /\ process' = [process EXCEPT ![c] = IF @ = "suspended" THEN "running"
                                               ELSE @]
       \/ /\ Stage(c, "resume", "finish")
          /\ process' = [process EXCEPT ![c] = "dead"]
    /\ UNCHANGED <<main, client, sock, shut, ends, leaky, output, input, inJob,
                   inherits, traffic>>

(* Mutant: the supervisor keeps the program's ends of the pipes.           *)
RelayKeepsEnds(c) ==
    /\ Stage(c, "relay", "wait")
    /\ output' = [output EXCEPT ![c] = "read"]
    /\ input' = [input EXCEPT ![c] = "select"]
    /\ UNCHANGED <<main, client, sock, shut, ends, leaky, programs, traffic>>

(* Close the program's ends and start the two copying threads.             *)
Relay(c) ==
    /\ Stage(c, "relay", "wait")
    /\ ends' = [ends EXCEPT ![c] = {"inW", "outR"}]
    /\ leaky' = [leaky EXCEPT ![c] = {}]
    /\ output' = [output EXCEPT ![c] = "read"]
    /\ input' = [input EXCEPT ![c] = "select"]
    /\ UNCHANGED <<main, client, sock, shut, programs, traffic>>

(* Mutant: the end of the program shuts the connection down both ways.     *)
WaitProcessShutsBoth(c) ==
    /\ WaitReturns(c) /\ Stage(c, "wait", "join")
    /\ shut' = [shut EXCEPT ![c] = Both]
    /\ UNCHANGED <<main, client, sock, ends, leaky, output, input, programs,
                   traffic>>

(* WaitForSingleObject, then shutdown(SD_RECEIVE) to wake the input thread. *)
WaitProcess(c) ==
    /\ WaitReturns(c) /\ Stage(c, "wait", "join")
    /\ shut' = [shut EXCEPT ![c] = @ \cup {"receive"}]
    /\ UNCHANGED <<main, client, sock, ends, leaky, output, input, programs,
                   traffic>>

Join(c) ==
    /\ JoinReturns(c) /\ Stage(c, "join", "finish")
    /\ UNCHANGED <<main, client, sock, shut, ends, leaky, output, input,
                   programs, traffic>>

(* Mutant: the socket is closed before it leaves the registry.             *)
FinishClosesFirst(c) ==
    \/ /\ Stage(c, "finish", "close")
       /\ ends' = [ends EXCEPT ![c] = {}] /\ leaky' = [leaky EXCEPT ![c] = {}]
       /\ sock' = [sock EXCEPT ![c] = None] /\ shut' = [shut EXCEPT ![c] = {}]
       /\ UNCHANGED <<main, client, output, input, programs, traffic>>
    \/ /\ Stage(c, "close", "done")
       /\ registry' = registry \cap {sock[d] : d \in Clients}
       /\ UNCHANGED <<pc, stopping, listener, sessions, job, client, ends, leaky,
                      sock, shut, output, input, programs, traffic>>

(* finish: the handles and the place in the registry, then the socket.     *)
Finish(c) ==
    \/ /\ Stage(c, "finish", "close")
       /\ ends' = [ends EXCEPT ![c] = {}] /\ leaky' = [leaky EXCEPT ![c] = {}]
       /\ registry' = registry \ {sock[c]}
       /\ UNCHANGED <<pc, stopping, listener, sessions, job, client, sock, shut,
                      output, input, programs, traffic>>
    \/ /\ Stage(c, "close", "done")
       /\ sock' = [sock EXCEPT ![c] = None] /\ shut' = [shut EXCEPT ![c] = {}]
       /\ UNCHANGED <<main, client, ends, leaky, output, input, programs, traffic>>

-----------------------------------------------------------------------------
(* The thread that copies the program's output to the client.  It holds    *)
(* socket_mutex while it sends.                                            *)

ReadOutput(c) ==
    /\ ReadReturns(c)
    /\ \/ /\ traffic[c] = "piped"
          /\ traffic' = [traffic EXCEPT ![c] = "sending"]
          /\ output' = [output EXCEPT ![c] = "send"]
       \/ /\ traffic[c] # "piped"
          /\ output' = [output EXCEPT ![c] = "close"] /\ UNCHANGED traffic
    /\ UNCHANGED <<main, client, stage, sock, shut, ends, leaky, input, programs>>

(* The client takes the reply: nobody can make it.                         *)
SendSucceeds(c) ==
    /\ output[c] = "send" /\ "send" \notin shut[c] /\ client[c] # "gone"
    /\ traffic' = [traffic EXCEPT ![c] = "answered"]
    /\ output' = [output EXCEPT ![c] = "read"]
    /\ UNCHANGED <<main, client, stage, sock, shut, ends, leaky, input, programs>>

SendFails(c) ==
    /\ SendReturns(c)
    /\ traffic' = [traffic EXCEPT ![c] = "lost"]
    /\ output' = [output EXCEPT ![c] = "close"]
    /\ UNCHANGED <<main, client, stage, sock, shut, ends, leaky, input, programs>>

CloseOutput(c) ==
    /\ output[c] = "close"
    /\ output' = [output EXCEPT ![c] = "ended"]
    /\ ends' = [ends EXCEPT ![c] = @ \ {"outR"}]
    /\ shut' = [shut EXCEPT ![c] = Both]
    /\ UNCHANGED <<main, client, stage, sock, leaky, input, programs, traffic>>

-----------------------------------------------------------------------------
(* The thread that copies the client's requests to the program.            *)

Receive(c) ==
    /\ ReceiveReturns(c)
    /\ \/ /\ "receive" \notin shut[c] /\ traffic[c] = "sent"
          /\ traffic' = [traffic EXCEPT ![c] = "held"]
          /\ input' = [input EXCEPT ![c] = "write"]
       \/ /\ "receive" \in shut[c] \/ traffic[c] # "sent"
          /\ input' = [input EXCEPT ![c] = "close"] /\ UNCHANGED traffic
    /\ UNCHANGED <<main, client, stage, sock, shut, ends, leaky, output, programs>>

(* write_pipe: the program reads, or nobody is left to read.               *)
WriteInput(c) ==
    /\ WriteReturns(c)
    /\ \/ /\ process[c] = "running"
          /\ traffic' = [traffic EXCEPT ![c] = "asked"]
          /\ input' = [input EXCEPT ![c] = "select"]
       \/ /\ process[c] # "running"
          /\ traffic' = [traffic EXCEPT ![c] = "idle"]
          /\ input' = [input EXCEPT ![c] = "close"]
    /\ UNCHANGED <<main, client, stage, sock, shut, ends, leaky, output, programs>>

(* The program is dead, but another one has the reading end: the write may *)
(* fill the pipe, or block as long as that program lives.                  *)
WriteToNobody(c) ==
    /\ input[c] = "write" /\ ~Alive(c) /\ HasReader(c)
    /\ traffic' = [traffic EXCEPT ![c] = "idle"]
    /\ input' = [input EXCEPT ![c] = "select"]
    /\ UNCHANGED <<main, client, stage, sock, shut, ends, leaky, output, programs>>

CloseInput(c) ==
    /\ input[c] = "close"
    /\ input' = [input EXCEPT ![c] = "ended"]
    /\ ends' = [ends EXCEPT ![c] = @ \ {"inW"}]
    /\ shut' = [shut EXCEPT ![c] = @ \cup {"receive"}]
    /\ UNCHANGED <<main, client, stage, sock, leaky, output, programs, traffic>>

-----------------------------------------------------------------------------
(* Session programs and clients.                                           *)

Dies(c) ==
    /\ process' = [process EXCEPT ![c] = "dead"]
    /\ UNCHANGED <<main, client, threads, inJob, inherits, traffic>>

Reply(c) ==
    /\ ProgramReturns(c) /\ Asked(c)
    /\ traffic' = [traffic EXCEPT ![c] = "piped"]
    /\ UNCHANGED <<main, client, threads, programs>>

(* The message loop ends with its input, after its last reply.             *)
ProgramEnds(c) ==
    /\ ProgramReturns(c) /\ ~Asked(c)
    /\ Dies(c)

Crash(c) == process[c] = "running" /\ Dies(c)

Connect(c) ==
    /\ client[c] = "away" /\ listener
    /\ client' = [client EXCEPT ![c] = "waiting"]
    /\ UNCHANGED <<main, threads, programs, traffic>>

Ask(c) ==
    /\ c \in Active /\ client[c] = "open" /\ traffic[c] = "idle"
    /\ stage[c] # "done"
    /\ traffic' = [traffic EXCEPT ![c] = "sent"]
    /\ UNCHANGED <<main, client, threads, programs>>

(* The client closes its sending side, or everything.                      *)
HangUp(c) ==
    /\ c \in Active /\ client[c] \in {"open", "finished"} /\ stage[c] # "done"
    /\ \/ client[c] = "open" /\ client' = [client EXCEPT ![c] = "finished"]
       \/ client' = [client EXCEPT ![c] = "gone"]
    /\ UNCHANGED <<main, threads, programs, traffic>>

-----------------------------------------------------------------------------
(* Init is the state in which run_tcp_adapter_windows enters its loop.     *)

Init ==
    /\ pc = "loop" /\ stopping = FALSE /\ listener = TRUE
    /\ registry = {} /\ sessions = {} /\ job = TRUE
    /\ client = [c \in Clients |-> "away"]
    /\ stage = [c \in Clients |-> "none"]
    /\ sock = [c \in Clients |-> None] /\ shut = [c \in Clients |-> {}]
    /\ ends = [c \in Clients |-> {}] /\ leaky = [c \in Clients |-> {}]
    /\ output = [c \in Clients |-> "none"] /\ input = [c \in Clients |-> "none"]
    /\ process = [c \in Clients |-> "none"]
    /\ inJob = [c \in Clients |-> FALSE]
    /\ inherits = [c \in Clients |-> {}]
    /\ traffic = [c \in Clients |-> "idle"]

MainStep ==
    \/ Loop \/ AcceptClosed \/ CloseListener \/ ShutdownSockets \/ CloseJob
    \/ JoinAll
    \/ \E c \in Clients : StartSession(c) \/ \E s \in Sockets : Accept(c, s)

SessionStep(c) ==
    \/ CreatePipes(c) \/ Configure(c) \/ Spawn(c) \/ Assign(c) \/ Resume(c)
    \/ Relay(c) \/ WaitProcess(c) \/ Join(c) \/ Finish(c)

OutputStep(c) == ReadOutput(c) \/ SendFails(c) \/ CloseOutput(c)
InputStep(c) == Receive(c) \/ WriteInput(c) \/ CloseInput(c)
ProgramStep(c) == Reply(c) \/ ProgramEnds(c)

Environment ==
    \/ ConsoleEvent \/ AcceptFails
    \/ \E c \in Clients :
          \/ SendSucceeds(c) \/ WriteToNobody(c) \/ Crash(c)
          \/ Connect(c) \/ Ask(c) \/ HangUp(c)

(* The steps of one connection's three threads and of its program.         *)
Works(c) == SessionStep(c) \/ OutputStep(c) \/ InputStep(c) \/ ProgramStep(c)

Next == MainStep \/ Environment \/ \E c \in Clients : Works(c)

Spec == Init /\ [][Next]_vars

-----------------------------------------------------------------------------
(* Properties.                                                             *)

Unfinished(c) == stage[c] \notin {"none", "close", "done"}

(* Each session that has not finished can be reached by the shutdown, and  *)
(* the registry names no socket but theirs: closing a connection must not  *)
(* overlap the registry's entry with a recycled handle.                    *)
SocketsRegistered == registry = {sock[c] : c \in {d \in Clients : Unfinished(d)}}

(* When the supervisor exits, no session program is left, wherever the     *)
(* stop met its thread: before its program was created, between creation   *)
(* and its entry in the job, or after.                                     *)
NoProgramLeft == pc = "exited" => \A c \in Clients : ~Alive(c)

(* A reply the program wrote reaches the client, unless the client is gone *)
(* or the supervisor stops: the end of the program cuts nothing off.       *)
RepliesArrive ==
    \A c \in Clients :
        (traffic[c] = "lost" \/ (stage[c] = "done" /\ traffic[c] = "piped")) =>
            stopping \/ client[c] = "gone"

(* One of the connection's threads or its program can go on: it is not in  *)
(* one of the calls that block, or that call returns.                      *)
GoesOn(c) ==
    \/ stage[c] \in {"pipes", "configure", "spawn", "assign", "resume", "relay",
                      "finish", "close"}
    \/ WaitReturns(c) \/ JoinReturns(c)
    \/ ReadReturns(c) \/ SendReturns(c) \/ output[c] = "close"
    \/ ReceiveReturns(c) \/ WriteReturns(c) \/ input[c] = "close"
    \/ ProgramReturns(c)

(* The main thread waits in accept, for a client or for the close of its   *)
(* listener, and for the sessions at the end.                              *)
MainGoesOn ==
    \/ pc \in {"loop", "start", "closing", "shutdown", "job"}
    \/ pc = "accept" /\ ~listener
    \/ pc = "join" /\ \A c \in sessions : stage[c] = "done"

(* A stop never gets stuck: until the supervisor has exited one of its own *)
(* threads or programs can go on, without a client that reads or hangs up, *)
(* room in a pipe or a crash.  Each of them has only so many steps left.   *)
StopNeverStuck ==
    stopping /\ pc # "exited" => MainGoesOn \/ \E c \in Clients : GoesOn(c)

SharedPipe(c) == \E d \in Clients, e \in Ends : <<c, e>> \in inherits[d]

(* When a client hangs up its session goes on to its end by itself, unless *)
(* another session's program was created while its pipes were inheritable. *)
HangUpEndsSession ==
    \A c \in Clients :
        client[c] = "gone" /\ stage[c] \notin {"none", "done"} =>
            GoesOn(c) \/ SharedPipe(c)

(* A stop reaches every session, is never stuck, and leaves no program     *)
(* behind.                                                                 *)
StopLeavesNothing ==
    /\ SocketsRegistered
    /\ NoProgramLeft
    /\ StopNeverStuck

(* A session delivers what its program replied and ends with its client.   *)
SessionsServed ==
    /\ RepliesArrive
    /\ HangUpEndsSession
=============================================================================
