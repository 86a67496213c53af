---------------------------- MODULE TcpSupervisor -----------------------------
(***************************************************************************)
(* The TCP supervisor (src/src/lsp/tcp_adapter_posix.cpp): a process that  *)
(* forks one session per connection, reaps the sessions that end, and on   *)
(* SIGTERM or SIGINT stops them all and waits for them.                    *)
(*                                                                         *)
(* A step is one system call of the supervisor or of a session, or the     *)
(* arrival of a signal.  The operating system recycles process ids: once   *)
(* an id is reaped another program may have it.                            *)
(***************************************************************************)
CONSTANTS
    Pids,          \* process ids the operating system hands out
    Clients,       \* connections, each made at most once
    None

ASSUME NoneAssumption == None \notin Pids /\ None \notin Clients

VARIABLES
    pc, stopping, listener, children, \* run_tcp_adapter_posix
    held,          \* connections the supervisor has a descriptor of
    child,         \* what fork returned; None when it failed
    todo,          \* children the loops at the end have not come to
    proc,          \* the program behind each process id
    fds,           \* connections a session has a descriptor of
    serves,        \* the connection a session was forked for
    client,        \* the client's end of a connection
    missed         \* sessions that swallowed the supervisor's SIGTERM

supervisor == <<pc, stopping, listener, children, held, child, todo>>
sessions == <<proc, fds, serves>>
vars == <<supervisor, sessions, client, missed>>

Programs == {"free", "stranger", "forked", "starting", "serving", "draining",
             "zombie"}
Ours == {"forked", "starting", "serving", "draining", "zombie"}

-----------------------------------------------------------------------------
(* Signals.                                                                *)

(* A handled signal makes a blocked accept fail with EINTR: that is all    *)
(* handle_child, which does nothing, is for.                               *)
Wake == pc' = IF pc = "blocked" THEN "loop" ELSE pc

(* What SIGTERM or SIGINT makes of a program: before it executes its own   *)
(* program a session has the supervisor's handle_stop, which changes       *)
(* nothing in it; then the default action, until the session's handler is  *)
(* installed, which closes the standard input.                             *)
Terminated(state) ==
    CASE state = "starting" -> "zombie"
      [] state = "serving"  -> "draining"
      [] OTHER              -> state

(* A dead process holds no descriptor.                                     *)
DescriptorsLeft == [p \in Pids |-> IF proc'[p] = "zombie" THEN {} ELSE fds[p]]

(* Mutant: the listener is left to the main loop to close.                 *)
HandleStopKeepsListener ==
    /\ stopping' = TRUE
    /\ Wake
    /\ UNCHANGED listener

HandleStop ==
    /\ stopping' = TRUE /\ listener' = FALSE /\ Wake

(* kill <supervisor>.                                                      *)
StopSignal ==
    /\ pc # "exited"
    /\ HandleStop
    /\ UNCHANGED <<children, held, child, todo, sessions, client, missed>>

(* Ctrl-C: the sessions are in the terminal's process group too.           *)
Interrupt ==
    /\ pc # "exited"
    /\ HandleStop
    /\ proc' = [p \in Pids |-> Terminated(proc[p])]
    /\ fds' = DescriptorsLeft
    /\ UNCHANGED <<children, held, child, todo, serves, client, missed>>

-----------------------------------------------------------------------------
(* The supervisor.                                                         *)

(* Mutant: dead sessions stay in the set of children.                      *)
LoopForgetsErase ==
    /\ pc = "loop"
    /\ IF stopping THEN pc' = "closing" /\ UNCHANGED <<children, proc>>
       ELSE /\ proc' = [p \in Pids |-> IF proc[p] = "zombie" THEN "free"
                                       ELSE proc[p]]
            /\ UNCHANGED children
            /\ pc' = "accept"
    /\ UNCHANGED <<stopping, listener, held, child, todo, fds, serves, client,
                   missed>>

(* The head of the loop and reap_children.                                 *)
Loop ==
    /\ pc = "loop"
    /\ IF stopping THEN pc' = "closing" /\ UNCHANGED <<children, proc>>
       ELSE /\ proc' = [p \in Pids |-> IF proc[p] = "zombie" THEN "free"
                                       ELSE proc[p]]
            /\ children' = {p \in children : proc[p] # "zombie"}
            /\ pc' = "accept"
    /\ UNCHANGED <<stopping, listener, held, child, todo, fds, serves, client,
                   missed>>

(* accept with no connection waiting.                                      *)
Block ==
    /\ pc = "accept" /\ listener
    /\ \A c \in Clients : client[c] # "waiting"
    /\ pc' = "blocked"
    /\ UNCHANGED <<stopping, listener, children, held, child, todo, sessions,
                   client, missed>>

Accept(c) ==
    /\ pc \in {"accept", "blocked"} /\ listener /\ client[c] = "waiting"
    /\ client' = [client EXCEPT ![c] = "open"]
    /\ held' = held \cup {c}
    /\ pc' = "configure"
    /\ UNCHANGED <<stopping, listener, children, child, todo, sessions, missed>>

(* accept fails for another reason than the listener: try again.           *)
AcceptFails ==
    /\ pc \in {"accept", "blocked"} /\ listener
    /\ pc' = "loop"
    /\ UNCHANGED <<stopping, listener, children, held, child, todo, sessions,
                   client, missed>>

(* EBADF: handle_stop closed the listener before accept was called.        *)
AcceptClosed ==
    /\ pc = "accept" /\ ~listener
    /\ pc' = "closing"
    /\ UNCHANGED <<stopping, listener, children, held, child, todo, sessions,
                   client, missed>>

(* set_close_on_exec(client); on failure the connection is dropped.        *)
Configure ==
    /\ pc = "configure"
    /\ \/ pc' = "fork" /\ UNCHANGED held
       \/ pc' = "loop" /\ held' = {}
    /\ UNCHANGED <<stopping, listener, children, child, todo, sessions, client,
                   missed>>

(* fork: the child starts with every descriptor of the supervisor.         *)
Fork(p) ==
    /\ pc = "fork" /\ proc[p] = "free"
    /\ proc' = [proc EXCEPT ![p] = "forked"]
    /\ fds' = [fds EXCEPT ![p] = held]
    /\ \E c \in held : serves' = [serves EXCEPT ![p] = c]
    /\ child' = p /\ pc' = "parent"
    /\ UNCHANGED <<stopping, listener, children, held, todo, client, missed>>

ForkFails ==
    /\ pc = "fork"
    /\ child' = None /\ pc' = "parent"
    /\ UNCHANGED <<stopping, listener, children, held, todo, sessions, client,
                   missed>>

(* Mutant: a failed fork is recorded among the children.                   *)
ParentRecordsFailure ==
    /\ pc = "parent"
    /\ held' = {} /\ children' = children \cup {child}
    /\ child' = None /\ pc' = "loop"
    /\ UNCHANGED <<stopping, listener, todo, sessions, client, missed>>

(* Mutant: the connection is closed only after a successful fork.          *)
ParentLeaks ==
    /\ pc = "parent"
    /\ held' = IF child = None THEN held ELSE {}
    /\ children' = IF child = None THEN children ELSE children \cup {child}
    /\ child' = None /\ pc' = "loop"
    /\ UNCHANGED <<stopping, listener, todo, sessions, client, missed>>

(* Mutant: a stop is noticed before the new child is recorded.             *)
ParentStopsFirst ==
    /\ pc = "parent"
    /\ held' = {}
    /\ children' = IF child = None \/ stopping THEN children
                   ELSE children \cup {child}
    /\ child' = None /\ pc' = "loop"
    /\ UNCHANGED <<stopping, listener, todo, sessions, client, missed>>

(* The parent's side of the fork: close(client), children.insert(child).   *)
Parent ==
    /\ pc = "parent"
    /\ held' = {}
    /\ children' = IF child = None THEN children ELSE children \cup {child}
    /\ child' = None /\ pc' = "loop"
    /\ UNCHANGED <<stopping, listener, todo, sessions, client, missed>>

Closing ==
    /\ pc = "closing"
    /\ listener' = FALSE /\ todo' = children /\ pc' = "kill"
    /\ UNCHANGED <<stopping, children, held, child, sessions, client, missed>>

(* kill(child, SIGTERM): whoever has the id now gets the signal.           *)
Kill(p) ==
    /\ pc = "kill" /\ p \in todo
    /\ todo' = todo \ {p}
    /\ proc' = [proc EXCEPT ![p] = Terminated(@)]
    /\ fds' = DescriptorsLeft
    /\ missed' = IF proc[p] = "forked" THEN missed \cup {p} ELSE missed
    /\ UNCHANGED <<pc, stopping, listener, children, held, child, serves, client>>

KillDone ==
    /\ pc = "kill" /\ todo = {}
    /\ todo' = children /\ pc' = "wait"
    /\ UNCHANGED <<stopping, listener, children, held, child, sessions, client,
                   missed>>

(* waitpid(child): blocks while the child runs; EINTR tries again.         *)
Wait(p) ==
    /\ pc = "wait" /\ p \in todo /\ proc[p] \in {"zombie", "free", "stranger"}
    /\ todo' = todo \ {p}
    /\ proc' = [proc EXCEPT ![p] = IF @ = "zombie" THEN "free" ELSE @]
    /\ UNCHANGED <<pc, stopping, listener, children, held, child, fds, serves,
                   client, missed>>

Exit ==
    /\ pc = "wait" /\ todo = {}
    /\ pc' = "exited"
    /\ UNCHANGED <<stopping, listener, children, held, child, todo, sessions,
                   client, missed>>

-----------------------------------------------------------------------------
(* A session: run_session_child, then main.cpp on its standard input.      *)

Dies(p) ==
    /\ proc' = [proc EXCEPT ![p] = "zombie"]
    /\ fds' = [fds EXCEPT ![p] = {}]
    /\ Wake
    /\ UNCHANGED <<stopping, listener, children, held, child, todo, serves,
                   client, missed>>

(* dup2, close, execvp: of the descriptors only stdin and stdout survive.  *)
Exec(p) ==
    /\ proc[p] = "forked"
    /\ proc' = [proc EXCEPT ![p] = "starting"]
    /\ fds' = [fds EXCEPT ![p] = {serves[p]}]
    /\ UNCHANGED <<supervisor, serves, client, missed>>

ExecFails(p) == proc[p] = "forked" /\ Dies(p)

(* install_engine_termination_handlers.                                    *)
Install(p) ==
    /\ proc[p] = "starting"
    /\ proc' = [proc EXCEPT ![p] = "serving"]
    /\ UNCHANGED <<supervisor, fds, serves, client, missed>>

(* The end of the standard input, closed by terminate_frontend or by the   *)
(* client, ends the message loop.                                          *)
EndOfInput(p) ==
    /\ \/ proc[p] = "draining"
       \/ proc[p] = "serving" /\ client[serves[p]] = "gone"
    /\ Dies(p)

(* The client asks the session to exit, or it crashes.                     *)
SessionExits(p) == proc[p] \in {"starting", "serving"} /\ Dies(p)

-----------------------------------------------------------------------------
(* Clients and other programs.                                             *)

Connect(c) ==
    /\ client[c] = "away" /\ listener
    /\ client' = [client EXCEPT ![c] = "waiting"]
    /\ UNCHANGED <<supervisor, sessions, missed>>

HangUp(c) ==
    /\ client[c] = "open"
    /\ client' = [client EXCEPT ![c] = "gone"]
    /\ UNCHANGED <<supervisor, sessions, missed>>

Stranger(p) ==
    /\ proc[p] \in {"free", "stranger"}
    /\ proc' = [proc EXCEPT ![p] = IF @ = "free" THEN "stranger" ELSE "free"]
    /\ UNCHANGED <<supervisor, fds, serves, client, missed>>

-----------------------------------------------------------------------------
(* Init is the state in which run_tcp_adapter_posix enters its loop.       *)

Init ==
    /\ pc = "loop" /\ stopping = FALSE /\ listener = TRUE /\ children = {}
    /\ held = {} /\ child = None /\ todo = {}
    /\ proc = [p \in Pids |-> "free"] /\ fds = [p \in Pids |-> {}]
    /\ serves = [p \in Pids |-> None]
    /\ client = [c \in Clients |-> "away"] /\ missed = {}

SupervisorStep ==
    \/ Loop \/ Block \/ AcceptClosed \/ Configure \/ ForkFails \/ Parent
    \/ Closing \/ KillDone \/ Exit
    \/ \E c \in Clients : Accept(c)
    \/ \E p \in Pids : Fork(p) \/ Kill(p) \/ Wait(p)

SessionStep(p) == Exec(p) \/ ExecFails(p) \/ Install(p) \/ EndOfInput(p)

Environment ==
    \/ StopSignal \/ Interrupt \/ AcceptFails
    \/ \E p \in Pids : SessionExits(p) \/ Stranger(p)
    \/ \E c \in Clients : Connect(c) \/ HangUp(c)

Next ==
    \/ SupervisorStep \/ Environment \/ \E p \in Pids : SessionStep(p)

Spec == Init /\ [][Next]_vars

(* The processes run; nothing is assumed of clients, signals or errors.    *)
Fairness ==
    /\ WF_vars(SupervisorStep)
    /\ \A p \in Pids : WF_vars(SessionStep(p))

FairSpec == Spec /\ Fairness

-----------------------------------------------------------------------------
(* Properties.                                                             *)

Labels == {"loop", "accept", "blocked", "configure", "fork", "parent",
           "closing", "kill", "wait", "exited"}

(* The type of every variable.                                             *)
TypeOK ==
    /\ pc \in Labels /\ stopping \in BOOLEAN /\ listener \in BOOLEAN
    /\ children \subseteq Pids /\ held \subseteq Clients
    /\ child \in Pids \cup {None} /\ todo \subseteq Pids
    /\ proc \in [Pids -> Programs] /\ fds \in [Pids -> SUBSET Clients]
    /\ serves \in [Pids -> Clients \cup {None}]
    /\ client \in [Clients -> {"away", "waiting", "open", "gone"}]
    /\ missed \subseteq Pids

Sessions == {p \in Pids : proc[p] \in Ours}

(* Until the last waits, every id the supervisor remembers belongs to a    *)
(* session it has not reaped: no SIGTERM ever goes to another program.     *)
SignalsOnlySessions ==
    pc \notin {"wait", "exited"} => children \subseteq Sessions

(* When the supervisor exits no session is left, however the stop fell     *)
(* between an accept, a fork and the record of the child.                  *)
NoOrphans == pc = "exited" => Sessions = {}

(* A connection is held by its session alone once the supervisor is back   *)
(* in its loop: when the session ends the client sees the end.             *)
HeldByItsSession ==
    pc \notin {"configure", "fork", "parent"} =>
        /\ held = {}
        /\ \A p, q \in Pids : p # q => fds[p] \cap fds[q] = {}

(* A stop ends the supervisor, unless a session swallowed the SIGTERM sent *)
(* to it: none is overlooked by accept, and each session that sees its     *)
(* SIGTERM ends although its client stays connected.                       *)
StopCompletes == stopping ~> (pc = "exited" \/ missed # {})

(* Stopping the supervisor also stops the sessions that are connected.     *)
StopStopsSessions == stopping ~> pc = "exited"
=============================================================================
