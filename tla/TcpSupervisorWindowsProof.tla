----------------------- MODULE TcpSupervisorWindowsProof -----------------------
(***************************************************************************)
(* Proofs about TcpSupervisorWindows, in its world of Processes, for every *)
(* set of connections and of socket handles.                               *)
(***************************************************************************)
EXTENDS Processes, TLAPS

(***************************************************************************)
(* The inductive invariant.                                                *)
(***************************************************************************)

Stages == {"none", "pipes", "configure", "spawn", "assign", "resume", "relay", "wait", "join",
           "finish", "close", "done"}
Steps == {"loop", "accept", "start", "closing", "shutdown", "job", "join", "exited"}

TypeInv ==
    /\ step \in Steps /\ stopping \in BOOLEAN /\ listener \in BOOLEAN
    /\ sessions \subseteq Clients
    /\ client \in [Clients -> {"away", "waiting", "open", "finished", "gone"}]
    /\ stage \in [Clients -> Stages]
    /\ sock \in [Clients -> Sockets \cup {None}]
    /\ shut \in [Clients -> SUBSET Windows!Both]
    /\ ends \in [Clients -> SUBSET Windows!Ends]
    /\ copying \in [Clients -> {"none", "read", "send", "close", "ended"}]
    /\ input \in [Clients -> {"none", "select", "write", "close", "ended"}]
    /\ process \in [Clients -> {"none", "suspended", "running", "dead"}]
    /\ job \in BOOLEAN /\ inJob \in [Clients -> BOOLEAN]
    /\ traffic \in [Clients -> {"idle", "sent", "held", "asked", "piped", "sending",
                                "answered", "lost"}]

(* A connection has a socket from its accept to the end of its session,    *)
(* which no other connection has.                                          *)
Handles ==
    /\ \A c \in Clients : client[c] \in {"away", "waiting"} =>
          stage[c] = "none" /\ sock[c] = None
    /\ \A c \in Clients : stage[c] \notin {"none", "done"} => sock[c] # None
    /\ \A c \in Clients : stage[c] = "done" => sock[c] = None
    /\ \A c, d \in Clients : c # d /\ sock[c] # None => sock[c] # sock[d]
    /\ Windows!SocketsRegistered

(* A stop closes the listener, and nothing else does; the loop is left     *)
(* because of a stop, and the job is closed once every session's socket is *)
(* shut down.                                                              *)
Stops ==
    /\ ~listener <=> stopping
    /\ step \in {"closing", "shutdown", "job", "join", "exited"} => stopping
    /\ step \in {"join", "exited"} <=> ~job
    /\ step \in {"job", "join", "exited"} =>
          \A c \in Clients : Windows!Unfinished(c) => shut[c] = Windows!Both

(* A program lives no longer than its session, and a session no longer     *)
(* than the supervisor.  Once it was assigned a program is in the job, and *)
(* the job is open.                                                        *)
Lives ==
    /\ \A c \in Clients : Windows!Alive(c) => stage[c] \in {"assign", "resume", "relay", "wait"}
    /\ \A c \in Clients : stage[c] \notin {"none", "done"} => c \in sessions /\ step # "exited"
    /\ \A c \in sessions : stage[c] # "none"
    /\ \A c \in Clients : Windows!Alive(c) /\ stage[c] # "assign" => inJob[c] /\ job
    /\ \A c \in Clients : stage[c] \in {"relay", "wait"} => process[c] # "suspended"

(* Before its relays run a session moves nothing.  Its output has ended    *)
(* when the program has, or the client is out of reach; its socket is shut *)
(* down for sending by a stop or by the output's end.                      *)
Replies ==
    /\ \A c \in Clients : stage[c] \in {"none", "pipes", "configure", "spawn", "assign",
                                        "resume", "relay"} =>
          copying[c] = "none" /\ input[c] = "none" /\ (shut[c] = {} \/ stopping)
    /\ \A c \in Clients : copying[c] = "none" => traffic[c] \in {"idle", "sent"}
    /\ \A c \in Clients : input[c] = "none" => copying[c] = "none"
    /\ \A c \in Clients : copying[c] = "none" =>
          stage[c] \notin {"wait", "join"} /\ input[c] = "none"
    /\ \A c \in Clients : copying[c] = "send" => traffic[c] = "sending"
    /\ \A c \in Clients : traffic[c] = "sending" => copying[c] = "send"
    /\ \A c \in Clients : input[c] = "write" => traffic[c] = "held"
    /\ \A c \in Clients : "send" \in shut[c] => stopping \/ copying[c] = "ended"
    /\ \A c \in Clients : copying[c] = "close" =>
          traffic[c] = "lost" \/ (traffic[c] # "piped" /\ ~Windows!Alive(c))
    /\ \A c \in Clients : copying[c] = "ended" => traffic[c] # "piped" /\ "outR" \notin ends[c]
    /\ \A c \in Clients : copying[c] \in {"read", "send"} => stage[c] \in {"wait", "join"}
    /\ \A c \in Clients : traffic[c] = "lost" => stopping \/ client[c] = "gone"

(* While a session relays, the supervisor has no end of its pipes but the  *)
(* two that the copying threads close.                                     *)
Pipes ==
    \A c \in Clients : stage[c] \in {"wait", "join"} =>
        /\ ends[c] \subseteq {"inW", "outR"}
        /\ input[c] = "ended" => "inW" \notin ends[c]

IInv == TypeInv /\ Handles /\ Stops /\ Lives /\ Replies /\ Pipes

-----------------------------------------------------------------------------
(* Every step preserves it.                                                *)

(* Types.                                                                  *)
LEMMA TypeInvStep ==
    TypeInv /\ [Windows!Next]_(Windows!vars) => TypeInv'
<1> SUFFICES ASSUME TypeInv, [Windows!Next]_(Windows!vars)
             PROVE  TypeInv'
  OBVIOUS
<1> USE DEF TypeInv, Windows!Ends, Windows!Both, Windows!main, Windows!threads,
            Windows!programs, Stages, Steps
<1>1. ASSUME Windows!ConsoleEvent PROVE TypeInv'
  BY <1>1 DEF Windows!ConsoleEvent
<1>2. ASSUME Windows!Loop PROVE TypeInv'
  BY <1>2 DEF Windows!Loop
<1>3. ASSUME Windows!AcceptFails PROVE TypeInv'
  BY <1>3 DEF Windows!AcceptFails
<1>4. ASSUME Windows!AcceptClosed PROVE TypeInv'
  BY <1>4 DEF Windows!AcceptClosed
<1>5. ASSUME Windows!CloseListener PROVE TypeInv'
  BY <1>5 DEF Windows!CloseListener
<1>6. ASSUME Windows!ShutdownSockets PROVE TypeInv'
  BY <1>6 DEF Windows!ShutdownSockets
<1>7. ASSUME Windows!CloseJob PROVE TypeInv'
  BY <1>7 DEF Windows!CloseJob
<1>8. ASSUME Windows!JoinAll PROVE TypeInv'
  BY <1>8 DEF Windows!JoinAll
<1>9. ASSUME NEW c \in Clients, NEW s \in Sockets, Windows!Accept(c, s) PROVE TypeInv'
  BY <1>9 DEF Windows!Accept, Windows!FreeSockets
<1>10. ASSUME NEW c \in Clients, Windows!StartSession(c) PROVE TypeInv'
  BY <1>10 DEF Windows!StartSession, Windows!Stage
<1>11. ASSUME NEW c \in Clients, Windows!CreatePipes(c) PROVE TypeInv'
  BY <1>11 DEF Windows!CreatePipes, Windows!Stage
<1>12. ASSUME NEW c \in Clients, Windows!Configure(c) PROVE TypeInv'
  BY <1>12 DEF Windows!Configure, Windows!Stage
<1>13. ASSUME NEW c \in Clients, Windows!Spawn(c) PROVE TypeInv'
  BY <1>13 DEF Windows!Spawn, Windows!Stage
<1>14. ASSUME NEW c \in Clients, Windows!Assign(c) PROVE TypeInv'
  BY <1>14 DEF Windows!Assign, Windows!Stage
<1>15. ASSUME NEW c \in Clients, Windows!Resume(c) PROVE TypeInv'
  BY <1>15 DEF Windows!Resume, Windows!Stage
<1>16. ASSUME NEW c \in Clients, Windows!Relay(c) PROVE TypeInv'
  BY <1>16 DEF Windows!Relay, Windows!Stage
<1>17. ASSUME NEW c \in Clients, Windows!WaitProcess(c) PROVE TypeInv'
  BY <1>17 DEF Windows!WaitProcess, Windows!WaitReturns, Windows!Stage
<1>18. ASSUME NEW c \in Clients, Windows!Join(c) PROVE TypeInv'
  BY <1>18 DEF Windows!Join, Windows!JoinReturns, Windows!Stage
<1>19. ASSUME NEW c \in Clients, Windows!Finish(c) PROVE TypeInv'
  BY <1>19 DEF Windows!Finish, Windows!Stage
<1>20. ASSUME NEW c \in Clients, Windows!ReadOutput(c) PROVE TypeInv'
  BY <1>20 DEF Windows!ReadOutput, Windows!ReadReturns, Windows!OutputEnds
<1>21. ASSUME NEW c \in Clients, Windows!SendSucceeds(c) PROVE TypeInv'
  BY <1>21 DEF Windows!SendSucceeds
<1>22. ASSUME NEW c \in Clients, Windows!SendFails(c) PROVE TypeInv'
  BY <1>22 DEF Windows!SendFails, Windows!SendReturns
<1>23. ASSUME NEW c \in Clients, Windows!CloseOutput(c) PROVE TypeInv'
  BY <1>23 DEF Windows!CloseOutput
<1>24. ASSUME NEW c \in Clients, Windows!Receive(c) PROVE TypeInv'
  BY <1>24 DEF Windows!Receive, Windows!ReceiveReturns
<1>25. ASSUME NEW c \in Clients, Windows!WriteInput(c) PROVE TypeInv'
  BY <1>25 DEF Windows!WriteInput, Windows!WriteReturns
<1>26. ASSUME NEW c \in Clients, Windows!WriteToNobody(c) PROVE TypeInv'
  BY <1>26 DEF Windows!WriteToNobody
<1>27. ASSUME NEW c \in Clients, Windows!CloseInput(c) PROVE TypeInv'
  BY <1>27 DEF Windows!CloseInput
<1>28. ASSUME NEW c \in Clients, Windows!Reply(c) PROVE TypeInv'
  BY <1>28 DEF Windows!Reply, Windows!ProgramReturns, Windows!Asked
<1>29. ASSUME NEW c \in Clients, Windows!ProgramEnds(c) PROVE TypeInv'
  BY <1>29 DEF Windows!ProgramEnds, Windows!ProgramReturns, Windows!Dies
<1>30. ASSUME NEW c \in Clients, Windows!Crash(c) PROVE TypeInv'
  BY <1>30 DEF Windows!Crash, Windows!Dies
<1>31. ASSUME NEW c \in Clients, Windows!Connect(c) PROVE TypeInv'
  BY <1>31 DEF Windows!Connect
<1>32. ASSUME NEW c \in Clients, Windows!Ask(c) PROVE TypeInv'
  BY <1>32 DEF Windows!Ask
<1>33. ASSUME NEW c \in Clients, Windows!HangUp(c) PROVE TypeInv'
  BY <1>33 DEF Windows!HangUp
<1>34. CASE UNCHANGED Windows!vars
  BY <1>34 DEF Windows!vars
<1> QED
  BY <1>1, <1>2, <1>3, <1>4, <1>5, <1>6, <1>7, <1>8, <1>9, <1>10, <1>11, <1>12,
     <1>13, <1>14, <1>15, <1>16, <1>17, <1>18, <1>19, <1>20, <1>21, <1>22, <1>23,
     <1>24, <1>25, <1>26, <1>27, <1>28, <1>29, <1>30, <1>31, <1>32, <1>33, <1>34
     DEF Windows!Next, Windows!MainStep, Windows!Environment, Windows!Works,
         Windows!SessionStep, Windows!OutputStep, Windows!InputStep, Windows!ProgramStep

(* The sockets and their place in the registry.                            *)
LEMMA HandlesStep ==
    TypeInv /\ Handles /\ [Windows!Next]_(Windows!vars) => Handles'
<1> SUFFICES ASSUME TypeInv, Handles, [Windows!Next]_(Windows!vars)
             PROVE  Handles'
  OBVIOUS
<1> USE DEF TypeInv, Handles, Windows!SocketsRegistered, Windows!Unfinished,
            Windows!Ends, Windows!Both, Windows!main, Windows!threads,
            Windows!programs
<1>1. ASSUME Windows!ConsoleEvent PROVE Handles'
  BY <1>1 DEF Windows!ConsoleEvent
<1>2. ASSUME Windows!Loop PROVE Handles'
  BY <1>2 DEF Windows!Loop
<1>3. ASSUME Windows!AcceptFails PROVE Handles'
  BY <1>3 DEF Windows!AcceptFails
<1>4. ASSUME Windows!AcceptClosed PROVE Handles'
  BY <1>4 DEF Windows!AcceptClosed
<1>5. ASSUME Windows!CloseListener PROVE Handles'
  BY <1>5 DEF Windows!CloseListener
<1>6. ASSUME Windows!ShutdownSockets PROVE Handles'
  BY <1>6 DEF Windows!ShutdownSockets
<1>7. ASSUME Windows!CloseJob PROVE Handles'
  BY <1>7 DEF Windows!CloseJob
<1>8. ASSUME Windows!JoinAll PROVE Handles'
  BY <1>8 DEF Windows!JoinAll
<1>9. ASSUME NEW c \in Clients, NEW s \in Sockets, Windows!Accept(c, s) PROVE Handles'
  BY <1>9 DEF Windows!Accept, Windows!FreeSockets
<1>10. ASSUME NEW c \in Clients, Windows!StartSession(c) PROVE Handles'
  BY <1>10 DEF Windows!StartSession, Windows!Stage
<1>11. ASSUME NEW c \in Clients, Windows!CreatePipes(c) PROVE Handles'
  BY <1>11 DEF Windows!CreatePipes, Windows!Stage
<1>12. ASSUME NEW c \in Clients, Windows!Configure(c) PROVE Handles'
  BY <1>12 DEF Windows!Configure, Windows!Stage
<1>13. ASSUME NEW c \in Clients, Windows!Spawn(c) PROVE Handles'
  BY <1>13 DEF Windows!Spawn, Windows!Stage
<1>14. ASSUME NEW c \in Clients, Windows!Assign(c) PROVE Handles'
  BY <1>14 DEF Windows!Assign, Windows!Stage
<1>15. ASSUME NEW c \in Clients, Windows!Resume(c) PROVE Handles'
  BY <1>15 DEF Windows!Resume, Windows!Stage
<1>16. ASSUME NEW c \in Clients, Windows!Relay(c) PROVE Handles'
  BY <1>16 DEF Windows!Relay, Windows!Stage
<1>17. ASSUME NEW c \in Clients, Windows!WaitProcess(c) PROVE Handles'
  BY <1>17 DEF Windows!WaitProcess, Windows!WaitReturns, Windows!Stage
<1>18. ASSUME NEW c \in Clients, Windows!Join(c) PROVE Handles'
  BY <1>18 DEF Windows!Join, Windows!JoinReturns, Windows!Stage
<1>19. ASSUME NEW c \in Clients, Windows!Finish(c) PROVE Handles'
  BY <1>19 DEF Windows!Finish, Windows!Stage
<1>20. ASSUME NEW c \in Clients, Windows!ReadOutput(c) PROVE Handles'
  BY <1>20 DEF Windows!ReadOutput, Windows!ReadReturns, Windows!OutputEnds
<1>21. ASSUME NEW c \in Clients, Windows!SendSucceeds(c) PROVE Handles'
  BY <1>21 DEF Windows!SendSucceeds
<1>22. ASSUME NEW c \in Clients, Windows!SendFails(c) PROVE Handles'
  BY <1>22 DEF Windows!SendFails, Windows!SendReturns
<1>23. ASSUME NEW c \in Clients, Windows!CloseOutput(c) PROVE Handles'
  BY <1>23 DEF Windows!CloseOutput
<1>24. ASSUME NEW c \in Clients, Windows!Receive(c) PROVE Handles'
  BY <1>24 DEF Windows!Receive, Windows!ReceiveReturns
<1>25. ASSUME NEW c \in Clients, Windows!WriteInput(c) PROVE Handles'
  BY <1>25 DEF Windows!WriteInput, Windows!WriteReturns
<1>26. ASSUME NEW c \in Clients, Windows!WriteToNobody(c) PROVE Handles'
  BY <1>26 DEF Windows!WriteToNobody
<1>27. ASSUME NEW c \in Clients, Windows!CloseInput(c) PROVE Handles'
  BY <1>27 DEF Windows!CloseInput
<1>28. ASSUME NEW c \in Clients, Windows!Reply(c) PROVE Handles'
  BY <1>28 DEF Windows!Reply, Windows!ProgramReturns, Windows!Asked
<1>29. ASSUME NEW c \in Clients, Windows!ProgramEnds(c) PROVE Handles'
  BY <1>29 DEF Windows!ProgramEnds, Windows!ProgramReturns, Windows!Dies
<1>30. ASSUME NEW c \in Clients, Windows!Crash(c) PROVE Handles'
  BY <1>30 DEF Windows!Crash, Windows!Dies
<1>31. ASSUME NEW c \in Clients, Windows!Connect(c) PROVE Handles'
  BY <1>31 DEF Windows!Connect
<1>32. ASSUME NEW c \in Clients, Windows!Ask(c) PROVE Handles'
  BY <1>32 DEF Windows!Ask
<1>33. ASSUME NEW c \in Clients, Windows!HangUp(c) PROVE Handles'
  BY <1>33 DEF Windows!HangUp
<1>34. CASE UNCHANGED Windows!vars
  BY <1>34 DEF Windows!vars
<1> QED
  BY <1>1, <1>2, <1>3, <1>4, <1>5, <1>6, <1>7, <1>8, <1>9, <1>10, <1>11, <1>12,
     <1>13, <1>14, <1>15, <1>16, <1>17, <1>18, <1>19, <1>20, <1>21, <1>22, <1>23,
     <1>24, <1>25, <1>26, <1>27, <1>28, <1>29, <1>30, <1>31, <1>32, <1>33, <1>34
     DEF Windows!Next, Windows!MainStep, Windows!Environment, Windows!Works,
         Windows!SessionStep, Windows!OutputStep, Windows!InputStep, Windows!ProgramStep

(* The steps of a stop.                                                    *)
LEMMA StopsStep ==
    TypeInv /\ Handles /\ Stops /\ [Windows!Next]_(Windows!vars) => Stops'
<1> SUFFICES ASSUME TypeInv, Handles, Stops, [Windows!Next]_(Windows!vars)
             PROVE  Stops'
  OBVIOUS
<1> USE DEF TypeInv, Stops, Windows!Unfinished, Windows!Ends, Windows!Both, Windows!main,
            Windows!threads, Windows!programs
<1>1. ASSUME Windows!ConsoleEvent PROVE Stops'
  BY <1>1 DEF Windows!ConsoleEvent
<1>2. ASSUME Windows!Loop PROVE Stops'
  BY <1>2 DEF Windows!Loop
<1>3. ASSUME Windows!AcceptFails PROVE Stops'
  BY <1>3 DEF Windows!AcceptFails
<1>4. ASSUME Windows!AcceptClosed PROVE Stops'
  BY <1>4 DEF Windows!AcceptClosed
<1>5. ASSUME Windows!CloseListener PROVE Stops'
  BY <1>5 DEF Windows!CloseListener
<1>6. ASSUME Windows!ShutdownSockets PROVE Stops'
  BY <1>6 DEF Windows!ShutdownSockets, Handles, Windows!SocketsRegistered
<1>7. ASSUME Windows!CloseJob PROVE Stops'
  BY <1>7 DEF Windows!CloseJob
<1>8. ASSUME Windows!JoinAll PROVE Stops'
  BY <1>8 DEF Windows!JoinAll
<1>9. ASSUME NEW c \in Clients, NEW s \in Sockets, Windows!Accept(c, s) PROVE Stops'
  BY <1>9 DEF Windows!Accept, Windows!FreeSockets
<1>10. ASSUME NEW c \in Clients, Windows!StartSession(c) PROVE Stops'
  BY <1>10 DEF Windows!StartSession, Windows!Stage
<1>11. ASSUME NEW c \in Clients, Windows!CreatePipes(c) PROVE Stops'
  BY <1>11 DEF Windows!CreatePipes, Windows!Stage
<1>12. ASSUME NEW c \in Clients, Windows!Configure(c) PROVE Stops'
  BY <1>12 DEF Windows!Configure, Windows!Stage
<1>13. ASSUME NEW c \in Clients, Windows!Spawn(c) PROVE Stops'
  BY <1>13 DEF Windows!Spawn, Windows!Stage
<1>14. ASSUME NEW c \in Clients, Windows!Assign(c) PROVE Stops'
  BY <1>14 DEF Windows!Assign, Windows!Stage
<1>15. ASSUME NEW c \in Clients, Windows!Resume(c) PROVE Stops'
  BY <1>15 DEF Windows!Resume, Windows!Stage
<1>16. ASSUME NEW c \in Clients, Windows!Relay(c) PROVE Stops'
  BY <1>16 DEF Windows!Relay, Windows!Stage
<1>17. ASSUME NEW c \in Clients, Windows!WaitProcess(c) PROVE Stops'
  BY <1>17 DEF Windows!WaitProcess, Windows!WaitReturns, Windows!Stage
<1>18. ASSUME NEW c \in Clients, Windows!Join(c) PROVE Stops'
  BY <1>18 DEF Windows!Join, Windows!JoinReturns, Windows!Stage
<1>19. ASSUME NEW c \in Clients, Windows!Finish(c) PROVE Stops'
  BY <1>19 DEF Windows!Finish, Windows!Stage
<1>20. ASSUME NEW c \in Clients, Windows!ReadOutput(c) PROVE Stops'
  BY <1>20 DEF Windows!ReadOutput, Windows!ReadReturns, Windows!OutputEnds
<1>21. ASSUME NEW c \in Clients, Windows!SendSucceeds(c) PROVE Stops'
  BY <1>21 DEF Windows!SendSucceeds
<1>22. ASSUME NEW c \in Clients, Windows!SendFails(c) PROVE Stops'
  BY <1>22 DEF Windows!SendFails, Windows!SendReturns
<1>23. ASSUME NEW c \in Clients, Windows!CloseOutput(c) PROVE Stops'
  BY <1>23 DEF Windows!CloseOutput
<1>24. ASSUME NEW c \in Clients, Windows!Receive(c) PROVE Stops'
  BY <1>24 DEF Windows!Receive, Windows!ReceiveReturns
<1>25. ASSUME NEW c \in Clients, Windows!WriteInput(c) PROVE Stops'
  BY <1>25 DEF Windows!WriteInput, Windows!WriteReturns
<1>26. ASSUME NEW c \in Clients, Windows!WriteToNobody(c) PROVE Stops'
  BY <1>26 DEF Windows!WriteToNobody
<1>27. ASSUME NEW c \in Clients, Windows!CloseInput(c) PROVE Stops'
  BY <1>27 DEF Windows!CloseInput
<1>28. ASSUME NEW c \in Clients, Windows!Reply(c) PROVE Stops'
  BY <1>28 DEF Windows!Reply, Windows!ProgramReturns, Windows!Asked
<1>29. ASSUME NEW c \in Clients, Windows!ProgramEnds(c) PROVE Stops'
  BY <1>29 DEF Windows!ProgramEnds, Windows!ProgramReturns, Windows!Dies
<1>30. ASSUME NEW c \in Clients, Windows!Crash(c) PROVE Stops'
  BY <1>30 DEF Windows!Crash, Windows!Dies
<1>31. ASSUME NEW c \in Clients, Windows!Connect(c) PROVE Stops'
  BY <1>31 DEF Windows!Connect
<1>32. ASSUME NEW c \in Clients, Windows!Ask(c) PROVE Stops'
  BY <1>32 DEF Windows!Ask
<1>33. ASSUME NEW c \in Clients, Windows!HangUp(c) PROVE Stops'
  BY <1>33 DEF Windows!HangUp
<1>34. CASE UNCHANGED Windows!vars
  BY <1>34 DEF Windows!vars
<1> QED
  BY <1>1, <1>2, <1>3, <1>4, <1>5, <1>6, <1>7, <1>8, <1>9, <1>10, <1>11, <1>12,
     <1>13, <1>14, <1>15, <1>16, <1>17, <1>18, <1>19, <1>20, <1>21, <1>22, <1>23,
     <1>24, <1>25, <1>26, <1>27, <1>28, <1>29, <1>30, <1>31, <1>32, <1>33, <1>34
     DEF Windows!Next, Windows!MainStep, Windows!Environment, Windows!Works,
         Windows!SessionStep, Windows!OutputStep, Windows!InputStep, Windows!ProgramStep

(* The programs and their sessions.                                        *)
LEMMA LivesStep ==
    TypeInv /\ Stops /\ Lives /\ [Windows!Next]_(Windows!vars) => Lives'
<1> SUFFICES ASSUME TypeInv, Stops, Lives, [Windows!Next]_(Windows!vars)
             PROVE  Lives'
  OBVIOUS
<1> USE DEF TypeInv, Stops, Lives, Windows!Alive, Windows!Ends, Windows!Both,
            Windows!main, Windows!threads, Windows!programs
<1>1. ASSUME Windows!ConsoleEvent PROVE Lives'
  BY <1>1 DEF Windows!ConsoleEvent
<1>2. ASSUME Windows!Loop PROVE Lives'
  BY <1>2 DEF Windows!Loop
<1>3. ASSUME Windows!AcceptFails PROVE Lives'
  BY <1>3 DEF Windows!AcceptFails
<1>4. ASSUME Windows!AcceptClosed PROVE Lives'
  BY <1>4 DEF Windows!AcceptClosed
<1>5. ASSUME Windows!CloseListener PROVE Lives'
  BY <1>5 DEF Windows!CloseListener
<1>6. ASSUME Windows!ShutdownSockets PROVE Lives'
  BY <1>6 DEF Windows!ShutdownSockets
<1>7. ASSUME Windows!CloseJob PROVE Lives'
  BY <1>7 DEF Windows!CloseJob
<1>8. ASSUME Windows!JoinAll PROVE Lives'
  BY <1>8 DEF Windows!JoinAll
<1>9. ASSUME NEW c \in Clients, NEW s \in Sockets, Windows!Accept(c, s) PROVE Lives'
  BY <1>9 DEF Windows!Accept, Windows!FreeSockets
<1>10. ASSUME NEW c \in Clients, Windows!StartSession(c) PROVE Lives'
  BY <1>10 DEF Windows!StartSession, Windows!Stage
<1>11. ASSUME NEW c \in Clients, Windows!CreatePipes(c) PROVE Lives'
  BY <1>11 DEF Windows!CreatePipes, Windows!Stage
<1>12. ASSUME NEW c \in Clients, Windows!Configure(c) PROVE Lives'
  BY <1>12 DEF Windows!Configure, Windows!Stage
<1>13. ASSUME NEW c \in Clients, Windows!Spawn(c) PROVE Lives'
  BY <1>13 DEF Windows!Spawn, Windows!Stage
<1>14. ASSUME NEW c \in Clients, Windows!Assign(c) PROVE Lives'
  BY <1>14 DEF Windows!Assign, Windows!Stage
<1>15. ASSUME NEW c \in Clients, Windows!Resume(c) PROVE Lives'
  BY <1>15 DEF Windows!Resume, Windows!Stage
<1>16. ASSUME NEW c \in Clients, Windows!Relay(c) PROVE Lives'
  BY <1>16 DEF Windows!Relay, Windows!Stage
<1>17. ASSUME NEW c \in Clients, Windows!WaitProcess(c) PROVE Lives'
  BY <1>17 DEF Windows!WaitProcess, Windows!WaitReturns, Windows!Stage
<1>18. ASSUME NEW c \in Clients, Windows!Join(c) PROVE Lives'
  BY <1>18 DEF Windows!Join, Windows!JoinReturns, Windows!Stage
<1>19. ASSUME NEW c \in Clients, Windows!Finish(c) PROVE Lives'
  BY <1>19 DEF Windows!Finish, Windows!Stage
<1>20. ASSUME NEW c \in Clients, Windows!ReadOutput(c) PROVE Lives'
  BY <1>20 DEF Windows!ReadOutput, Windows!ReadReturns, Windows!OutputEnds
<1>21. ASSUME NEW c \in Clients, Windows!SendSucceeds(c) PROVE Lives'
  BY <1>21 DEF Windows!SendSucceeds
<1>22. ASSUME NEW c \in Clients, Windows!SendFails(c) PROVE Lives'
  BY <1>22 DEF Windows!SendFails, Windows!SendReturns
<1>23. ASSUME NEW c \in Clients, Windows!CloseOutput(c) PROVE Lives'
  BY <1>23 DEF Windows!CloseOutput
<1>24. ASSUME NEW c \in Clients, Windows!Receive(c) PROVE Lives'
  BY <1>24 DEF Windows!Receive, Windows!ReceiveReturns
<1>25. ASSUME NEW c \in Clients, Windows!WriteInput(c) PROVE Lives'
  BY <1>25 DEF Windows!WriteInput, Windows!WriteReturns
<1>26. ASSUME NEW c \in Clients, Windows!WriteToNobody(c) PROVE Lives'
  BY <1>26 DEF Windows!WriteToNobody
<1>27. ASSUME NEW c \in Clients, Windows!CloseInput(c) PROVE Lives'
  BY <1>27 DEF Windows!CloseInput
<1>28. ASSUME NEW c \in Clients, Windows!Reply(c) PROVE Lives'
  BY <1>28 DEF Windows!Reply, Windows!ProgramReturns, Windows!Asked
<1>29. ASSUME NEW c \in Clients, Windows!ProgramEnds(c) PROVE Lives'
  BY <1>29 DEF Windows!ProgramEnds, Windows!ProgramReturns, Windows!Dies
<1>30. ASSUME NEW c \in Clients, Windows!Crash(c) PROVE Lives'
  BY <1>30 DEF Windows!Crash, Windows!Dies
<1>31. ASSUME NEW c \in Clients, Windows!Connect(c) PROVE Lives'
  BY <1>31 DEF Windows!Connect
<1>32. ASSUME NEW c \in Clients, Windows!Ask(c) PROVE Lives'
  BY <1>32 DEF Windows!Ask
<1>33. ASSUME NEW c \in Clients, Windows!HangUp(c) PROVE Lives'
  BY <1>33 DEF Windows!HangUp
<1>34. CASE UNCHANGED Windows!vars
  BY <1>34 DEF Windows!vars
<1> QED
  BY <1>1, <1>2, <1>3, <1>4, <1>5, <1>6, <1>7, <1>8, <1>9, <1>10, <1>11, <1>12,
     <1>13, <1>14, <1>15, <1>16, <1>17, <1>18, <1>19, <1>20, <1>21, <1>22, <1>23,
     <1>24, <1>25, <1>26, <1>27, <1>28, <1>29, <1>30, <1>31, <1>32, <1>33, <1>34
     DEF Windows!Next, Windows!MainStep, Windows!Environment, Windows!Works,
         Windows!SessionStep, Windows!OutputStep, Windows!InputStep, Windows!ProgramStep

(* The replies.                                                            *)
LEMMA RepliesStep ==
    TypeInv /\ Handles /\ Stops /\ Lives /\ Replies /\ [Windows!Next]_(Windows!vars) => Replies'
<1> SUFFICES ASSUME TypeInv, Handles, Stops, Lives, Replies, [Windows!Next]_(Windows!vars)
             PROVE  Replies'
  OBVIOUS
<1> USE DEF TypeInv, Stops, Lives, Handles, Windows!Alive, Replies,
            Windows!Ends, Windows!Both, Windows!main, Windows!threads,
            Windows!programs
<1>1. ASSUME Windows!ConsoleEvent PROVE Replies'
  BY <1>1 DEF Windows!ConsoleEvent
<1>2. ASSUME Windows!Loop PROVE Replies'
  BY <1>2 DEF Windows!Loop
<1>3. ASSUME Windows!AcceptFails PROVE Replies'
  BY <1>3 DEF Windows!AcceptFails
<1>4. ASSUME Windows!AcceptClosed PROVE Replies'
  BY <1>4 DEF Windows!AcceptClosed
<1>5. ASSUME Windows!CloseListener PROVE Replies'
  BY <1>5 DEF Windows!CloseListener
<1>6. ASSUME Windows!ShutdownSockets PROVE Replies'
  BY <1>6 DEF Windows!ShutdownSockets
<1>7. ASSUME Windows!CloseJob PROVE Replies'
  BY <1>7 DEF Windows!CloseJob
<1>8. ASSUME Windows!JoinAll PROVE Replies'
  BY <1>8 DEF Windows!JoinAll
<1>9. ASSUME NEW c \in Clients, NEW s \in Sockets, Windows!Accept(c, s) PROVE Replies'
  BY <1>9 DEF Windows!Accept, Windows!FreeSockets
<1>10. ASSUME NEW c \in Clients, Windows!StartSession(c) PROVE Replies'
  BY <1>10 DEF Windows!StartSession, Windows!Stage
<1>11. ASSUME NEW c \in Clients, Windows!CreatePipes(c) PROVE Replies'
  BY <1>11 DEF Windows!CreatePipes, Windows!Stage
<1>12. ASSUME NEW c \in Clients, Windows!Configure(c) PROVE Replies'
  BY <1>12 DEF Windows!Configure, Windows!Stage
<1>13. ASSUME NEW c \in Clients, Windows!Spawn(c) PROVE Replies'
  BY <1>13 DEF Windows!Spawn, Windows!Stage
<1>14. ASSUME NEW c \in Clients, Windows!Assign(c) PROVE Replies'
  BY <1>14 DEF Windows!Assign, Windows!Stage
<1>15. ASSUME NEW c \in Clients, Windows!Resume(c) PROVE Replies'
  BY <1>15 DEF Windows!Resume, Windows!Stage
<1>16. ASSUME NEW c \in Clients, Windows!Relay(c) PROVE Replies'
  BY <1>16 DEF Windows!Relay, Windows!Stage
<1>17. ASSUME NEW c \in Clients, Windows!WaitProcess(c) PROVE Replies'
  BY <1>17 DEF Windows!WaitProcess, Windows!WaitReturns, Windows!Stage
<1>18. ASSUME NEW c \in Clients, Windows!Join(c) PROVE Replies'
  BY <1>18 DEF Windows!Join, Windows!JoinReturns, Windows!Stage
<1>19. ASSUME NEW c \in Clients, Windows!Finish(c) PROVE Replies'
  BY <1>19 DEF Windows!Finish, Windows!Stage
<1>20. ASSUME NEW c \in Clients, Windows!ReadOutput(c) PROVE Replies'
  BY <1>20 DEF Windows!ReadOutput, Windows!ReadReturns, Windows!OutputEnds
<1>21. ASSUME NEW c \in Clients, Windows!SendSucceeds(c) PROVE Replies'
  BY <1>21 DEF Windows!SendSucceeds
<1>22. ASSUME NEW c \in Clients, Windows!SendFails(c) PROVE Replies'
  BY <1>22 DEF Windows!SendFails, Windows!SendReturns
<1>23. ASSUME NEW c \in Clients, Windows!CloseOutput(c) PROVE Replies'
  BY <1>23 DEF Windows!CloseOutput
<1>24. ASSUME NEW c \in Clients, Windows!Receive(c) PROVE Replies'
  BY <1>24 DEF Windows!Receive, Windows!ReceiveReturns
<1>25. ASSUME NEW c \in Clients, Windows!WriteInput(c) PROVE Replies'
  BY <1>25 DEF Windows!WriteInput, Windows!WriteReturns
<1>26. ASSUME NEW c \in Clients, Windows!WriteToNobody(c) PROVE Replies'
  BY <1>26 DEF Windows!WriteToNobody
<1>27. ASSUME NEW c \in Clients, Windows!CloseInput(c) PROVE Replies'
  BY <1>27 DEF Windows!CloseInput
<1>28. ASSUME NEW c \in Clients, Windows!Reply(c) PROVE Replies'
  BY <1>28 DEF Windows!Reply, Windows!ProgramReturns, Windows!Asked
<1>29. ASSUME NEW c \in Clients, Windows!ProgramEnds(c) PROVE Replies'
  BY <1>29 DEF Windows!ProgramEnds, Windows!ProgramReturns, Windows!Dies
<1>30. ASSUME NEW c \in Clients, Windows!Crash(c) PROVE Replies'
  BY <1>30 DEF Windows!Crash, Windows!Dies
<1>31. ASSUME NEW c \in Clients, Windows!Connect(c) PROVE Replies'
  BY <1>31 DEF Windows!Connect
<1>32. ASSUME NEW c \in Clients, Windows!Ask(c) PROVE Replies'
  BY <1>32 DEF Windows!Ask
<1>33. ASSUME NEW c \in Clients, Windows!HangUp(c) PROVE Replies'
  BY <1>33 DEF Windows!HangUp
<1>34. CASE UNCHANGED Windows!vars
  BY <1>34 DEF Windows!vars
<1> QED
  BY <1>1, <1>2, <1>3, <1>4, <1>5, <1>6, <1>7, <1>8, <1>9, <1>10, <1>11, <1>12,
     <1>13, <1>14, <1>15, <1>16, <1>17, <1>18, <1>19, <1>20, <1>21, <1>22, <1>23,
     <1>24, <1>25, <1>26, <1>27, <1>28, <1>29, <1>30, <1>31, <1>32, <1>33, <1>34
     DEF Windows!Next, Windows!MainStep, Windows!Environment, Windows!Works,
         Windows!SessionStep, Windows!OutputStep, Windows!InputStep, Windows!ProgramStep

(* The ends of the pipes.                                                  *)
LEMMA PipesStep ==
    TypeInv /\ Replies /\ Pipes /\ [Windows!Next]_(Windows!vars) => Pipes'
<1> SUFFICES ASSUME TypeInv, Replies, Pipes, [Windows!Next]_(Windows!vars)
             PROVE  Pipes'
  OBVIOUS
<1> USE DEF TypeInv, Replies, Pipes, Windows!Ends, Windows!Both,
            Windows!main, Windows!threads, Windows!programs
<1>1. ASSUME Windows!ConsoleEvent PROVE Pipes'
  BY <1>1 DEF Windows!ConsoleEvent
<1>2. ASSUME Windows!Loop PROVE Pipes'
  BY <1>2 DEF Windows!Loop
<1>3. ASSUME Windows!AcceptFails PROVE Pipes'
  BY <1>3 DEF Windows!AcceptFails
<1>4. ASSUME Windows!AcceptClosed PROVE Pipes'
  BY <1>4 DEF Windows!AcceptClosed
<1>5. ASSUME Windows!CloseListener PROVE Pipes'
  BY <1>5 DEF Windows!CloseListener
<1>6. ASSUME Windows!ShutdownSockets PROVE Pipes'
  BY <1>6 DEF Windows!ShutdownSockets
<1>7. ASSUME Windows!CloseJob PROVE Pipes'
  BY <1>7 DEF Windows!CloseJob
<1>8. ASSUME Windows!JoinAll PROVE Pipes'
  BY <1>8 DEF Windows!JoinAll
<1>9. ASSUME NEW c \in Clients, NEW s \in Sockets, Windows!Accept(c, s) PROVE Pipes'
  BY <1>9 DEF Windows!Accept, Windows!FreeSockets
<1>10. ASSUME NEW c \in Clients, Windows!StartSession(c) PROVE Pipes'
  BY <1>10 DEF Windows!StartSession, Windows!Stage
<1>11. ASSUME NEW c \in Clients, Windows!CreatePipes(c) PROVE Pipes'
  BY <1>11 DEF Windows!CreatePipes, Windows!Stage
<1>12. ASSUME NEW c \in Clients, Windows!Configure(c) PROVE Pipes'
  BY <1>12 DEF Windows!Configure, Windows!Stage
<1>13. ASSUME NEW c \in Clients, Windows!Spawn(c) PROVE Pipes'
  BY <1>13 DEF Windows!Spawn, Windows!Stage
<1>14. ASSUME NEW c \in Clients, Windows!Assign(c) PROVE Pipes'
  BY <1>14 DEF Windows!Assign, Windows!Stage
<1>15. ASSUME NEW c \in Clients, Windows!Resume(c) PROVE Pipes'
  BY <1>15 DEF Windows!Resume, Windows!Stage
<1>16. ASSUME NEW c \in Clients, Windows!Relay(c) PROVE Pipes'
  BY <1>16 DEF Windows!Relay, Windows!Stage
<1>17. ASSUME NEW c \in Clients, Windows!WaitProcess(c) PROVE Pipes'
  BY <1>17 DEF Windows!WaitProcess, Windows!WaitReturns, Windows!Stage
<1>18. ASSUME NEW c \in Clients, Windows!Join(c) PROVE Pipes'
  BY <1>18 DEF Windows!Join, Windows!JoinReturns, Windows!Stage
<1>19. ASSUME NEW c \in Clients, Windows!Finish(c) PROVE Pipes'
  BY <1>19 DEF Windows!Finish, Windows!Stage
<1>20. ASSUME NEW c \in Clients, Windows!ReadOutput(c) PROVE Pipes'
  BY <1>20 DEF Windows!ReadOutput, Windows!ReadReturns, Windows!OutputEnds
<1>21. ASSUME NEW c \in Clients, Windows!SendSucceeds(c) PROVE Pipes'
  BY <1>21 DEF Windows!SendSucceeds
<1>22. ASSUME NEW c \in Clients, Windows!SendFails(c) PROVE Pipes'
  BY <1>22 DEF Windows!SendFails, Windows!SendReturns
<1>23. ASSUME NEW c \in Clients, Windows!CloseOutput(c) PROVE Pipes'
  BY <1>23 DEF Windows!CloseOutput
<1>24. ASSUME NEW c \in Clients, Windows!Receive(c) PROVE Pipes'
  BY <1>24 DEF Windows!Receive, Windows!ReceiveReturns
<1>25. ASSUME NEW c \in Clients, Windows!WriteInput(c) PROVE Pipes'
  BY <1>25 DEF Windows!WriteInput, Windows!WriteReturns
<1>26. ASSUME NEW c \in Clients, Windows!WriteToNobody(c) PROVE Pipes'
  BY <1>26 DEF Windows!WriteToNobody
<1>27. ASSUME NEW c \in Clients, Windows!CloseInput(c) PROVE Pipes'
  BY <1>27 DEF Windows!CloseInput
<1>28. ASSUME NEW c \in Clients, Windows!Reply(c) PROVE Pipes'
  BY <1>28 DEF Windows!Reply, Windows!ProgramReturns, Windows!Asked
<1>29. ASSUME NEW c \in Clients, Windows!ProgramEnds(c) PROVE Pipes'
  BY <1>29 DEF Windows!ProgramEnds, Windows!ProgramReturns, Windows!Dies
<1>30. ASSUME NEW c \in Clients, Windows!Crash(c) PROVE Pipes'
  BY <1>30 DEF Windows!Crash, Windows!Dies
<1>31. ASSUME NEW c \in Clients, Windows!Connect(c) PROVE Pipes'
  BY <1>31 DEF Windows!Connect
<1>32. ASSUME NEW c \in Clients, Windows!Ask(c) PROVE Pipes'
  BY <1>32 DEF Windows!Ask
<1>33. ASSUME NEW c \in Clients, Windows!HangUp(c) PROVE Pipes'
  BY <1>33 DEF Windows!HangUp
<1>34. CASE UNCHANGED Windows!vars
  BY <1>34 DEF Windows!vars
<1> QED
  BY <1>1, <1>2, <1>3, <1>4, <1>5, <1>6, <1>7, <1>8, <1>9, <1>10, <1>11, <1>12,
     <1>13, <1>14, <1>15, <1>16, <1>17, <1>18, <1>19, <1>20, <1>21, <1>22, <1>23,
     <1>24, <1>25, <1>26, <1>27, <1>28, <1>29, <1>30, <1>31, <1>32, <1>33, <1>34
     DEF Windows!Next, Windows!MainStep, Windows!Environment, Windows!Works,
         Windows!SessionStep, Windows!OutputStep, Windows!InputStep, Windows!ProgramStep

(* Initially.                                                              *)
LEMMA IInvInit == Windows!Init => IInv
<1> SUFFICES ASSUME Windows!Init
             PROVE  IInv
  OBVIOUS
<1>1. TypeInv
  BY DEF Windows!Init, TypeInv, Stages, Steps, Windows!Ends, Windows!Both
<1>2. Windows!SocketsRegistered
  BY DEF Windows!Init, Windows!SocketsRegistered, Windows!Unfinished
<1>3. Handles
  BY <1>2 DEF Windows!Init, Handles
<1>4. Stops /\ Lives /\ Replies /\ Pipes
  BY DEF Windows!Init, Stops, Lives, Windows!Alive, Replies, Pipes
<1> QED
  BY <1>1, <1>3, <1>4 DEF IInv

(* The worlds of Processes: the supervisor's steps are those of Windows.   *)
LEMMA Worlds ==
    /\ AllInit => ~(world = "windows") \/ Windows!Init
    /\ [AllNext]_allVars =>
          ~(world' = "windows") \/ (world = "windows" /\ [Windows!Next]_(Windows!vars))
<1>1. AllInit => ~(world = "windows") \/ Windows!Init
  BY DEF AllInit
<1>2. ASSUME [AllNext]_allVars, world' = "windows"
      PROVE  world = "windows" /\ [Windows!Next]_(Windows!vars)
  BY <1>2 DEF AllNext, In, allVars, windowsVars, Windows!vars, Windows!main,
              Windows!threads, Windows!programs
<1> QED
  BY <1>1, <1>2

(* The invariant holds throughout every behaviour of the supervisor.       *)
THEOREM Inductive == AllSpec => [](~(world = "windows") \/ IInv)
<1> DEFINE Inv == ~(world = "windows") \/ IInv
<1>1. AllInit => Inv
  BY Worlds, IInvInit
<1>2. Inv /\ [AllNext]_allVars => Inv'
  BY Worlds, TypeInvStep, HandlesStep, StopsStep, LivesStep, RepliesStep, PipesStep DEF IInv
<1> QED
  BY <1>1, <1>2, PTL DEF AllSpec

-----------------------------------------------------------------------------
(* What the properties say.                                                *)

(* A program that lives when the job is closed is one that its session is  *)
(* about to give to the job, and will end.                                 *)
LEMMA AssignGoesOn ==
    ASSUME IInv, NEW d \in Clients, Windows!Alive(d), ~job
    PROVE  Windows!GoesOn(d)
<1>1. stage[d] = "assign"
  BY DEF IInv, Lives
<1> QED
  BY <1>1 DEF Windows!GoesOn

(* Without another program that has an end of its pipes, a session whose   *)
(* socket is shut down or whose client is gone is never stuck.             *)
LEMMA RelayGoesOn ==
    ASSUME IInv, NEW c \in Clients, stage[c] \notin {"none", "done"},
           shut[c] = Windows!Both \/ client[c] = "gone",
           \A e \in Windows!Ends : ~Windows!HeldOutside(c, e)
    PROVE  Windows!GoesOn(c)
<1> SUFFICES ASSUME ~Windows!GoesOn(c)
             PROVE  FALSE
  OBVIOUS
<1>1. stage[c] \in {"wait", "join"}
  BY DEF IInv, TypeInv, Stages, Windows!GoesOn
<1>2. /\ copying[c] \in {"read", "send", "ended"}
      /\ input[c] \in {"select", "write", "ended"}
  BY <1>1 DEF IInv, TypeInv, Replies, Windows!GoesOn
<1>3. copying[c] # "send"
  BY DEF Windows!GoesOn, Windows!SendReturns, Windows!Both
<1>4. input[c] # "select"
  BY <1>3 DEF Windows!GoesOn, Windows!ReceiveReturns, Windows!Both
<1>5. "inR" \notin ends[c] /\ "outW" \notin ends[c]
  BY <1>1 DEF IInv, Pipes
<1>6. CASE Windows!Alive(c)
  <2>1. stage[c] = "wait" /\ process[c] = "running"
    BY <1>1, <1>6 DEF IInv, Lives, Windows!Alive
  <2>2. input[c] = "ended"
    BY <1>2, <1>4, <2>1 DEF Windows!GoesOn, Windows!WriteReturns
  <2>3. Windows!InputEnds(c)
    BY <1>1, <2>2 DEF IInv, Pipes, Windows!InputEnds, Windows!Ends
  <2> QED
    BY <2>1, <2>3 DEF Windows!GoesOn, Windows!ProgramReturns
<1>7. CASE ~Windows!Alive(c)
  <2>1. stage[c] = "join"
    BY <1>1, <1>7 DEF Windows!GoesOn, Windows!WaitReturns
  <2>2. input[c] = "ended"
    BY <1>2, <1>4, <1>5, <1>7
       DEF Windows!GoesOn, Windows!WriteReturns, Windows!HasReader, Windows!Ends
  <2>3. copying[c] = "ended"
    BY <1>2, <1>3, <1>5, <1>7
       DEF Windows!GoesOn, Windows!ReadReturns, Windows!OutputEnds, Windows!Ends
  <2> QED
    BY <2>1, <2>2, <2>3 DEF Windows!GoesOn, Windows!JoinReturns
<1> QED
  BY <1>6, <1>7

LEMMA NeverStuck == IInv => Windows!StopNeverStuck
<1> SUFFICES ASSUME IInv, stopping, step # "exited", ~Windows!MainGoesOn
             PROVE  \E c \in Clients : Windows!GoesOn(c)
  BY DEF Windows!StopNeverStuck
<1>1. step = "join" /\ ~job
  BY DEF IInv, TypeInv, Steps, Stops, Windows!MainGoesOn
<1>2. PICK c \in sessions : stage[c] # "done"
  BY <1>1 DEF Windows!MainGoesOn
<1>3. c \in Clients /\ stage[c] # "none"
  BY DEF IInv, TypeInv, Lives
<1>4. CASE \E d \in Clients : Windows!Alive(d)
  BY <1>1, <1>4, AssignGoesOn
<1>5. CASE stage[c] = "close"
  BY <1>3, <1>5 DEF Windows!GoesOn
<1>6. CASE stage[c] # "close" /\ ~\E d \in Clients : Windows!Alive(d)
  <2>1. shut[c] = Windows!Both
    BY <1>1, <1>2, <1>3, <1>6 DEF IInv, Stops, Windows!Unfinished
  <2>2. \A e \in Windows!Ends : ~Windows!HeldOutside(c, e)
    BY <1>6 DEF Windows!HeldOutside
  <2> QED
    BY <1>2, <1>3, <2>1, <2>2, RelayGoesOn
<1> QED
  BY <1>4, <1>5, <1>6

LEMMA HangUpEnds == IInv => Windows!HangUpEndsSession
<1> SUFFICES ASSUME IInv, NEW c \in Clients, client[c] = "gone",
                    stage[c] \notin {"none", "done"}, ~Windows!SharedPipe(c)
             PROVE  Windows!GoesOn(c)
  BY DEF Windows!HangUpEndsSession
<1>1. \A e \in Windows!Ends : ~Windows!HeldOutside(c, e)
  BY DEF Windows!SharedPipe, Windows!HeldOutside
<1> QED
  BY <1>1, RelayGoesOn

(* The reply is lost or still in the pipe of a session that is over.       *)
LEMMA NoReplyIsCut == IInv => Windows!RepliesArrive
<1> SUFFICES ASSUME IInv, NEW c \in Clients,
                    traffic[c] = "lost" \/ (stage[c] = "done" /\ traffic[c] = "piped")
             PROVE  stopping \/ client[c] = "gone"
  BY DEF Windows!RepliesArrive
<1>1. CASE traffic[c] = "lost"
  BY <1>1 DEF IInv, Replies
<1>2. CASE stage[c] = "done" /\ traffic[c] = "piped"
  BY <1>2 DEF IInv, TypeInv, Lives, Replies
<1> QED
  BY <1>1, <1>2

(* When the supervisor is stopped, its registry names the sockets of the   *)
(* sessions that have not finished and no other, although the system gives *)
(* a closed socket's handle to the next connection; until it has exited    *)
(* one of its threads or programs can go on; and then no session program   *)
(* is left, wherever the stop met it: not created yet, not in the job, or  *)
(* running (tcp_adapter_windows.cpp: run_tcp_adapter_windows).             *)
THEOREM StopReachesAll == AllSpec => []StopLeavesNothing
<1>1. ~(world = "windows") \/ IInv => StopLeavesNothing
  <2>1. IInv => Windows!SocketsRegistered
    BY DEF IInv, Handles
  <2>2. IInv => Windows!NoProgramLeft
    BY DEF IInv, TypeInv, Lives, Windows!NoProgramLeft
  <2> QED
    BY <2>1, <2>2, NeverStuck DEF StopLeavesNothing, Windows!StopLeavesNothing
<1> QED
  BY <1>1, Inductive, PTL

(* A reply that a session program wrote reaches its client, unless the     *)
(* client is gone or the supervisor stops; and a session whose client hung *)
(* up goes on to its end, unless another session's program was given an    *)
(* end of its pipes (tcp_adapter_windows.cpp: run_session).                *)
THEOREM SessionsDeliver == AllSpec => []SessionsServed
<1>1. ~(world = "windows") \/ IInv => SessionsServed
  BY NoReplyIsCut, HangUpEnds DEF SessionsServed, Windows!SessionsServed
<1> QED
  BY <1>1, Inductive, PTL
=============================================================================
