-------------------------- MODULE TcpSupervisorProof --------------------------
(***************************************************************************)
(* Proofs about TcpSupervisor for every set of process ids and clients.    *)
(***************************************************************************)
EXTENDS TcpSupervisor, TLAPS

(***************************************************************************)
(* The inductive invariant.                                                *)
(***************************************************************************)

(* The supervisor's books: between fork and children.insert the new        *)
(* session is known by child alone; when the waits begin todo holds every  *)
(* session that is left.                                                   *)
Books ==
    /\ child # None => pc = "parent"
    /\ pc \notin {"wait", "exited"} => Sessions = children \cup ({child} \ {None})
    /\ pc = "wait" => Sessions \subseteq todo
    /\ pc = "exited" => Sessions = {}

(* Where the descriptors of connections are.                               *)
Descriptors ==
    /\ pc \notin {"configure", "fork", "parent"} => held = {}
    /\ pc \in {"configure", "fork"} =>
          \A p \in Pids : fds[p] \cap held = {}
    /\ \A p, q \in Pids : p # q => fds[p] \cap fds[q] = {}
    /\ \A p \in Pids : proc[p] = "forked" => serves[p] \in fds[p]
    /\ \A c \in Clients, p \in Pids : c \in held \cup fds[p] =>
          client[c] \in {"open", "gone"}

IInv == TypeOK /\ Books /\ Descriptors

(***************************************************************************)
(* Every step preserves it.                                                *)
(***************************************************************************)

(* Types.                                                                  *)
LEMMA TypingStep ==
    TypeOK /\ Descriptors /\ [Next]_vars => TypeOK'
<1> SUFFICES ASSUME TypeOK, Descriptors, [Next]_vars
             PROVE  TypeOK'
  OBVIOUS
<1> USE DEF TypeOK, Labels, Programs
<1>1. ASSUME Loop PROVE TypeOK'
  BY <1>1 DEF Loop, supervisor, sessions
<1>2. ASSUME Block PROVE TypeOK'
  BY <1>2 DEF Block, supervisor, sessions
<1>3. ASSUME AcceptFails PROVE TypeOK'
  BY <1>3 DEF AcceptFails, supervisor, sessions
<1>4. ASSUME AcceptClosed PROVE TypeOK'
  BY <1>4 DEF AcceptClosed, supervisor, sessions
<1>5. ASSUME Configure PROVE TypeOK'
  BY <1>5 DEF Configure, supervisor, sessions
<1>6. ASSUME ForkFails PROVE TypeOK'
  BY <1>6 DEF ForkFails, supervisor, sessions
<1>7. ASSUME Parent PROVE TypeOK'
  BY <1>7 DEF Parent, supervisor, sessions
<1>8. ASSUME Closing PROVE TypeOK'
  BY <1>8 DEF Closing, supervisor, sessions
<1>9. ASSUME KillDone PROVE TypeOK'
  BY <1>9 DEF KillDone, supervisor, sessions
<1>10. ASSUME Exit PROVE TypeOK'
  BY <1>10 DEF Exit, supervisor, sessions
<1>11. ASSUME StopSignal PROVE TypeOK'
  BY <1>11 DEF StopSignal, HandleStop, Wake, supervisor, sessions
<1>12. ASSUME Interrupt PROVE TypeOK'
  BY <1>12 DEF Interrupt, HandleStop, Wake, DescriptorsLeft, Terminated, supervisor, sessions
<1>13. ASSUME NEW c \in Clients, Accept(c) PROVE TypeOK'
  BY <1>13 DEF Accept, supervisor, sessions
<1>14. ASSUME NEW c \in Clients, Connect(c) PROVE TypeOK'
  BY <1>14 DEF Connect, supervisor, sessions
<1>15. ASSUME NEW c \in Clients, HangUp(c) PROVE TypeOK'
  BY <1>15 DEF HangUp, supervisor, sessions
<1>16. ASSUME NEW p \in Pids, Fork(p) PROVE TypeOK'
  BY <1>16 DEF Fork, supervisor, sessions
<1>17. ASSUME NEW p \in Pids, Kill(p) PROVE TypeOK'
  BY <1>17 DEF Kill, DescriptorsLeft, Terminated, supervisor, sessions
<1>18. ASSUME NEW p \in Pids, Wait(p) PROVE TypeOK'
  BY <1>18 DEF Wait, supervisor, sessions
<1>19. ASSUME NEW p \in Pids, Exec(p) PROVE TypeOK'
  <2>1. serves[p] \in Clients
    BY <1>19 DEF Exec, Descriptors
  <2> QED
    BY <2>1, <1>19 DEF Exec, supervisor, sessions
<1>20. ASSUME NEW p \in Pids, ExecFails(p) PROVE TypeOK'
  BY <1>20 DEF ExecFails, Dies, Wake, supervisor, sessions
<1>21. ASSUME NEW p \in Pids, Install(p) PROVE TypeOK'
  BY <1>21 DEF Install, supervisor, sessions
<1>22. ASSUME NEW p \in Pids, EndOfInput(p) PROVE TypeOK'
  BY <1>22 DEF EndOfInput, Dies, Wake, supervisor, sessions
<1>23. ASSUME NEW p \in Pids, SessionExits(p) PROVE TypeOK'
  BY <1>23 DEF SessionExits, Dies, Wake, supervisor, sessions
<1>24. ASSUME NEW p \in Pids, Stranger(p) PROVE TypeOK'
  BY <1>24 DEF Stranger, supervisor, sessions
<1>25. CASE UNCHANGED vars
  BY <1>25 DEF vars, supervisor, sessions
<1> QED
  BY <1>1, <1>2, <1>3, <1>4, <1>5, <1>6, <1>7, <1>8, <1>9, <1>10, <1>11, <1>12, <1>13, <1>14, <1>15, <1>16, <1>17, <1>18, <1>19, <1>20, <1>21, <1>22, <1>23, <1>24, <1>25
     DEF Next, SupervisorStep, SessionStep, Environment

(* The supervisor's books.                                                 *)
LEMMA BooksStep ==
    TypeOK /\ Books /\ [Next]_vars => Books'
<1> SUFFICES ASSUME TypeOK, Books, [Next]_vars
             PROVE  Books'
  OBVIOUS
<1> USE DEF TypeOK, Books, Sessions, Ours, Programs
<1>1. ASSUME Loop PROVE Books'
  BY <1>1 DEF Loop, supervisor, sessions
<1>2. ASSUME Block PROVE Books'
  BY <1>2 DEF Block, supervisor, sessions
<1>3. ASSUME AcceptFails PROVE Books'
  BY <1>3 DEF AcceptFails, supervisor, sessions
<1>4. ASSUME AcceptClosed PROVE Books'
  BY <1>4 DEF AcceptClosed, supervisor, sessions
<1>5. ASSUME Configure PROVE Books'
  BY <1>5 DEF Configure, supervisor, sessions
<1>6. ASSUME ForkFails PROVE Books'
  BY <1>6 DEF ForkFails, supervisor, sessions
<1>7. ASSUME Parent PROVE Books'
  BY <1>7 DEF Parent, supervisor, sessions
<1>8. ASSUME Closing PROVE Books'
  BY <1>8 DEF Closing, supervisor, sessions
<1>9. ASSUME KillDone PROVE Books'
  BY <1>9 DEF KillDone, supervisor, sessions
<1>10. ASSUME Exit PROVE Books'
  BY <1>10 DEF Exit, supervisor, sessions
<1>11. ASSUME StopSignal PROVE Books'
  BY <1>11 DEF StopSignal, HandleStop, Wake, supervisor, sessions
<1>12. ASSUME Interrupt PROVE Books'
  BY <1>12 DEF Interrupt, HandleStop, Wake, DescriptorsLeft, Terminated, supervisor, sessions
<1>13. ASSUME NEW c \in Clients, Accept(c) PROVE Books'
  BY <1>13 DEF Accept, supervisor, sessions
<1>14. ASSUME NEW c \in Clients, Connect(c) PROVE Books'
  BY <1>14 DEF Connect, supervisor, sessions
<1>15. ASSUME NEW c \in Clients, HangUp(c) PROVE Books'
  BY <1>15 DEF HangUp, supervisor, sessions
<1>16. ASSUME NEW p \in Pids, Fork(p) PROVE Books'
  BY NoneAssumption, <1>16 DEF Fork, supervisor, sessions
<1>17. ASSUME NEW p \in Pids, Kill(p) PROVE Books'
  BY <1>17 DEF Kill, DescriptorsLeft, Terminated, supervisor, sessions
<1>18. ASSUME NEW p \in Pids, Wait(p) PROVE Books'
  BY <1>18 DEF Wait, supervisor, sessions
<1>19. ASSUME NEW p \in Pids, Exec(p) PROVE Books'
  BY <1>19 DEF Exec, supervisor, sessions
<1>20. ASSUME NEW p \in Pids, ExecFails(p) PROVE Books'
  BY <1>20 DEF ExecFails, Dies, Wake, supervisor, sessions
<1>21. ASSUME NEW p \in Pids, Install(p) PROVE Books'
  BY <1>21 DEF Install, supervisor, sessions
<1>22. ASSUME NEW p \in Pids, EndOfInput(p) PROVE Books'
  BY <1>22 DEF EndOfInput, Dies, Wake, supervisor, sessions
<1>23. ASSUME NEW p \in Pids, SessionExits(p) PROVE Books'
  BY <1>23 DEF SessionExits, Dies, Wake, supervisor, sessions
<1>24. ASSUME NEW p \in Pids, Stranger(p) PROVE Books'
  BY <1>24 DEF Stranger, supervisor, sessions
<1>25. CASE UNCHANGED vars
  BY <1>25 DEF vars, supervisor, sessions
<1> QED
  BY <1>1, <1>2, <1>3, <1>4, <1>5, <1>6, <1>7, <1>8, <1>9, <1>10, <1>11, <1>12, <1>13, <1>14, <1>15, <1>16, <1>17, <1>18, <1>19, <1>20, <1>21, <1>22, <1>23, <1>24, <1>25
     DEF Next, SupervisorStep, SessionStep, Environment

(* Descriptors.                                                            *)
LEMMA DescriptorsStep ==
    TypeOK /\ Descriptors /\ [Next]_vars => Descriptors'
<1> SUFFICES ASSUME TypeOK, Descriptors, [Next]_vars
             PROVE  Descriptors'
  OBVIOUS
<1> USE DEF TypeOK, Descriptors, Programs
<1>1. ASSUME Loop PROVE Descriptors'
  BY <1>1 DEF Loop, supervisor, sessions
<1>2. ASSUME Block PROVE Descriptors'
  BY <1>2 DEF Block, supervisor, sessions
<1>3. ASSUME AcceptFails PROVE Descriptors'
  BY <1>3 DEF AcceptFails, supervisor, sessions
<1>4. ASSUME AcceptClosed PROVE Descriptors'
  BY <1>4 DEF AcceptClosed, supervisor, sessions
<1>5. ASSUME Configure PROVE Descriptors'
  BY <1>5 DEF Configure, supervisor, sessions
<1>6. ASSUME ForkFails PROVE Descriptors'
  BY <1>6 DEF ForkFails, supervisor, sessions
<1>7. ASSUME Parent PROVE Descriptors'
  BY <1>7 DEF Parent, supervisor, sessions
<1>8. ASSUME Closing PROVE Descriptors'
  BY <1>8 DEF Closing, supervisor, sessions
<1>9. ASSUME KillDone PROVE Descriptors'
  BY <1>9 DEF KillDone, supervisor, sessions
<1>10. ASSUME Exit PROVE Descriptors'
  BY <1>10 DEF Exit, supervisor, sessions
<1>11. ASSUME StopSignal PROVE Descriptors'
  BY <1>11 DEF StopSignal, HandleStop, Wake, supervisor, sessions
<1>12. ASSUME Interrupt PROVE Descriptors'
  BY <1>12 DEF Interrupt, HandleStop, Wake, DescriptorsLeft, Terminated, supervisor, sessions
<1>13. ASSUME NEW c \in Clients, Accept(c) PROVE Descriptors'
  BY <1>13 DEF Accept, supervisor, sessions
<1>14. ASSUME NEW c \in Clients, Connect(c) PROVE Descriptors'
  BY <1>14 DEF Connect, supervisor, sessions
<1>15. ASSUME NEW c \in Clients, HangUp(c) PROVE Descriptors'
  BY <1>15 DEF HangUp, supervisor, sessions
<1>16. ASSUME NEW p \in Pids, Fork(p) PROVE Descriptors'
  BY <1>16 DEF Fork, supervisor, sessions
<1>17. ASSUME NEW p \in Pids, Kill(p) PROVE Descriptors'
  BY <1>17 DEF Kill, DescriptorsLeft, Terminated, supervisor, sessions
<1>18. ASSUME NEW p \in Pids, Wait(p) PROVE Descriptors'
  BY <1>18 DEF Wait, supervisor, sessions
<1>19. ASSUME NEW p \in Pids, Exec(p) PROVE Descriptors'
  BY <1>19 DEF Exec, supervisor, sessions
<1>20. ASSUME NEW p \in Pids, ExecFails(p) PROVE Descriptors'
  BY <1>20 DEF ExecFails, Dies, Wake, supervisor, sessions
<1>21. ASSUME NEW p \in Pids, Install(p) PROVE Descriptors'
  BY <1>21 DEF Install, supervisor, sessions
<1>22. ASSUME NEW p \in Pids, EndOfInput(p) PROVE Descriptors'
  BY <1>22 DEF EndOfInput, Dies, Wake, supervisor, sessions
<1>23. ASSUME NEW p \in Pids, SessionExits(p) PROVE Descriptors'
  BY <1>23 DEF SessionExits, Dies, Wake, supervisor, sessions
<1>24. ASSUME NEW p \in Pids, Stranger(p) PROVE Descriptors'
  BY <1>24 DEF Stranger, supervisor, sessions
<1>25. CASE UNCHANGED vars
  BY <1>25 DEF vars, supervisor, sessions
<1> QED
  BY <1>1, <1>2, <1>3, <1>4, <1>5, <1>6, <1>7, <1>8, <1>9, <1>10, <1>11, <1>12, <1>13, <1>14, <1>15, <1>16, <1>17, <1>18, <1>19, <1>20, <1>21, <1>22, <1>23, <1>24, <1>25
     DEF Next, SupervisorStep, SessionStep, Environment

(* The invariant holds throughout every behaviour.                         *)
THEOREM Inductive == Spec => []IInv
<1>1. Init => IInv
  BY NoneAssumption
     DEF Init, IInv, TypeOK, Books, Descriptors, Sessions, Labels, Programs, Ours
<1>2. IInv /\ [Next]_vars => IInv'
  BY TypingStep, BooksStep, DescriptorsStep DEF IInv
<1> QED
  BY <1>1, <1>2, PTL DEF Spec

(* Every variable of the supervisor and its sessions keeps its type: what  *)
(* is in the books are process ids, and what a session holds, connections. *)
THEOREM TypeCorrect == Spec => []TypeOK
<1>1. IInv => TypeOK
  BY DEF IInv
<1> QED
  BY <1>1, Inductive, PTL

(* The supervisor sends SIGTERM to sessions it has not reaped, and to no   *)
(* other program, although the operating system recycles process ids.      *)
THEOREM SignalsStayHome == Spec => []SignalsOnlySessions
<1>1. IInv => SignalsOnlySessions
  BY DEF IInv, Books, SignalsOnlySessions
<1> QED
  BY <1>1, Inductive, PTL

(* When run_tcp_adapter_posix returns, every session it ever forked has    *)
(* ended and has been reaped, wherever the stop caught the loop.           *)
THEOREM NoSessionLeft == Spec => []NoOrphans
<1>1. IInv => NoOrphans
  BY DEF IInv, Books, NoOrphans
<1> QED
  BY <1>1, Inductive, PTL

(* Back in its loop the supervisor holds no connection, and no two         *)
(* sessions share one.                                                     *)
THEOREM ConnectionsSeparate == Spec => []HeldByItsSession
<1>1. IInv => HeldByItsSession
  BY DEF IInv, Descriptors, HeldByItsSession
<1> QED
  BY <1>1, Inductive, PTL
=============================================================================
