---------------------------- MODULE EngineProcess ----------------------------
(***************************************************************************)
(* EngineProcess (src/src/lsp/engine_transport.cpp, POSIX) as the bridge   *)
(* uses it: two probes of the executable and then the engine, each in a    *)
(* process group of its own, with one pipe for what it prints.  The        *)
(* program forks, prints, leaves helpers behind and exits whenever it      *)
(* likes; SIGTERM therefore changes nothing that its exit does not.        *)
(***************************************************************************)
EXTENDS Naturals

CONSTANTS
    MaxStarts,          \* bound: programs started
    Capacity,           \* what the pipe holds, and a drain takes at once
    LogLimit,           \* what the log holds
    MaxOutput           \* bound: what one program prints

ASSUME BoundsAssumption == MaxStarts \in Nat /\ LogLimit \in Nat

VARIABLES
    pc,                 \* where the bridge is in start, running and stop
    phase,              \* what it starts the executable for
    pid, group, output, \* Impl; 0 for -1
    log,                \* how much of what was printed last it holds
    status,             \* of each program: its process...
    own,                \* ... whether it leads its own group...
    helper,             \* ... and whether a helper of it lives
    pipe,               \* what the pipe holds
    printed             \* what the last program has printed

vars == <<pc, phase, pid, group, output, log, status, own, helper, pipe, printed>>
kernel == <<status, own, helper, pipe, printed>>

Programs == 1..MaxStarts
Started == {g \in Programs : status[g] # "none"}
Live == {"forked", "running"}

-----------------------------------------------------------------------------
(* The program.                                                            *)

(* The child's own setpgid, then execvp or _exit.                          *)
ChildRuns(g) ==
    /\ status[g] = "forked"
    /\ own' = [own EXCEPT ![g] = TRUE]
    /\ \E s \in {"running", "zombie"} : status' = [status EXCEPT ![g] = s]
    /\ UNCHANGED <<pc, phase, pid, group, output, log, helper, pipe, printed>>

Prints(g) ==
    /\ status[g] = "running" /\ g = pid /\ output
    /\ pipe < Capacity /\ printed < MaxOutput
    /\ pipe' = pipe + 1 /\ printed' = printed + 1
    /\ UNCHANGED <<pc, phase, pid, group, output, log, status, own, helper>>

Helps(g) ==
    /\ status[g] = "running" /\ ~helper[g]
    /\ helper' = [helper EXCEPT ![g] = TRUE]
    /\ UNCHANGED <<pc, phase, pid, group, output, log, status, own, pipe, printed>>

Exits(g) ==
    /\ \/ /\ status[g] \in Live
          /\ status' = [status EXCEPT ![g] = "zombie"] /\ UNCHANGED helper
       \/ helper[g] /\ helper' = [helper EXCEPT ![g] = FALSE] /\ UNCHANGED status
    /\ UNCHANGED <<pc, phase, pid, group, output, log, own, pipe, printed>>

(* kill(-g, SIGKILL) reaches who is in the group.                          *)
Killed(g) ==
    /\ status' = [status EXCEPT ![g] = IF own[g] /\ @ \in Live THEN "zombie" ELSE @]
    /\ helper' = [helper EXCEPT ![g] = FALSE]

(* append_log: of more than the limit the end is kept.                     *)
Kept(size) == IF size > LogLimit THEN LogLimit ELSE size

Drained == log' = Kept(log + pipe) /\ pipe' = 0

-----------------------------------------------------------------------------
(* stop                                                                    *)

(* Mutant: a program that has been reaped is gone.                         *)
StopIfRunning ==
    /\ pc = "stop"
    /\ pc' = IF pid > 0 THEN "drain_stopped" ELSE "close"
    /\ UNCHANGED <<phase, pid, group, output, log, kernel>>

Stop ==
    /\ pc = "stop"
    /\ pc' = CASE pid > 0 -> "drain_stopped" [] pid = 0 /\ group > 0 -> "sweep"
               [] OTHER -> "close"
    /\ UNCHANGED <<phase, pid, group, output, log, kernel>>

(* running(): what it reads, and then what waitpid says.                   *)
DrainRunning ==
    /\ pc \in {"drain_stopped", "drain_used"}
    /\ Drained
    /\ pc' = IF pc = "drain_used" THEN "used" ELSE "stopping"
    /\ UNCHANGED <<phase, pid, group, output, status, own, helper, printed>>

Reaped == status' = [status EXCEPT ![pid] = "reaped"] /\ pid' = 0

Wait ==
    /\ pc = "stopping"
    /\ IF status[pid] = "zombie"
       THEN Reaped /\ pc' = "sweep"
       ELSE /\ pc' \in {"drain_stopped", "kill"}    \* two seconds are over or not
            /\ UNCHANGED <<pid, status>>
    /\ UNCHANGED <<phase, group, output, log, own, helper, pipe, printed>>

Kill ==
    /\ pc = "kill"
    /\ Killed(pid) /\ pc' = "reap"
    /\ UNCHANGED <<phase, pid, group, output, log, own, pipe, printed>>

Reap ==
    /\ pc = "reap" /\ status[pid] = "zombie"
    /\ Reaped /\ pc' = "sweep"
    /\ UNCHANGED <<phase, group, output, log, own, helper, pipe, printed>>

Sweep ==
    /\ pc = "sweep"
    /\ Killed(group) /\ group' = 0 /\ pc' = "close"
    /\ UNCHANGED <<phase, pid, output, log, own, pipe, printed>>

Close ==
    /\ pc = "close"
    /\ IF output THEN Drained ELSE UNCHANGED <<log, pipe>>
    /\ output' = FALSE
    /\ pc' = IF phase = "idle" THEN "idle" ELSE "fork"
    /\ UNCHANGED <<phase, pid, group, status, own, helper, printed>>

-----------------------------------------------------------------------------
(* start                                                                   *)

(* fork, and the log that starts again.                                    *)
Fork ==
    /\ pc = "fork"
    /\ \/ /\ Started # Programs
          /\ LET g == CHOOSE n \in Programs \ Started :
                          \A m \in Programs \ Started : n <= m
             IN status' = [status EXCEPT ![g] = "forked"]
          /\ pc' = "parent" /\ log' = 0 /\ pipe' = 0 /\ printed' = 0
          /\ UNCHANGED phase
       \/ /\ pc' = "stop" /\ phase' = "idle"        \* it cannot be launched
          /\ UNCHANGED <<log, status, pipe, printed>>
    /\ UNCHANGED <<pid, group, output, own, helper>>

Last == CHOOSE g \in Started : \A m \in Started : m <= g

(* Mutant: only the child makes the group.                                 *)
ParentWaits ==
    /\ pc = "parent"
    /\ pid' = Last /\ group' = Last /\ output' = TRUE /\ pc' = "drain_used"
    /\ UNCHANGED <<phase, log, kernel>>

(* The parent's setpgid, which is too late for a program that runs.        *)
Parent ==
    /\ pc = "parent"
    /\ own' = [own EXCEPT ![Last] = @ \/ status[Last] = "forked"]
    /\ pid' = Last /\ group' = Last /\ output' = TRUE /\ pc' = "drain_used"
    /\ UNCHANGED <<phase, log, status, helper, pipe, printed>>

-----------------------------------------------------------------------------
(* EngineBridge::run: probe, probe, serve; and stop when it is over.       *)

Begin ==
    /\ pc = "idle"
    /\ phase' = "version" /\ pc' = "stop"
    /\ UNCHANGED <<pid, group, output, log, kernel>>

GiveUp ==
    /\ pc \in {"drain_used", "drain_log"}
    /\ phase' = "idle" /\ pc' = "stop"
    /\ UNCHANGED <<pid, group, output, log, kernel>>

Using ==
    /\ pc = "used"
    /\ IF status[pid] = "zombie" THEN Reaped /\ pc' = "drain_log"
       ELSE pc' = "drain_used" /\ UNCHANGED <<pid, status>>
    /\ UNCHANGED <<phase, group, output, log, own, helper, pipe, printed>>

(* Mutant: what running() has read is all there is.                        *)
ExitedRead ==
    /\ pc = "drain_log"
    /\ phase' = CASE phase = "version" -> "help" [] phase = "help" -> "serve"
                  [] OTHER -> "idle"
    /\ pc' = "probed"
    /\ UNCHANGED <<pid, group, output, log, kernel>>

(* process.log(): of a probe that has ended, or of an engine that died.    *)
Exited ==
    /\ pc = "drain_log"
    /\ Drained
    /\ phase' = CASE phase = "version" -> "help" [] phase = "help" -> "serve"
                  [] OTHER -> "idle"
    /\ pc' = "probed"
    /\ UNCHANGED <<pid, group, output, status, own, helper, printed>>

(* The answer is what was expected, or the bridge falls back.              *)
Answered ==
    /\ pc = "probed"
    /\ pc' = "stop" /\ phase' \in {phase, "idle"}
    /\ UNCHANGED <<pid, group, output, log, kernel>>

Init ==
    /\ pc = "idle" /\ phase = "idle" /\ pid = 0 /\ group = 0 /\ output = FALSE
    /\ log = 0 /\ pipe = 0 /\ printed = 0
    /\ status = [g \in Programs |-> "none"]
    /\ own = [g \in Programs |-> FALSE] /\ helper = [g \in Programs |-> FALSE]

Next ==
    \/ \E g \in Programs : ChildRuns(g) \/ Prints(g) \/ Helps(g) \/ Exits(g)
    \/ Begin \/ Fork \/ Parent \/ GiveUp \/ Using \/ Exited \/ Answered
    \/ Stop \/ DrainRunning \/ Wait \/ Kill \/ Reap \/ Sweep \/ Close

Spec == Init /\ [][Next]_vars

-----------------------------------------------------------------------------
(* Properties.                                                             *)

(* Once stop has returned nothing of any program is left: no engine, no     *)
(* helper of one that crashed or of a probe that ended by itself, and no    *)
(* zombie (the comment in stop).                                            *)
NothingLeft ==
    pc \in {"idle", "fork"} =>
        \A g \in Started : status[g] = "reaped" /\ ~helper[g]

(* stop never waits for a program that it has not killed: even the child    *)
(* that has not run yet is in its group (setpgid on both sides of fork).    *)
StopReturns == pc = "reap" => status[pid] = "zombie"

(* What a probe is judged by is the end of all that the program printed, as *)
(* much of it as the log holds, although the program may print and exit     *)
(* between the read and the waitpid of running(); so it is judged by all    *)
(* that it printed unless that is more than the log holds.                  *)
ProbeComplete == pc = "probed" => log = Kept(printed)

(* stop stops everything that was started and returns, and a probe is      *)
(* judged by the last of its output.                                       *)
EngineUnderControl ==
    /\ NothingLeft
    /\ StopReturns
    /\ ProbeComplete
=============================================================================
