-------------------------- MODULE EngineTransportProof --------------------------
(***************************************************************************)
(* Proofs about the engine's process and the connection to it, for every   *)
(* number of programs, every capacity of the pipe and every amount of      *)
(* output, and whatever numbers of bytes the socket delivers and accepts.  *)
(***************************************************************************)
EXTENDS Processes, SequenceTheorems, TLAPS

(***************************************************************************)
(* The inductive invariant of the process.                                 *)
(***************************************************************************)

Steps == {"idle", "stop", "drain_stopped", "stopping", "kill", "reap", "sweep", "close",
          "fork", "parent", "drain_used", "used", "drain_log", "probed"}

TypeInv ==
    /\ pc \in Steps
    /\ pid \in Programs \cup {0} /\ group \in Programs \cup {0}
    /\ log \in Nat /\ pipe \in Nat /\ printed \in Nat
    /\ status \in [Programs -> {"none", "forked", "running", "zombie", "reaped"}]
    /\ own \in [Programs -> BOOLEAN] /\ helper \in [Programs -> BOOLEAN]

(* Programs are started one after the other.                               *)
InOrder == \E k \in Nat : \A g \in Programs : status[g] # "none" <=> g <= k

(* What the bridge knows at each of its steps of the program it started.   *)
Known ==
    /\ pc \in {"drain_stopped", "stopping", "kill", "reap", "drain_used", "used"} => pid # 0
    /\ pc \in {"idle", "sweep", "close", "fork", "parent", "drain_log", "probed"} => pid = 0
    /\ pc \in {"idle", "close", "fork", "parent"} => group = 0
    /\ pc = "sweep" => group # 0
    /\ pid # 0 => group = pid /\ status[pid] \in {"forked", "running", "zombie"}
    /\ group # 0 => status[group] # "none"
    /\ pc = "reap" => status[pid] = "zombie"

(* No program but the one that is known lives or can be waited for, and    *)
(* none has a helper but the last one of its group.  After fork, until the *)
(* parent has noted it, that is the program that was started last.         *)
Unreaped == {"forked", "running", "zombie"}
Newest(g) == status[g] # "none" /\ \A m \in Programs : status[m] # "none" => m <= g

Accounted ==
    /\ \A g \in Programs : helper[g] => status[g] # "none"
    /\ pc = "parent" => /\ \E g \in Programs : Newest(g)
                        /\ \A g \in Programs :
                              /\ status[g] \in Unreaped <=> Newest(g)
                              /\ helper[g] => Newest(g)
    /\ pc # "parent" => \A g \in Programs :
                            /\ status[g] \in Unreaped => g = pid
                            /\ helper[g] => g = group

(* A program that runs, and one that may be killed, leads its group.       *)
Leads ==
    /\ \A g \in Programs : status[g] = "running" => own[g]
    /\ pid # 0 /\ status[pid] = "forked" => own[pid]

(* What was printed is in the pipe or was read, and the log is the end of   *)
(* what was read.                                                          *)
Logged ==
    /\ pipe <= printed /\ log = Kept(printed - pipe)
    /\ pc = "probed" => pipe = 0

ProcessInv == TypeInv /\ InOrder /\ Known /\ Accounted /\ Leads /\ Logged

-----------------------------------------------------------------------------

(* What the log keeps of what was read, read in one piece or in several.   *)
LEMMA KeptIsEnd ==
    /\ \A size \in Nat : Kept(size) \in Nat
    /\ Kept(0) = 0
    /\ \A early, size \in Nat : Kept(Kept(early) + size) = Kept(early + size)
BY BoundsAssumption DEF Kept

(* Reading the pipe leaves the end of all that was printed.                *)
LEMMA DrainStep ==
    ASSUME TypeInv, Logged, Drained, UNCHANGED printed
    PROVE  log' \in Nat /\ pipe' = 0 /\ pipe' <= printed' /\ log' = Kept(printed' - pipe')
<1>1. pipe \in Nat /\ printed \in Nat /\ pipe <= printed /\ log = Kept(printed - pipe)
  BY DEF TypeInv, Logged
<1>2. printed - pipe \in Nat /\ (printed - pipe) + pipe = printed /\ printed - 0 = printed
  BY <1>1
<1>3. log' = Kept(Kept(printed - pipe) + pipe) /\ pipe' = 0 /\ printed' = printed
  BY <1>1 DEF Drained
<1>4. log' = Kept(printed)
  BY <1>1, <1>2, <1>3, KeptIsEnd
<1> QED
  BY <1>1, <1>2, <1>3, <1>4, KeptIsEnd

(* fork takes the first program that was not started, and the parent the   *)
(* last one that was.                                                      *)

LEMMA LastIs ==
    ASSUME NEW g \in Programs, Newest(g)
    PROVE  Last = g
<1>1. g \in Started /\ \A m \in Started : m <= g
  BY DEF Started, Newest
<1>2. Last \in Started /\ \A m \in Started : m <= Last
  BY <1>1 DEF Last
<1> QED
  BY <1>1, <1>2, BoundsAssumption DEF Started, Programs

LEMMA FirstIs ==
    ASSUME NEW k \in Nat, \A g \in Programs : status[g] # "none" <=> g <= k,
           Started # Programs
    PROVE  /\ k + 1 \in Programs
           /\ (CHOOSE n \in Programs \ Started : \A m \in Programs \ Started : n <= m) = k + 1
<1>1. PICK p \in Programs : p > k
  BY BoundsAssumption DEF Started, Programs
<1>2. k + 1 \in Programs
  BY <1>1, BoundsAssumption DEF Programs
<1>3. \A m \in Programs \ Started : k + 1 <= m
  BY BoundsAssumption DEF Started, Programs
<1>4. k + 1 \in Programs \ Started
  BY <1>2 DEF Started, Programs
<1> DEFINE n == CHOOSE n \in Programs \ Started : \A m \in Programs \ Started : n <= m
<1>5. n \in Programs \ Started /\ \A m \in Programs \ Started : n <= m
  BY <1>3, <1>4
<1>6. n = k + 1
  <2> HIDE DEF n
  <2> QED BY <1>3, <1>4, <1>5, BoundsAssumption DEF Programs
<1> QED
  BY <1>2, <1>6

-----------------------------------------------------------------------------
(* Every step preserves the invariant.                                     *)

LEMMA InvariantStep ==
    ProcessInv /\ [Next]_vars => ProcessInv'
<1> SUFFICES ASSUME ProcessInv, [Next]_vars
             PROVE  ProcessInv'
  OBVIOUS
<1> USE BoundsAssumption DEF ProcessInv, Programs, kernel, Live
<1>1. ASSUME NEW g \in Programs, ChildRuns(g) PROVE ProcessInv'
  <2>1. TypeInv'
    BY <1>1 DEF ChildRuns, TypeInv, Steps
  <2>2. InOrder'
    BY <1>1 DEF ChildRuns, TypeInv, InOrder
  <2>3. Known'
    BY <1>1 DEF ChildRuns, TypeInv, Steps, Known
  <2>4. Accounted'
    BY <1>1 DEF ChildRuns, TypeInv, Known, Accounted, Unreaped, Newest
  <2>5. Leads'
    BY <1>1 DEF ChildRuns, TypeInv, Known, Accounted, Unreaped, Newest, Leads
  <2>6. Logged'
    BY <1>1 DEF ChildRuns, TypeInv, Known, Logged
  <2> QED
    BY <2>1, <2>2, <2>3, <2>4, <2>5, <2>6
<1>2. ASSUME NEW g \in Programs, Prints(g) PROVE ProcessInv'
  <2>1. TypeInv'
    BY <1>2 DEF Prints, TypeInv, Steps
  <2>2. InOrder'
    BY <1>2 DEF Prints, TypeInv, InOrder
  <2>3. Known'
    BY <1>2 DEF Prints, TypeInv, Steps, Known
  <2>4. Accounted'
    BY <1>2 DEF Prints, TypeInv, Known, Accounted, Unreaped, Newest
  <2>5. Leads'
    BY <1>2 DEF Prints, TypeInv, Known, Accounted, Unreaped, Newest, Leads
  <2>6. Logged'
    BY <1>2 DEF Prints, TypeInv, Known, Logged
  <2> QED
    BY <2>1, <2>2, <2>3, <2>4, <2>5, <2>6
<1>3. ASSUME NEW g \in Programs, Helps(g) PROVE ProcessInv'
  <2>1. TypeInv'
    BY <1>3 DEF Helps, TypeInv, Steps
  <2>2. InOrder'
    BY <1>3 DEF Helps, TypeInv, InOrder
  <2>3. Known'
    BY <1>3 DEF Helps, TypeInv, Steps, Known
  <2>4. Accounted'
    BY <1>3 DEF Helps, TypeInv, Known, Accounted, Unreaped, Newest
  <2>5. Leads'
    BY <1>3 DEF Helps, TypeInv, Known, Accounted, Unreaped, Newest, Leads
  <2>6. Logged'
    BY <1>3 DEF Helps, TypeInv, Known, Logged
  <2> QED
    BY <2>1, <2>2, <2>3, <2>4, <2>5, <2>6
<1>4. ASSUME NEW g \in Programs, Exits(g) PROVE ProcessInv'
  <2>1. TypeInv'
    BY <1>4 DEF Exits, TypeInv, Steps
  <2>2. InOrder'
    BY <1>4 DEF Exits, TypeInv, InOrder
  <2>3. Known'
    BY <1>4 DEF Exits, TypeInv, Steps, Known
  <2>4. Accounted'
    BY <1>4 DEF Exits, TypeInv, Known, Accounted, Unreaped, Newest
  <2>5. Leads'
    BY <1>4 DEF Exits, TypeInv, Known, Accounted, Unreaped, Newest, Leads
  <2>6. Logged'
    BY <1>4 DEF Exits, TypeInv, Known, Logged
  <2> QED
    BY <2>1, <2>2, <2>3, <2>4, <2>5, <2>6
<1>5. ASSUME Begin PROVE ProcessInv'
  BY <1>5 DEF Begin, TypeInv, Steps, InOrder, Known, Accounted, Unreaped, Newest, Leads, Logged
<1>6. ASSUME Fork PROVE ProcessInv'
  <2>1. PICK k \in Nat : \A g \in Programs : status[g] # "none" <=> g <= k
    BY DEF InOrder
  <2>2. CASE Started # Programs /\ pc' = "parent"
    <3> DEFINE n == k + 1
    <3>1. n \in Programs /\ status' = [status EXCEPT ![n] = "forked"]
      BY <2>1, <2>2, <1>6, FirstIs DEF Fork, Started
    <3>2. \A g \in Programs : status'[g] # "none" <=> g <= n
      BY <3>1, <2>1 DEF TypeInv
    <3>3. /\ pc = "fork" /\ pid = 0 /\ group = 0
          /\ log' = 0 /\ pipe' = 0 /\ printed' = 0
          /\ UNCHANGED <<pid, group, output, own, helper>>
      BY <2>2, <1>6 DEF Fork, Known
    <3> HIDE DEF n
    <3>4. Newest(n)' /\ \A g \in Programs : Newest(g)' => g = n
      BY <3>1, <3>2, <2>1 DEF Newest, TypeInv
    <3>5. \A g \in Programs : status[g] \notin Unreaped /\ ~helper[g]
      BY <3>3 DEF Accounted, TypeInv
    <3>6. TypeInv'
      BY <3>1, <3>3, <2>2 DEF TypeInv, Steps
    <3>7. InOrder'
      BY <3>2, n \in Nat, <2>1 DEF InOrder, n
    <3>8. Known'
      BY <3>3, <2>2 DEF Known, TypeInv
    <3>9. Accounted'
      BY <3>1, <3>3, <3>4, <3>5, <2>2 DEF Accounted, TypeInv, Unreaped
    <3>10. Leads'
      BY <3>1, <3>3, <3>5 DEF Leads, TypeInv, Unreaped
    <3>11. Logged'
      BY <3>3, <2>2, KeptIsEnd DEF Logged
    <3> QED
      BY <3>6, <3>7, <3>8, <3>9, <3>10, <3>11
  <2>3. CASE pc' = "stop"
    BY <2>3, <1>6 DEF Fork, TypeInv, Steps, InOrder, Known, Accounted, Unreaped, Newest, Leads, Logged
  <2> QED
    BY <2>2, <2>3, <1>6 DEF Fork
<1>7. ASSUME Parent PROVE ProcessInv'
  <2>1. PICK g \in Programs : Newest(g)
    BY <1>7 DEF Parent, Accounted
  <2>2. Last = g
    BY <2>1, LastIs
  <2>3. /\ pid' = g /\ group' = g /\ pc' = "drain_used"
        /\ own' = [own EXCEPT ![g] = @ \/ status[g] = "forked"]
        /\ output' = TRUE /\ UNCHANGED <<log, status, helper, pipe, printed>>
        /\ pc = "parent"
    BY <2>2, <1>7 DEF Parent
  <2>4. \A m \in Programs : Newest(m) => m = g
    BY <2>1 DEF Newest
  <2>5. TypeInv'
    BY <2>3 DEF TypeInv, Steps
  <2>6. InOrder'
    BY <2>3 DEF InOrder
  <2>7. Known'
    BY <2>1, <2>3 DEF Known, Accounted, TypeInv, Unreaped, Newest
  <2>8. Accounted'
    BY <2>3, <2>4 DEF Accounted, TypeInv
  <2>9. Leads'
    BY <2>3 DEF Leads, TypeInv
  <2>10. Logged'
    BY <2>3 DEF Logged
  <2> QED
    BY <2>5, <2>6, <2>7, <2>8, <2>9, <2>10
<1>8. ASSUME GiveUp PROVE ProcessInv'
  <2>1. TypeInv'
    BY <1>8 DEF GiveUp, TypeInv, Steps
  <2>2. InOrder'
    BY <1>8 DEF GiveUp, TypeInv, InOrder
  <2>3. Known'
    BY <1>8 DEF GiveUp, TypeInv, Steps, Known
  <2>4. Accounted'
    BY <1>8 DEF GiveUp, TypeInv, Known, Accounted, Unreaped, Newest
  <2>5. Leads'
    BY <1>8 DEF GiveUp, TypeInv, Known, Leads
  <2>6. Logged'
    BY <1>8 DEF GiveUp, TypeInv, Known, Logged
  <2> QED
    BY <2>1, <2>2, <2>3, <2>4, <2>5, <2>6
<1>9. ASSUME Using PROVE ProcessInv'
  <2>1. TypeInv'
    BY <1>9 DEF Using, Reaped, TypeInv, Steps, Known
  <2>2. InOrder'
    BY <1>9 DEF Using, Reaped, TypeInv, Known, InOrder
  <2>3. Known'
    BY <1>9 DEF Using, Reaped, TypeInv, Steps, Known
  <2>4. Accounted'
    BY <1>9 DEF Using, Reaped, TypeInv, Known, Accounted, Unreaped, Newest
  <2>5. Leads'
    BY <1>9 DEF Using, Reaped, TypeInv, Known, Accounted, Unreaped, Newest, Leads
  <2>6. Logged'
    BY <1>9 DEF Using, Reaped, TypeInv, Known, Logged
  <2> QED
    BY <2>1, <2>2, <2>3, <2>4, <2>5, <2>6
<1>10. ASSUME Exited PROVE ProcessInv'
  <2>1. Drained /\ UNCHANGED printed
    BY <1>10 DEF Exited
  <2>2. log' \in Nat /\ pipe' = 0 /\ pipe' <= printed' /\ log' = Kept(printed' - pipe')
    BY <2>1, DrainStep
  <2> QED
    BY <2>2, <1>10 DEF Exited, TypeInv, Steps, InOrder, Known, Accounted, Unreaped, Newest, Leads, Logged
<1>11. ASSUME Answered PROVE ProcessInv'
  BY <1>11 DEF Answered, TypeInv, Steps, InOrder, Known, Accounted, Unreaped, Newest, Leads, Logged
<1>12. ASSUME Stop PROVE ProcessInv'
  BY <1>12 DEF Stop, TypeInv, Steps, InOrder, Known, Accounted, Unreaped, Newest, Leads, Logged
<1>13. ASSUME DrainRunning PROVE ProcessInv'
  <2>0. \/ log' \in Nat /\ pipe' = 0 /\ pipe' <= printed' /\ log' = Kept(printed' - pipe')
        \/ UNCHANGED <<log, pipe>>
    BY <1>13, DrainStep DEF DrainRunning
  <2>1. TypeInv'
    BY <2>0, <1>13 DEF DrainRunning, TypeInv, Steps
  <2>2. InOrder'
    BY <1>13 DEF DrainRunning, Drained, TypeInv, InOrder
  <2>3. Known'
    BY <1>13 DEF DrainRunning, Drained, TypeInv, Steps, Known
  <2>4. Accounted'
    BY <1>13 DEF DrainRunning, Drained, TypeInv, Known, Accounted, Unreaped, Newest
  <2>5. Leads'
    BY <1>13 DEF DrainRunning, Drained, TypeInv, Known, Accounted, Unreaped, Newest, Leads
  <2>6. Logged'
    BY <2>0, <1>13 DEF DrainRunning, TypeInv, Known, Logged
  <2> QED
    BY <2>1, <2>2, <2>3, <2>4, <2>5, <2>6
<1>14. ASSUME Wait PROVE ProcessInv'
  <2>1. TypeInv'
    BY <1>14 DEF Wait, Reaped, TypeInv, Steps, Known
  <2>2. InOrder'
    BY <1>14 DEF Wait, Reaped, TypeInv, Known, InOrder
  <2>3. Known'
    BY <1>14 DEF Wait, Reaped, TypeInv, Steps, Known
  <2>4. Accounted'
    BY <1>14 DEF Wait, Reaped, TypeInv, Known, Accounted, Unreaped, Newest
  <2>5. Leads'
    BY <1>14 DEF Wait, Reaped, TypeInv, Known, Accounted, Unreaped, Newest, Leads
  <2>6. Logged'
    BY <1>14 DEF Wait, Reaped, TypeInv, Known, Logged
  <2> QED
    BY <2>1, <2>2, <2>3, <2>4, <2>5, <2>6
<1>15. ASSUME Kill PROVE ProcessInv'
  <2>1. TypeInv'
    BY <1>15 DEF Kill, Killed, TypeInv, Steps
  <2>2. InOrder'
    BY <1>15 DEF Kill, Killed, TypeInv, InOrder
  <2>3. Known'
    <3>1. /\ pc = "kill" /\ pc' = "reap" /\ UNCHANGED <<pid, group>>
          /\ pid \in Programs /\ group = pid
      BY <1>15 DEF Kill, Killed, TypeInv, Known
    <3>2. status'[pid] \in {"zombie", status[pid]} /\ status[pid] \in {"forked", "running", "zombie"}
      BY <1>15, <3>1 DEF Kill, Killed, TypeInv, Known
    <3>3. status'[pid] = "zombie"
      BY <1>15, <3>1, <3>2 DEF Kill, Killed, TypeInv, Known, Leads, Live
    <3> QED
      BY <3>1, <3>2, <3>3 DEF Known, TypeInv
  <2>4. Accounted'
    <3>1. pid \in Programs /\ pc' # "parent" /\ pc # "parent" /\ UNCHANGED <<pid, group, own>>
      BY <1>15 DEF Kill, Killed, TypeInv, Known
    <3>2. \A g \in Programs : /\ status'[g] \in Unreaped => status[g] \in Unreaped
                              /\ status[g] # "none" => status'[g] # "none"
                              /\ helper'[g] => helper[g]
      <4>1. /\ status' = [status EXCEPT ![pid] = IF own[pid] /\ @ \in Live THEN "zombie" ELSE @]
            /\ helper' = [helper EXCEPT ![pid] = FALSE]
            /\ DOMAIN status = Programs /\ DOMAIN helper = Programs
        BY <1>15 DEF Kill, Killed, TypeInv
      <4>2. ASSUME NEW g \in Programs, g # pid PROVE status'[g] = status[g] /\ helper'[g] = helper[g]
        BY <4>1, <4>2
      <4>3. helper'[pid] = FALSE
        BY <3>1, <4>1
      <4>4. status'[pid] = IF own[pid] /\ status[pid] \in Live THEN "zombie" ELSE status[pid]
        BY <3>1, <4>1
      <4>5. status[pid] \in Live \/ status'[pid] = status[pid]
        BY <4>4
      <4>6. status'[pid] \in {"zombie", status[pid]}
        BY <4>4
      <4>7. ASSUME NEW g \in Programs, g = pid
            PROVE /\ status'[g] \in Unreaped => status[g] \in Unreaped
                  /\ status[g] # "none" => status'[g] # "none"
                  /\ helper'[g] => helper[g]
        BY <4>3, <4>5, <4>6, <4>7 DEF Live, Unreaped
      <4> QED
        BY <4>2, <4>7
    <3>3. \A g \in Programs : /\ status[g] \in Unreaped => g = pid
                              /\ helper[g] => g = group
                              /\ helper[g] => status[g] # "none"
      BY <3>1 DEF Accounted
    <3>4. \A g \in Programs : /\ status'[g] \in Unreaped => g = pid'
                              /\ helper'[g] => g = group'
                              /\ helper'[g] => status'[g] # "none"
      <4>1. pid' = pid /\ group' = group
        BY <3>1
      <4> SUFFICES ASSUME NEW g \in Programs
                   PROVE /\ status'[g] \in Unreaped => g = pid'
                         /\ helper'[g] => g = group'
                         /\ helper'[g] => status'[g] # "none"
        OBVIOUS
      <4> QED
        BY <4>1, <3>2, <3>3
    <3>5. pc' # "parent"
      BY <3>1
    <3> QED
      BY <3>5, <3>4 DEF Accounted
  <2>5. Leads'
    BY <1>15 DEF Kill, Killed, TypeInv, Known, Leads
  <2>6. Logged'
    BY <1>15 DEF Kill, Killed, TypeInv, Known, Logged
  <2> QED
    BY <2>1, <2>2, <2>3, <2>4, <2>5, <2>6
<1>16. ASSUME Reap PROVE ProcessInv'
  BY <1>16 DEF Reap, Reaped, TypeInv, Steps, InOrder, Known, Accounted, Unreaped, Newest, Leads, Logged
<1>17. ASSUME Sweep PROVE ProcessInv'
  BY <1>17 DEF Sweep, Killed, TypeInv, Steps, InOrder, Known, Accounted, Unreaped, Newest, Leads, Logged
<1>18. ASSUME Close PROVE ProcessInv'
  <2>1. CASE output
    <3>1. Drained /\ UNCHANGED printed
      BY <2>1, <1>18 DEF Close
    <3>2. log' \in Nat /\ pipe' = 0 /\ pipe' <= printed' /\ log' = Kept(printed' - pipe')
      BY <3>1, DrainStep
    <3> QED
      BY <2>1, <3>2, <1>18 DEF Close, TypeInv, Steps, InOrder, Known, Accounted, Unreaped, Newest, Leads, Logged
  <2>2. CASE ~output
    BY <2>2, <1>18 DEF Close, TypeInv, Steps, InOrder, Known, Accounted, Unreaped, Newest, Leads, Logged
  <2> QED
    BY <2>1, <2>2
<1>19. CASE UNCHANGED vars
  BY <1>19 DEF vars, TypeInv, Steps, InOrder, Known, Accounted, Unreaped, Newest, Leads, Logged
<1> QED
  BY <1>1, <1>2, <1>3, <1>4, <1>5, <1>6, <1>7, <1>8, <1>9, <1>10, <1>11, <1>12, <1>13,
     <1>14, <1>15, <1>16, <1>17, <1>18, <1>19
     DEF Next

(* The invariant holds throughout every behaviour.                         *)
THEOREM ProcessInductive == Spec => []ProcessInv
<1>1. Init => ProcessInv
  BY BoundsAssumption
     DEF Init, ProcessInv, TypeInv, InOrder, Known, Accounted, Unreaped, Newest, Leads, Logged, Kept,
         Steps, Programs
<1> QED
  BY <1>1, InvariantStep, PTL DEF Spec

(* However the engine and its probes fork, print, leave helpers behind and *)
(* end: stop leaves none of them, waits for none it has not killed, and a  *)
(* probe is judged by the end of what it printed, as much as the log holds *)
(* (engine_transport.cpp: append_log, drain, running and stop).            *)
THEOREM UnderControl == Spec => []EngineUnderControl
<1>1. ProcessInv => EngineUnderControl
  <2> SUFFICES ASSUME ProcessInv
               PROVE  NothingLeft /\ StopReturns /\ ProbeComplete
    BY DEF EngineUnderControl
  <2>1. NothingLeft /\ StopReturns
    BY DEF ProcessInv, TypeInv, Known, Accounted, Unreaped, Started, Programs, NothingLeft, StopReturns
  <2>2. ProbeComplete
    <3> SUFFICES ASSUME pc = "probed"
                 PROVE  log = Kept(printed)
      BY DEF ProbeComplete
    <3>1. printed \in Nat /\ log = Kept(printed - 0)
      BY DEF ProcessInv, TypeInv, Logged
    <3>2. printed - 0 = printed
      BY <3>1
    <3> QED
      BY <3>1, <3>2
  <2> QED
    BY <2>1, <2>2
<1> QED
  BY <1>1, ProcessInductive, PTL

-----------------------------------------------------------------------------
(***************************************************************************)
(* The invariant of the connection.                                        *)
(***************************************************************************)

TypeOK ==
    /\ dialog \in Dialogs
    /\ transit \in Seq(Connection!Units) /\ incoming \in Seq(Connection!Units)
    /\ buffer \in Seq(Connection!Units)
    /\ messages \in Seq(Seq(Connection!Units))
    /\ at \in {"idle", "receive", "refused", "send", "closed"}
    /\ packet \in 0..Len(Packets) /\ offset \in Nat /\ taken \in Seq(Seq(Connection!Units))

(* A packet is in hand while it is sent, and all of it was taken before    *)
(* anything else is done.                                                  *)
Sending ==
    /\ at = "send" => packet > 0
    /\ packet > 0 => offset <= Len(Packets[packet])
    /\ at \in {"idle", "receive"} /\ packet > 0 => offset = Len(Packets[packet])

ConnectionInv ==
    /\ TypeOK /\ Sending
    /\ Connection!MessagesWhole /\ Connection!RefusedForCause /\ Connection!PacketsWhole

(***************************************************************************)
(* What lies ahead in the stream.                                          *)
(***************************************************************************)

(* What is to be read is cut anywhere and put together again.              *)
LEMMA Cut ==
  ASSUME NEW S, NEW s \in Seq(S), NEW n \in 1..Len(s)
  PROVE  /\ SubSeq(s, 1, n) \in Seq(S) /\ SubSeq(s, n + 1, Len(s)) \in Seq(S)
         /\ SubSeq(s, 1, n) \o SubSeq(s, n + 1, Len(s)) = s
<1>1. SubSeq(s, 1, n) \in Seq(S) /\ SubSeq(s, n + 1, Len(s)) \in Seq(S)
  BY ElementOfSeq, SubSeqProperties, LenProperties
<1>2. SubSeq(s, 1, n) \o SubSeq(s, n + 1, Len(s)) = SubSeq(s, 1, Len(s))
  BY ConcatAdjacentSubSeq, LenProperties
<1> QED
  BY <1>1, <1>2, SubSeqFull

(* A part of a sequence, and two sequences joined, place by place.         *)
LEMMA Slice ==
  ASSUME NEW s \in Seq(Connection!Units), NEW from \in 0..Len(s), NEW to \in from..Len(s)
  PROVE  /\ Len(SubSeq(s, from + 1, to)) = to - from
         /\ \A k \in 1..to - from : SubSeq(s, from + 1, to)[k] = s[from + k]
<1> DEFINE part == SubSeq(s, from + 1, to)
<1>1. Len(s) \in Nat /\ from \in Nat /\ to \in Nat /\ from <= to /\ to <= Len(s)
  BY LenProperties
<1>2. from + 1 \in Int /\ to \in Int
  BY <1>1
<1>3. \A k \in from + 1..to : s[k] \in Connection!Units
  BY <1>1, ElementOfSeq
<1>4. /\ Len(part) = IF from + 1 <= to THEN to - (from + 1) + 1 ELSE 0
      /\ \A k \in 1..to - (from + 1) + 1 : part[k] = s[(from + 1) + k - 1]
  BY <1>2, <1>3, SubSeqProperties
<1> HIDE DEF part
<1>5. Len(part) = to - from
  BY <1>1, <1>4
<1>6. ASSUME NEW k \in 1..to - from PROVE part[k] = s[from + k]
  <2>1. k \in 1..to - (from + 1) + 1 /\ (from + 1) + k - 1 = from + k
    BY <1>1
  <2> QED
    BY <1>4, <2>1
<1> QED
  BY <1>5, <1>6 DEF part

LEMMA Joined ==
  ASSUME NEW a \in Seq(Connection!Units), NEW b \in Seq(Connection!Units)
  PROVE  /\ a \o b \in Seq(Connection!Units) /\ Len(a \o b) = Len(a) + Len(b)
         /\ \A k \in 1..Len(a) : (a \o b)[k] = a[k]
         /\ \A k \in 1..Len(b) : (a \o b)[Len(a) + k] = b[k]
<1>1. Len(a) \in Nat /\ Len(b) \in Nat
  BY LenProperties
<1>2. /\ a \o b \in Seq(Connection!Units) /\ Len(a \o b) = Len(a) + Len(b)
      /\ \A k \in 1..Len(a) + Len(b) : (a \o b)[k] = IF k <= Len(a) THEN a[k] ELSE b[k - Len(a)]
  BY ConcatProperties
<1>3. ASSUME NEW k \in 1..Len(b) PROVE (a \o b)[Len(a) + k] = b[k]
  <2>1. Len(a) + k \in 1..Len(a) + Len(b) /\ ~(Len(a) + k <= Len(a)) /\ (Len(a) + k) - Len(a) = k
    BY <1>1
  <2> QED
    BY <1>2, <2>1
<1>4. ASSUME NEW k \in 1..Len(a) PROVE (a \o b)[k] = a[k]
  <2>1. k \in 1..Len(a) + Len(b) /\ k <= Len(a)
    BY <1>1
  <2> QED
    BY <1>2, <2>1
<1> QED
  BY <1>2, <1>3, <1>4

LEMMA Regroup ==
  ASSUME NEW a \in Seq(Connection!Units), NEW b \in Seq(Connection!Units),
         NEW c \in Seq(Connection!Units)
  PROVE  (a \o b) \o c = a \o (b \o c)
  BY ConcatAssociative

(* Places within a message, counted from its start and from that of its    *)
(* dialog.                                                                 *)
LEMMA Places ==
  ASSUME NEW f \in Nat, NEW h \in Nat, NEW e \in Nat, NEW k \in Nat \ {0}
  PROVE  /\ h + k \in Nat \ {0} /\ f + (h + k) = f + h + k
         /\ h + e + k \in Nat \ {0} /\ (h + e) + k = h + e + k
         /\ f + (h + e + k) = f + h + e + k
  OBVIOUS

(* The units of each message of a dialog.                                  *)
SizeOf(m) == m.header + EndSize + Len(m.body)

LEMMA Layout ==
  ASSUME Connection!Setting, NEW d, Connection!LaidOut(d), NEW i \in 1..Len(d.messages)
  PROVE  LET m == d.messages[i]
             from == d.starts[i]
         IN
         /\ m.header \in Nat /\ m.body \in Seq(Connection!Units) /\ Len(m.body) \in Nat
         /\ from \in Nat /\ d.starts[i + 1] = from + SizeOf(m)
         /\ d.starts[i + 1] <= Len(d.units)
         /\ \A k \in 1..m.header : d.units[from + k] = "h"
         /\ \A k \in 1..EndSize : d.units[from + m.header + k] = "e"
         /\ \A k \in 1..Len(m.body) : d.units[from + m.header + EndSize + k] = m.body[k]
<1> DEFINE m == d.messages[i]
           from == d.starts[i]
           hs == [k \in 1..m.header |-> "h"]
           es == [k \in 1..EndSize |-> "e"]
           to == d.starts[i + 1]
           part == SubSeq(d.units, from + 1, to)
<1>1. m \in [header : Nat, body : Seq(Connection!Units)]
  BY ElementOfSeq DEF Connection!LaidOut
<1>2. /\ d.units \in Seq(Connection!Units) /\ Len(d.units) \in Nat
      /\ from \in 0..Len(d.units) /\ to \in from..Len(d.units)
      /\ part = Connection!Header(m) \o m.body
  <2>1. Len(d.messages) \in Nat /\ Len(d.units) \in Nat
    BY LenProperties DEF Connection!LaidOut
  <2>2. i \in 1..(Len(d.messages) + 1) /\ i + 1 \in 1..(Len(d.messages) + 1)
    BY <2>1
  <2>3. /\ d.units \in Seq(Connection!Units)
        /\ d.starts \in [1..(Len(d.messages) + 1) -> 0..Len(d.units)]
        /\ d.starts[i] <= d.starts[i + 1]
        /\ SubSeq(d.units, d.starts[i] + 1, d.starts[i + 1])
               = Connection!Header(d.messages[i]) \o d.messages[i].body
    BY DEF Connection!LaidOut
  <2>4. d.starts[i] \in 0..Len(d.units) /\ to \in 0..Len(d.units)
    BY <2>2, <2>3
  <2>5. from \in 0..Len(d.units) /\ from <= to
    BY <2>3, <2>4
  <2>6. to \in from..Len(d.units)
    BY <2>1, <2>4, <2>5
  <2> QED
    BY <2>1, <2>3, <2>5, <2>6
<1>3. /\ m.header \in Nat /\ m.body \in Seq(Connection!Units)
      /\ Len(m.body) \in Nat /\ EndSize \in Nat \ {0}
  BY <1>1, LenProperties DEF Connection!Setting
<1>4. /\ hs \in Seq(Connection!Units) /\ Len(hs) = m.header
      /\ es \in Seq(Connection!Units) /\ Len(es) = EndSize
      /\ \A k \in 1..m.header : hs[k] = "h"
      /\ \A k \in 1..EndSize : es[k] = "e"
  BY <1>3, IsASeq DEF Connection!Units
<1>5. Connection!Header(m) = hs \o es
  BY DEF Connection!Header, Connection!Blank
<1> HIDE DEF hs, es
<1>6. /\ hs \o es \in Seq(Connection!Units) /\ Len(hs \o es) = m.header + EndSize
      /\ \A k \in 1..m.header : (hs \o es)[k] = "h"
      /\ \A k \in 1..EndSize : (hs \o es)[m.header + k] = "e"
  <2>1. /\ hs \o es \in Seq(Connection!Units) /\ Len(hs \o es) = Len(hs) + Len(es)
        /\ \A k \in 1..Len(hs) : (hs \o es)[k] = hs[k]
        /\ \A k \in 1..Len(es) : (hs \o es)[Len(hs) + k] = es[k]
    BY <1>4, Joined
  <2> QED
    BY <1>4, <2>1
<1>7. /\ Len(part) = (m.header + EndSize) + Len(m.body)
      /\ \A k \in 1..m.header + EndSize : part[k] = (hs \o es)[k]
      /\ \A k \in 1..Len(m.body) : part[(m.header + EndSize) + k] = m.body[k]
  <2> DEFINE header == hs \o es
  <2>1. /\ part = header \o m.body /\ header \in Seq(Connection!Units)
        /\ Len(header) = m.header + EndSize
    BY <1>2, <1>5, <1>6
  <2> HIDE DEF header
  <2>2. /\ Len(header \o m.body) = Len(header) + Len(m.body)
        /\ \A k \in 1..Len(header) : (header \o m.body)[k] = header[k]
        /\ \A k \in 1..Len(m.body) : (header \o m.body)[Len(header) + k] = m.body[k]
    BY <1>3, <2>1, Joined
  <2>3. /\ Len(part) = (m.header + EndSize) + Len(m.body)
        /\ \A k \in 1..m.header + EndSize : part[k] = header[k]
        /\ \A k \in 1..Len(m.body) : part[(m.header + EndSize) + k] = m.body[k]
    BY <2>1, <2>2
  <2> QED
    BY <2>3 DEF header
<1>8. Len(part) = to - from /\ \A k \in 1..to - from : part[k] = d.units[from + k]
  BY <1>2, Slice
<1> HIDE DEF part
<1>9. to = from + SizeOf(m) /\ to - from = m.header + EndSize + Len(m.body)
  <2>1. to - from = (m.header + EndSize) + Len(m.body)
    BY <1>7, <1>8
  <2>2. to \in Nat /\ from \in Nat
    BY <1>2
  <2> HIDE DEF to
  <2> QED
    BY <1>3, <2>1, <2>2 DEF SizeOf
<1> HIDE DEF to
<1>10. ASSUME NEW k \in 1..m.header PROVE d.units[from + k] = "h"
  <2>1. k \in 1..to - from /\ k \in 1..m.header + EndSize
    BY <1>3, <1>9
  <2>2. part[k] = (hs \o es)[k] /\ part[k] = d.units[from + k]
    BY <1>7, <1>8, <2>1
  <2> QED
    BY <1>6, <2>2
<1>11. ASSUME NEW k \in 1..EndSize PROVE d.units[from + m.header + k] = "e"
  <2> HIDE DEF m, from
  <2>0. k \in Nat \ {0} /\ k <= EndSize /\ from \in Nat
    BY <1>2, <1>3
  <2>1. m.header + k \in 1..to - from /\ m.header + k \in 1..m.header + EndSize
    BY <1>3, <1>9, <2>0
  <2>2. from + (m.header + k) = from + m.header + k
    BY <1>3, <2>0, Places
  <2>3. part[m.header + k] = (hs \o es)[m.header + k]
    BY <1>7, <2>1
  <2>4. part[m.header + k] = d.units[from + (m.header + k)]
    BY <1>8, <2>1
  <2>5. (hs \o es)[m.header + k] = "e"
    BY <1>6
  <2> QED
    BY <2>2, <2>3, <2>4, <2>5
<1>12. ASSUME NEW k \in 1..Len(m.body)
       PROVE  d.units[from + m.header + EndSize + k] = m.body[k]
  <2>1. (m.header + EndSize) + k \in 1..(m.header + EndSize) + Len(m.body)
    BY <1>3
  <2>3. (m.header + EndSize) + k \in 1..to - from
    BY <1>9, <2>1
  <2>2. from + ((m.header + EndSize) + k) = from + m.header + EndSize + k
    BY <1>2, <1>3
  <2> QED
    BY <1>7, <1>8, <2>2, <2>3
<1> QED
  BY <1>2, <1>3, <1>9, <1>10, <1>11, <1>12 DEF to

(* What the connection has read so far of the message that comes next.     *)
LEMMA Ahead ==
  ASSUME Connection!Setting, TypeOK, Connection!MessagesWhole, buffer # <<>>,
         NEW m, m = Connection!Announced
  PROVE  /\ Len(messages) < Len(dialog.messages)
         /\ m.header \in Nat /\ m.body \in Seq(Connection!Units) /\ Len(m.body) \in Nat
         /\ \A k \in 1..Len(buffer) : k <= m.header => buffer[k] = "h"
         /\ \A k \in 1..EndSize : m.header + k <= Len(buffer) => buffer[m.header + k] = "e"
         /\ \A k \in 1..Len(m.body) :
               m.header + EndSize + k <= Len(buffer)
                  => buffer[m.header + EndSize + k] = m.body[k]
<1> DEFINE n == Len(messages) + 1
           from == dialog.starts[n]
           rest == SubSeq(dialog.units, from + 1, Len(dialog.units))
           behind == incoming \o transit
<1>1. Connection!LaidOut(dialog)
  BY DEF Connection!Setting, TypeOK
<1>2. /\ Len(dialog.messages) \in Nat /\ Len(dialog.units) \in Nat
      /\ Len(messages) \in Nat /\ Len(buffer) \in Nat \ {0}
      /\ n \in 1..(Len(dialog.messages) + 1)
  <2>1. /\ Len(dialog.messages) \in Nat /\ Len(dialog.units) \in Nat
        /\ Len(messages) \in Nat /\ Len(buffer) \in Nat \ {0}
    BY <1>1, LenProperties, EmptySeq DEF Connection!LaidOut, TypeOK
  <2> QED
    BY <2>1 DEF Connection!MessagesWhole
<1>3. from \in 0..Len(dialog.units) /\ dialog.units \in Seq(Connection!Units)
  BY <1>1, <1>2 DEF Connection!LaidOut
<1>4. /\ Len(rest) = Len(dialog.units) - from
      /\ \A k \in 1..Len(dialog.units) - from : rest[k] = dialog.units[from + k]
  <2>1. from \in 0..Len(dialog.units) /\ Len(dialog.units) \in from..Len(dialog.units)
    BY <1>2, <1>3
  <2> HIDE DEF from
  <2> QED
    BY <1>3, <2>1, Slice
<1>5. behind \in Seq(Connection!Units) /\ Len(behind) \in Nat
  BY Joined, LenProperties DEF TypeOK
<1>6. rest = buffer \o behind
  <2>1. (buffer \o incoming) \o transit = buffer \o (incoming \o transit)
    BY Regroup DEF TypeOK
  <2> QED
    BY <2>1 DEF Connection!MessagesWhole
<1> HIDE DEF behind, rest
<1>7. Len(rest) = Len(buffer) + Len(behind) /\ \A k \in 1..Len(buffer) : rest[k] = buffer[k]
  BY <1>5, <1>6, Joined DEF TypeOK
<1>8. \A k \in 1..Len(buffer) : buffer[k] = dialog.units[from + k]
  BY <1>2, <1>3, <1>4, <1>5, <1>7
<1>9. n \in 1..Len(dialog.messages)
  <2>1. from < Len(dialog.units)
    BY <1>2, <1>3, <1>4, <1>5, <1>7
  <2> QED
    BY <1>1, <1>2, <2>1 DEF Connection!LaidOut
<1> HIDE DEF n, from
<1>10. m = dialog.messages[n] /\ from = dialog.starts[n]
  BY DEF Connection!Announced, n, from
<1>11. /\ m.header \in Nat /\ m.body \in Seq(Connection!Units) /\ Len(m.body) \in Nat
       /\ \A k \in 1..m.header : dialog.units[from + k] = "h"
       /\ \A k \in 1..EndSize : dialog.units[from + m.header + k] = "e"
       /\ \A k \in 1..Len(m.body) :
             dialog.units[from + m.header + EndSize + k] = m.body[k]
  <2> DEFINE l == dialog.messages[n]
             f == dialog.starts[n]
  <2>1. /\ l.header \in Nat /\ l.body \in Seq(Connection!Units) /\ Len(l.body) \in Nat
        /\ \A k \in 1..l.header : dialog.units[f + k] = "h"
        /\ \A k \in 1..EndSize : dialog.units[f + l.header + k] = "e"
        /\ \A k \in 1..Len(l.body) : dialog.units[f + l.header + EndSize + k] = l.body[k]
    BY <1>1, <1>9, Layout
  <2> QED
    BY <1>10, <2>1
<1>12. ASSUME NEW k \in 1..EndSize, m.header + k <= Len(buffer)
       PROVE  buffer[m.header + k] = "e"
  <2>1. m.header + k \in 1..Len(buffer) /\ from + (m.header + k) = from + m.header + k
    <3>1. k \in Nat \ {0} /\ from \in Nat /\ EndSize \in Nat
      BY <1>2, <1>3 DEF Connection!Setting
    <3>2. m.header + k \in Nat \ {0} /\ from + (m.header + k) = from + m.header + k
      BY <1>11, <3>1, Places
    <3> QED
      BY <1>2, <1>12, <3>2
  <2> QED
    BY <1>8, <1>11, <2>1
<1>13. ASSUME NEW k \in 1..Len(m.body), m.header + EndSize + k <= Len(buffer)
       PROVE  buffer[m.header + EndSize + k] = m.body[k]
  <2>1. /\ m.header + EndSize + k \in 1..Len(buffer)
        /\ from + (m.header + EndSize + k) = from + m.header + EndSize + k
    <3>1. k \in Nat \ {0} /\ from \in Nat /\ EndSize \in Nat
      BY <1>2, <1>3, <1>11 DEF Connection!Setting
    <3>2. /\ m.header + EndSize + k \in Nat \ {0}
          /\ from + (m.header + EndSize + k) = from + m.header + EndSize + k
      BY <1>11, <3>1, Places
    <3> QED
      BY <1>2, <1>13, <3>2
  <2> QED
    BY <1>8, <1>11, <2>1
<1>14. ASSUME NEW k \in 1..Len(buffer), k <= m.header PROVE buffer[k] = "h"
  <2>1. k \in 1..m.header
    BY <1>2, <1>11, <1>14
  <2> QED
    BY <1>8, <1>11, <2>1
<1>15. Len(messages) < Len(dialog.messages)
  BY <1>2, <1>9 DEF n
<1> QED
  BY <1>11, <1>12, <1>13, <1>14, <1>15

(* The blank line that is found first ends the header of that message, and *)
(* none is found only while it has not arrived.                            *)
LEMMA FirstBlank ==
  ASSUME Connection!Setting, TypeOK, Connection!MessagesWhole, NEW m, m = Connection!Announced
  PROVE  /\ Connection!Found(buffer) =>
               /\ buffer # <<>>
               /\ Connection!HeaderLength(buffer) = m.header
               /\ m.header + EndSize <= Len(buffer)
         /\ ~Connection!Found(buffer) /\ buffer # <<>> => Len(buffer) < m.header + EndSize
<1>1. Len(buffer) \in Nat /\ buffer \in Seq(Connection!Units) /\ EndSize \in Nat \ {0}
  BY LenProperties DEF TypeOK, Connection!Setting
<1>2. /\ Connection!Blank \in Seq(Connection!Units) /\ Len(Connection!Blank) = EndSize
      /\ \A k \in 1..EndSize : Connection!Blank[k] = "e"
  BY <1>1, IsASeq DEF Connection!Blank, Connection!Units
<1>3. ASSUME NEW i \in 0..Len(buffer) - EndSize
      PROVE  /\ SubSeq(buffer, i + 1, i + EndSize) \in Seq(Connection!Units)
             /\ Len(SubSeq(buffer, i + 1, i + EndSize)) = EndSize
             /\ \A k \in 1..EndSize : SubSeq(buffer, i + 1, i + EndSize)[k] = buffer[i + k]
  <2>1. i \in 0..Len(buffer) /\ i + EndSize \in i..Len(buffer) /\ (i + EndSize) - i = EndSize
    BY <1>1
  <2>2. SubSeq(buffer, i + 1, i + EndSize) \in Seq(Connection!Units)
    <3>1. \A k \in i + 1..i + EndSize : buffer[k] \in Connection!Units
      BY <1>1, <2>1, ElementOfSeq
    <3> QED
      BY <1>1, <3>1, SubSeqProperties
  <2> QED
    BY <1>1, <2>1, <2>2, Slice
<1>4. \A i \in Connection!Ends(buffer) : i \in 0..Len(buffer) - EndSize /\ buffer[i + 1] = "e"
  <2> SUFFICES ASSUME NEW i \in Connection!Ends(buffer)
               PROVE  i \in 0..Len(buffer) - EndSize /\ buffer[i + 1] = "e"
    OBVIOUS
  <2>1. i \in 0..Len(buffer) - EndSize /\ SubSeq(buffer, i + 1, i + EndSize) = Connection!Blank
    BY DEF Connection!Ends
  <2>2. 1 \in 1..EndSize
    BY <1>1
  <2> QED
    BY <1>2, <1>3, <2>1, <2>2
<1>5. ASSUME buffer # <<>>, m.header + EndSize <= Len(buffer)
      PROVE  m.header \in Connection!Ends(buffer)
  <2>1. m.header \in Nat /\ \A k \in 1..EndSize :
           m.header + k <= Len(buffer) => buffer[m.header + k] = "e"
    BY <1>5, Ahead
  <2>2. m.header \in 0..Len(buffer) - EndSize
    BY <1>1, <1>5, <2>1
  <2>3. \A k \in 1..EndSize : buffer[m.header + k] = "e"
    BY <1>1, <1>5, <2>1
  <2>4. SubSeq(buffer, m.header + 1, m.header + EndSize) = Connection!Blank
    <3> DEFINE part == SubSeq(buffer, m.header + 1, m.header + EndSize)
    <3>1. part \in Seq(Connection!Units) /\ Len(part) = EndSize /\ \A k \in 1..EndSize : part[k] = "e"
      BY <1>3, <2>2, <2>3
    <3> HIDE DEF part
    <3>2. /\ part \in Seq(Connection!Units) /\ Connection!Blank \in Seq(Connection!Units)
          /\ Len(part) = Len(Connection!Blank)
          /\ \A k \in 1..Len(part) : part[k] = Connection!Blank[k]
      BY <1>2, <3>1
    <3>3. part = Connection!Blank
      BY <3>2, SeqEqual
    <3> QED
      BY <3>3 DEF part
  <2> QED
    BY <2>2, <2>4 DEF Connection!Ends
<1>6. ASSUME Connection!Found(buffer)
      PROVE  /\ buffer # <<>> /\ m.header \in Nat /\ m.header + EndSize <= Len(buffer)
             /\ \A i \in Connection!Ends(buffer) : m.header <= i
  <2>1. PICK j \in Connection!Ends(buffer) : TRUE
    BY <1>6 DEF Connection!Found
  <2>2. j \in 0..Len(buffer) - EndSize /\ buffer # <<>>
    BY <1>1, <1>4, <2>1, EmptySeq
  <2>3. m.header \in Nat /\ \A k \in 1..Len(buffer) : k <= m.header => buffer[k] = "h"
    BY <2>2, Ahead
  <2>4. ASSUME NEW i \in Connection!Ends(buffer) PROVE m.header <= i
    <3>1. i \in 0..Len(buffer) - EndSize /\ buffer[i + 1] # "h"
      BY <1>4
    <3>2. i + 1 \in 1..Len(buffer)
      BY <1>1, <3>1
    <3>3. ~(i + 1 <= m.header)
      BY <2>3, <3>1, <3>2
    <3> QED
      BY <1>1, <2>3, <3>1, <3>3
  <2>5. m.header <= j
    BY <2>1, <2>4
  <2> QED
    BY <1>1, <2>2, <2>3, <2>4, <2>5
<1>7. ASSUME Connection!Found(buffer) PROVE Connection!HeaderLength(buffer) = m.header
  <2>1. m.header \in Connection!Ends(buffer) /\ \A i \in Connection!Ends(buffer) : m.header <= i
    BY <1>5, <1>6, <1>7
  <2>2. \A i \in Connection!Ends(buffer) : i \in Nat
    BY <1>4
  <2>3. /\ Connection!HeaderLength(buffer) \in Connection!Ends(buffer)
        /\ \A i \in Connection!Ends(buffer) : Connection!HeaderLength(buffer) <= i
    BY <2>1 DEF Connection!HeaderLength
  <2>4. Connection!HeaderLength(buffer) <= m.header /\ m.header <= Connection!HeaderLength(buffer)
    BY <2>1, <2>3
  <2> QED
    BY <2>1, <2>2, <2>3, <2>4
<1>8. ASSUME ~Connection!Found(buffer), buffer # <<>> PROVE Len(buffer) < m.header + EndSize
  <2>1. m.header \in Nat
    BY <1>8, Ahead
  <2>2. ~(m.header + EndSize <= Len(buffer))
    BY <1>5, <1>8 DEF Connection!Found
  <2> QED
    BY <1>1, <2>1, <2>2
<1> QED
  BY <1>6, <1>7, <1>8
(***************************************************************************)
(* The steps.                                                              *)
(***************************************************************************)

LEMMA ConnectionStarts == ASSUME Connection!Setting, Connection!Init PROVE ConnectionInv
<1>1. Connection!LaidOut(dialog) /\ dialog.units \in Seq(Connection!Units)
  BY DEF Connection!Setting, Connection!Init, Connection!LaidOut
<1>2. <<>> \in Seq(Connection!Units) /\ <<>> \in Seq(Seq(Connection!Units))
  BY EmptySeq
<1>3. Len(Packets) \in Nat
  BY LenProperties DEF Connection!Setting
<1>4. TypeOK
  BY <1>1, <1>2, <1>3 DEF Connection!Init, TypeOK
<1>5. Connection!MessagesWhole
  <2>1. Len(messages) = 0 /\ Len(dialog.messages) \in Nat
    BY <1>1, LenProperties DEF Connection!Init, Connection!LaidOut
  <2>2. dialog.starts[1] = 0
    BY <1>1 DEF Connection!LaidOut
  <2>3. buffer \o incoming \o transit = dialog.units
    BY <1>1, <1>2, ConcatEmptySeq DEF Connection!Init
  <2>4. SubSeq(dialog.units, 0 + 1, Len(dialog.units)) = dialog.units
    BY <1>1, SubSeqFull
  <2>5. Len(messages) + 1 = 1
    BY <2>1
  <2>6. SubSeq(dialog.units, dialog.starts[Len(messages) + 1] + 1, Len(dialog.units)) = dialog.units
    BY <2>2, <2>4, <2>5
  <2> QED
    BY <2>1, <2>3, <2>6 DEF Connection!MessagesWhole
<1>6. Connection!RefusedForCause /\ Sending
  BY <1>4 DEF Connection!Init, Connection!RefusedForCause, Sending
<1>7. Connection!PacketsWhole
  <2>1. Len(taken) = 0 /\ packet = 0
    BY DEF Connection!Init
  <2> QED
    BY <2>1 DEF Connection!PacketsWhole
<1> QED
  BY <1>4, <1>5, <1>6, <1>7 DEF ConnectionInv

(* What arrives, and what is read, stays in the stream at its place.       *)
LEMMA StreamKept ==
  ASSUME TypeOK, NEW n,
         \/ Connection!Arrive(n)
         \/ Connection!Read(n)
  PROVE  /\ transit' \in Seq(Connection!Units) /\ incoming' \in Seq(Connection!Units)
         /\ buffer' \in Seq(Connection!Units)
         /\ buffer' \o incoming' \o transit' = buffer \o incoming \o transit
<1> USE DEF TypeOK
<1>1. CASE Connection!Arrive(n)
  <2> DEFINE now == SubSeq(transit, 1, n)
             later == SubSeq(transit, n + 1, Len(transit))
  <2>1. /\ n \in 1..Len(transit) /\ buffer' = buffer
        /\ incoming' = incoming \o now /\ transit' = later
    BY <1>1 DEF Connection!Arrive
  <2>2. now \in Seq(Connection!Units) /\ later \in Seq(Connection!Units) /\ now \o later = transit
    BY <2>1, Cut
  <2> HIDE DEF now, later
  <2>3. incoming \o now \in Seq(Connection!Units) /\ buffer \o incoming \in Seq(Connection!Units)
    BY <2>2, ConcatProperties
  <2>4. buffer \o (incoming \o now) = (buffer \o incoming) \o now
    BY <2>2, Regroup
  <2>5. ((buffer \o incoming) \o now) \o later = (buffer \o incoming) \o (now \o later)
    <3> DEFINE both == buffer \o incoming
    <3>1. both \in Seq(Connection!Units)
      BY <2>3
    <3> HIDE DEF both
    <3>2. (both \o now) \o later = both \o (now \o later)
      BY <2>2, <3>1, Regroup
    <3> QED
      BY <3>2 DEF both
  <2> QED
    BY <2>1, <2>2, <2>3, <2>4, <2>5
<1>2. CASE Connection!Read(n)
  <2> DEFINE now == SubSeq(incoming, 1, n)
             later == SubSeq(incoming, n + 1, Len(incoming))
  <2>1. /\ n \in 1..Len(incoming) /\ transit' = transit
        /\ buffer' = buffer \o now /\ incoming' = later
    BY <1>2 DEF Connection!Read
  <2>2. now \in Seq(Connection!Units) /\ later \in Seq(Connection!Units) /\ now \o later = incoming
    BY <2>1, Cut
  <2> HIDE DEF now, later
  <2>3. buffer \o now \in Seq(Connection!Units)
    BY <2>2, ConcatProperties
  <2>4. (buffer \o now) \o later = buffer \o (now \o later)
    BY <2>2, Regroup
  <2> QED
    BY <2>1, <2>2, <2>3, <2>4
<1> QED
  BY <1>1, <1>2

(* The message that receive returns is the one that was sent next, and the *)
(* buffer goes on with the one after it.                                   *)
LEMMA Received ==
  ASSUME Connection!Setting, TypeOK, Connection!MessagesWhole, Connection!Receive
  PROVE  /\ buffer' \in Seq(Connection!Units) /\ messages' \in Seq(Seq(Connection!Units))
         /\ Connection!MessagesWhole'
<1> DEFINE m == Connection!Announced
           n == Len(messages) + 1
           size == SizeOf(m)
           body == SubSeq(buffer, Connection!BodyStart + 1, Connection!BodyStart + Len(m.body))
           behind == incoming \o transit
           from == dialog.starts[n]
           rest == SubSeq(dialog.units, from + 1, Len(dialog.units))
<1>1. /\ Connection!Whole /\ messages' = Append(messages, body)
      /\ buffer' = SubSeq(buffer, Connection!BodyStart + Len(m.body) + 1, Len(buffer))
      /\ UNCHANGED <<dialog, transit, incoming>>
  BY DEF Connection!Receive
<1>2. /\ buffer # <<>> /\ Connection!HeaderLength(buffer) = m.header
      /\ m.header + EndSize <= Len(buffer)
  BY <1>1, FirstBlank DEF Connection!Whole
<1>3. /\ Len(messages) < Len(dialog.messages)
      /\ m.header \in Nat /\ m.body \in Seq(Connection!Units) /\ Len(m.body) \in Nat
      /\ \A k \in 1..Len(m.body) :
            m.header + EndSize + k <= Len(buffer)
               => buffer[m.header + EndSize + k] = m.body[k]
  BY <1>2, Ahead
<1>4. /\ Connection!LaidOut(dialog) /\ EndSize \in Nat \ {0}
      /\ Len(messages) \in Nat /\ Len(dialog.messages) \in Nat /\ Len(buffer) \in Nat
      /\ Len(dialog.units) \in Nat /\ dialog.units \in Seq(Connection!Units)
      /\ buffer \in Seq(Connection!Units)
  <2>1. Connection!LaidOut(dialog) /\ dialog.units \in Seq(Connection!Units) /\ buffer \in Seq(Connection!Units)
    BY DEF Connection!Setting, TypeOK, Connection!LaidOut
  <2> QED
    BY <2>1, LenProperties DEF Connection!Setting, TypeOK, Connection!LaidOut
<1>5. /\ Connection!BodyStart = m.header + EndSize /\ Connection!BodyStart \in Nat /\ m.body # <<>>
      /\ Connection!BodyStart + Len(m.body) \in Connection!BodyStart..Len(buffer)
      /\ Connection!BodyStart \in 0..Len(buffer)
      /\ size = Connection!BodyStart + Len(m.body) /\ size \in 1..Len(buffer)
  <2>1. Connection!BodyStart = m.header + EndSize /\ Connection!BodyStart \in Nat \ {0}
    BY <1>2, <1>3, <1>4 DEF Connection!BodyStart
  <2>2. Len(buffer) >= Connection!BodyStart + Len(m.body) /\ m.body # <<>>
    BY <1>1 DEF Connection!Whole
  <2>3. size = Connection!BodyStart + Len(m.body)
    BY <2>1 DEF SizeOf
  <2> HIDE DEF m, size
  <2>4. Len(m.body) \in Nat /\ Len(buffer) \in Nat
    BY <1>3, <1>4
  <2>5. size \in Nat /\ size > 0 /\ size <= Len(buffer) /\ size >= Connection!BodyStart
    BY <2>1, <2>2, <2>3, <2>4
  <2>6. /\ Connection!BodyStart + Len(m.body) \in Connection!BodyStart..Len(buffer)
        /\ Connection!BodyStart \in 0..Len(buffer)
        /\ size \in 1..Len(buffer)
    BY <2>1, <2>3, <2>4, <2>5
  <2> QED
    BY <2>1, <2>2, <2>3, <2>6
<1>6. body \in Seq(Connection!Units) /\ body = m.body
  <2>1. /\ Len(body) = (Connection!BodyStart + Len(m.body)) - Connection!BodyStart
        /\ \A k \in 1..(Connection!BodyStart + Len(m.body)) - Connection!BodyStart :
              body[k] = buffer[Connection!BodyStart + k]
    BY <1>4, <1>5, Slice
  <2>2. (Connection!BodyStart + Len(m.body)) - Connection!BodyStart = Len(m.body)
    BY <1>3, <1>5
  <2>3. body \in Seq(Connection!Units)
    <3>1. \A k \in Connection!BodyStart + 1..Connection!BodyStart + Len(m.body) : buffer[k] \in Connection!Units
      BY <1>4, <1>5, ElementOfSeq
    <3> QED
      BY <1>3, <1>5, <3>1, SubSeqProperties
  <2> HIDE DEF body
  <2>4. ASSUME NEW k \in 1..Len(m.body) PROVE body[k] = m.body[k]
    <3>1. body[k] = buffer[Connection!BodyStart + k]
      BY <2>1, <2>2
    <3>2. m.header + EndSize + k <= Len(buffer)
      BY <1>3, <1>4, <1>5
    <3> QED
      BY <1>3, <1>5, <3>1, <3>2
  <2>5. Len(body) = Len(m.body) /\ \A k \in 1..Len(body) : body[k] = m.body[k]
    BY <2>1, <2>2, <2>4
  <2> QED
    BY <1>3, <2>3, <2>5, SeqEqual
<1> HIDE DEF body
<1>7. buffer' = SubSeq(buffer, size + 1, Len(buffer)) /\ buffer' \in Seq(Connection!Units)
  <2>1. buffer' = SubSeq(buffer, size + 1, Len(buffer))
    BY <1>1, <1>5
  <2> QED
    BY <1>4, <1>5, <2>1, Cut
<1>8. /\ messages' \in Seq(Seq(Connection!Units)) /\ Len(messages') = n
      /\ \A i \in 1..Len(messages) : messages'[i] = messages[i]
      /\ messages'[n] = body
  BY <1>1, <1>6, AppendProperties DEF TypeOK
<1>9. n \in 1..Len(dialog.messages) /\ n + 1 \in 1..Len(dialog.messages) + 1
  BY <1>3, <1>4
<1>10. \A i \in 1..Len(messages') : messages'[i] = dialog.messages[i].body
  <2> SUFFICES ASSUME NEW i \in 1..Len(messages') PROVE messages'[i] = dialog.messages[i].body
    OBVIOUS
  <2>1. CASE i = n
    BY <1>6, <1>8, <2>1 DEF Connection!Announced
  <2>2. CASE i # n
    <3>1. i \in 1..Len(messages)
      BY <1>4, <1>8, <2>2
    <3> QED
      BY <1>8, <3>1 DEF Connection!MessagesWhole
  <2> QED
    BY <2>1, <2>2
<1>11. /\ from \in Nat /\ dialog.starts[n + 1] = from + size
       /\ from + size <= Len(dialog.units)
  <2>1. /\ dialog.starts[n] \in Nat
        /\ dialog.starts[n + 1] = dialog.starts[n] + SizeOf(dialog.messages[n])
        /\ dialog.starts[n + 1] <= Len(dialog.units)
    <3> HIDE DEF n
    <3> QED
      BY <1>4, <1>9, Layout
  <2>2. m = dialog.messages[n]
    BY DEF Connection!Announced
  <2> QED
    BY <2>1, <2>2
<1> HIDE DEF n, from, size
<1>12. behind \in Seq(Connection!Units) /\ rest = buffer \o behind
  <2>1. (buffer \o incoming) \o transit = buffer \o (incoming \o transit)
    BY Regroup DEF TypeOK
  <2>2. behind \in Seq(Connection!Units)
    BY ConcatProperties DEF TypeOK
  <2> QED
    BY <2>1, <2>2 DEF Connection!MessagesWhole, n, from
<1>13. buffer' \o behind = SubSeq(dialog.units, (from + size) + 1, Len(dialog.units))
  <2> DEFINE head == SubSeq(buffer, 1, size)
             first == SubSeq(dialog.units, from + 1, from + size)
             last == SubSeq(dialog.units, (from + size) + 1, Len(dialog.units))
  <2>0. /\ from \in Nat /\ size \in Nat /\ size > 0 /\ Len(dialog.units) \in Nat
        /\ from + size <= Len(dialog.units)
    BY <1>4, <1>5, <1>11
  <2>1. head \in Seq(Connection!Units) /\ head \o buffer' = buffer
    BY <1>4, <1>5, <1>7, Cut
  <2>2. first \o last = rest
    <3>1. /\ from + 1 \in 1..Len(dialog.units) + 1
          /\ from + size \in (from + 1) - 1..Len(dialog.units)
          /\ Len(dialog.units) \in from + size..Len(dialog.units)
      BY <2>0
    <3> QED
      BY <1>4, <3>1, ConcatAdjacentSubSeq
  <2>3. first \in Seq(Connection!Units) /\ last \in Seq(Connection!Units) /\ Len(first) = size
    <3>1. ASSUME NEW k \in from + 1..from + size PROVE dialog.units[k] \in Connection!Units
      <4>1. k \in 1..Len(dialog.units)
        BY <2>0
      <4> QED
        BY <1>4, <4>1, ElementOfSeq
    <3>2. ASSUME NEW k \in (from + size) + 1..Len(dialog.units) PROVE dialog.units[k] \in Connection!Units
      <4>1. k \in 1..Len(dialog.units)
        BY <2>0
      <4> QED
        BY <1>4, <4>1, ElementOfSeq
    <3>9. /\ from + 1 \in Int /\ from + size \in Int /\ (from + size) + 1 \in Int
          /\ Len(dialog.units) \in Int
      BY <2>0
    <3>3. first \in Seq(Connection!Units) /\ last \in Seq(Connection!Units)
      <4>1. first \in Seq(Connection!Units)
        BY <3>9, <3>1, SubSeqProperties
      <4>2. last \in Seq(Connection!Units)
        BY <3>9, <3>2, SubSeqProperties
      <4> QED
        BY <4>1, <4>2
    <3>4. from \in 0..Len(dialog.units) /\ from + size \in from..Len(dialog.units)
          /\ (from + size) - from = size
      BY <2>0
    <3>5. Len(first) = (from + size) - from
      BY <1>4, <3>4, Slice
    <3> QED
      BY <3>3, <3>4, <3>5
  <2>4. Len(head) = size
    <3>1. 0 \in 0..Len(buffer) /\ size \in 0..Len(buffer) /\ 0 + 1 = 1 /\ size - 0 = size
      BY <1>4, <1>5
    <3>2. Len(SubSeq(buffer, 0 + 1, size)) = size - 0
      BY <1>4, <3>1, Slice
    <3> QED
      BY <3>1, <3>2
  <2> HIDE DEF head, first, last, rest, behind
  <2>5. head \o (buffer' \o behind) = first \o last
    <3>1. (head \o buffer') \o behind = head \o (buffer' \o behind)
      BY <1>7, <1>12, <2>1, Regroup
    <3> QED
      BY <1>12, <2>1, <2>2, <3>1
  <2>6. buffer' \o behind \in Seq(Connection!Units)
    BY <1>7, <1>12, ConcatProperties
  <2>7. buffer' \o behind = last
    <3> DEFINE t == buffer' \o behind
    <3>1. t \in Seq(Connection!Units) /\ head \o t = first \o last
      BY <2>5, <2>6
    <3> HIDE DEF t
    <3>2. /\ Len(t) \in Nat /\ Len(last) \in Nat /\ size \in Nat
      BY <1>5, <2>3, <3>1, LenProperties
    <3>3. Len(head \o t) = Len(head) + Len(t) /\ Len(first \o last) = Len(first) + Len(last)
      BY <2>1, <2>3, <3>1, Joined
    <3>4. Len(t) = Len(last)
      BY <2>3, <2>4, <3>1, <3>2, <3>3
    <3>5. /\ \A k \in 1..Len(t) : (head \o t)[Len(head) + k] = t[k]
          /\ \A k \in 1..Len(last) : (first \o last)[Len(first) + k] = last[k]
      BY <2>1, <2>3, <3>1, Joined
    <3>6. \A k \in 1..Len(t) : t[k] = last[k]
      BY <2>3, <2>4, <3>1, <3>4, <3>5
    <3>7. t = last
      BY <2>3, <3>1, <3>4, <3>6, SeqEqual
    <3> QED
      BY <3>7 DEF t
  <2> QED
    BY <2>7 DEF last
<1>14. (buffer' \o incoming) \o transit = buffer' \o behind
  BY <1>7, Regroup DEF TypeOK
<1>15. Len(messages') <= Len(dialog.messages)
  BY <1>8, <1>9
<1>16. buffer' \o incoming' \o transit'
          = SubSeq(dialog'.units, dialog'.starts[Len(messages') + 1] + 1, Len(dialog'.units))
  BY <1>1, <1>8, <1>11, <1>13, <1>14
<1> QED
  BY <1>1, <1>7, <1>8, <1>10, <1>15, <1>16 DEF Connection!MessagesWhole

(***************************************************************************)
(* The theorems.                                                           *)
(***************************************************************************)

LEMMA StreamStep ==
  ASSUME Connection!Setting, TypeOK, Connection!MessagesWhole, [Connection!Next]_(Connection!vars)
  PROVE  /\ transit' \in Seq(Connection!Units) /\ incoming' \in Seq(Connection!Units)
         /\ buffer' \in Seq(Connection!Units)
         /\ messages' \in Seq(Seq(Connection!Units)) /\ Connection!MessagesWhole'
         /\ dialog' = dialog
<1>1. ASSUME NEW n, Connection!Arrive(n) \/ Connection!Read(n)
      PROVE  /\ transit' \in Seq(Connection!Units) /\ incoming' \in Seq(Connection!Units)
             /\ buffer' \in Seq(Connection!Units)
             /\ messages' \in Seq(Seq(Connection!Units)) /\ Connection!MessagesWhole'
             /\ dialog' = dialog
  <2>1. dialog' = dialog /\ messages' = messages
    BY <1>1 DEF Connection!Arrive, Connection!Read
  <2> QED
    BY <1>1, <2>1, StreamKept DEF TypeOK, Connection!MessagesWhole
<1>2. CASE Connection!Receive
  BY <1>2, Received DEF Connection!Receive, TypeOK
<1>3. CASE UNCHANGED <<dialog, transit, incoming, buffer, messages>>
  BY <1>3 DEF TypeOK, Connection!MessagesWhole
<1>4. ASSUME \/ Connection!Look \/ Connection!Refuse \/ Connection!Compose \/ Connection!GiveUp
             \/ \E n \in 1..Len(Packets[packet]) : Connection!Send(n)
             \/ UNCHANGED Connection!vars
      PROVE  UNCHANGED <<dialog, transit, incoming, buffer, messages>>
  BY <1>4 DEF Connection!Look, Connection!Refuse, Connection!Compose, Connection!GiveUp,
     Connection!Send, Connection!vars
<1> QED
  BY <1>1, <1>2, <1>3, <1>4 DEF Connection!Next

(* What the engine reads is what is sent, and a packet is sent whole.      *)
LEMMA PacketsStep ==
  ASSUME Connection!Setting, TypeOK, Sending, Connection!PacketsWhole,
         [Connection!Next]_(Connection!vars)
  PROVE  /\ packet' \in 0..Len(Packets) /\ offset' \in Nat /\ taken' \in Seq(Seq(Connection!Units))
         /\ Sending' /\ Connection!PacketsWhole'
<1>1. /\ Packets \in Seq(Seq(Connection!Units) \ {<<>>}) /\ Len(Packets) \in Nat
      /\ \A i \in 1..Len(Packets) : Packets[i] \in Seq(Connection!Units) /\ Len(Packets[i]) \in Nat \ {0}
  <2>1. Packets \in Seq(Seq(Connection!Units) \ {<<>>})
    BY DEF Connection!Setting
  <2>2. \A i \in 1..Len(Packets) : Packets[i] \in Seq(Connection!Units) \ {<<>>}
    BY <2>1, ElementOfSeq
  <2> QED
    BY <2>1, <2>2, LenProperties, EmptySeq
<1>2. /\ Len(taken) = packet /\ packet \in 0..Len(Packets) /\ offset \in Nat
      /\ taken \in Seq(Seq(Connection!Units))
  BY DEF TypeOK, Connection!PacketsWhole
<1>3. CASE Connection!Compose
  <2>1. /\ at = "idle" /\ packet < Len(Packets) /\ at' = "send"
        /\ packet' = packet + 1 /\ offset' = 0 /\ taken' = Append(taken, <<>>)
    BY <1>3 DEF Connection!Compose
  <2>2. packet' \in 1..Len(Packets) /\ packet \in Nat
    BY <1>1, <1>2, <2>1
  <2>3. <<>> \in Seq(Connection!Units)
    BY EmptySeq
  <2>4. /\ taken' \in Seq(Seq(Connection!Units)) /\ Len(taken') = packet'
        /\ \A i \in 1..packet : taken'[i] = taken[i]
        /\ taken'[packet'] = <<>>
    BY <1>2, <2>1, <2>3, AppendProperties
  <2>5. SubSeq(Packets[packet'], 1, offset') = <<>>
    BY <2>1, SubSeqEmpty
  <2>6. ASSUME NEW i \in 1..packet'
        PROVE  taken'[i] = IF i = packet' THEN SubSeq(Packets[i], 1, offset') ELSE Packets[i]
    <3>1. CASE i = packet'
      BY <2>4, <2>5, <3>1
    <3>2. CASE i # packet'
      <4>1. i \in 1..packet
        BY <2>1, <2>2, <3>2
      <4>2. taken[i] = Packets[i]
        <5>1. CASE i = packet
          <6>1. packet > 0 /\ packet \in 1..Len(Packets)
            BY <1>1, <1>2, <4>1, <5>1
          <6>2. offset = Len(Packets[packet])
            BY <2>1, <6>1 DEF Sending
          <6>3. SubSeq(Packets[packet], 1, Len(Packets[packet])) = Packets[packet]
            BY <1>1, <6>1, SubSeqFull
          <6> QED
            BY <4>1, <5>1, <6>2, <6>3 DEF Connection!PacketsWhole
        <5>2. CASE i # packet
          BY <4>1, <5>2 DEF Connection!PacketsWhole
        <5> QED
          BY <5>1, <5>2
      <4> QED
        BY <2>4, <3>2, <4>1, <4>2
    <3> QED
      BY <3>1, <3>2
  <2>7. Len(Packets[packet']) \in Nat \ {0}
    BY <1>1, <2>2
  <2> QED
    BY <2>1, <2>2, <2>4, <2>6, <2>7 DEF Sending, Connection!PacketsWhole
<1>4. ASSUME at = "send", NEW n \in 1..Len(Packets[packet]), Connection!Send(n)
      PROVE  /\ packet' \in 0..Len(Packets) /\ offset' \in Nat
             /\ taken' \in Seq(Seq(Connection!Units))
             /\ Sending' /\ Connection!PacketsWhole'
  <2> DEFINE p == Packets[packet]
             more == SubSeq(p, offset + 1, offset + n)
             old == SubSeq(p, 1, offset)
  <2>1. /\ n \in 1..(Len(p) - offset) /\ offset' = offset + n /\ packet' = packet
        /\ taken' = [taken EXCEPT ![packet] = taken[packet] \o more]
        /\ at' = IF offset' = Len(p) THEN "idle" ELSE "send"
    BY <1>4 DEF Connection!Send
  <2>2. packet \in 1..Len(Packets)
    BY <1>1, <1>2, <1>4 DEF Sending
  <2>3. p \in Seq(Connection!Units) /\ Len(p) \in Nat
    BY <1>1, <2>2
  <2>4. packet \in 1..Len(taken) /\ taken[packet] = old
    BY <1>2, <2>2 DEF Connection!PacketsWhole
  <2> HIDE DEF p
  <2>5. /\ 1 \in 1..Len(p) + 1 /\ offset \in 1 - 1..Len(p) /\ offset + n \in offset..Len(p)
        /\ offset' \in Nat /\ offset' <= Len(p)
    BY <1>2, <2>1, <2>3
  <2>6. old \o more = SubSeq(p, 1, offset')
    BY <2>1, <2>3, <2>5, ConcatAdjacentSubSeq
  <2>7. SubSeq(p, 1, offset') \in Seq(Connection!Units)
    <3>1. \A k \in 1..offset' : p[k] \in Connection!Units
      BY <2>3, <2>5, ElementOfSeq
    <3> QED
      BY <2>5, <3>1, SubSeqProperties
  <2>8. taken' = [taken EXCEPT ![packet] = SubSeq(p, 1, offset')]
    BY <2>1, <2>4, <2>6
  <2> HIDE DEF old, more
  <2>9. /\ taken' \in Seq(Seq(Connection!Units)) /\ Len(taken') = Len(taken)
        /\ \A i \in 1..Len(taken) : taken'[i] = IF i = packet THEN SubSeq(p, 1, offset') ELSE taken[i]
    BY <1>2, <2>4, <2>7, <2>8, ExceptSeq
  <2>10. ASSUME NEW i \in 1..packet'
         PROVE  taken'[i] = IF i = packet' THEN SubSeq(Packets[i], 1, offset') ELSE Packets[i]
    <3>1. CASE i = packet
      BY <1>2, <2>1, <2>9, <3>1 DEF p
    <3>2. CASE i # packet
      BY <1>2, <2>1, <2>9, <3>2 DEF Connection!PacketsWhole
    <3> QED
      BY <3>1, <3>2
  <2>11. Len(taken') = packet' /\ packet' \in 0..Len(Packets) /\ packet' > 0
    BY <1>1, <1>2, <2>1, <2>2, <2>9
  <2> QED
    BY <2>1, <2>5, <2>9, <2>10, <2>11 DEF Sending, Connection!PacketsWhole, p
<1>5. ASSUME \/ Connection!Look \/ Connection!Receive \/ Connection!Refuse \/ Connection!GiveUp
             \/ \E n : Connection!Arrive(n) \/ Connection!Read(n)
             \/ UNCHANGED Connection!vars
      PROVE  /\ UNCHANGED Connection!sending
             /\ \/ at' = at \/ at' \in {"refused", "closed"}
                \/ at \in {"idle", "receive"} /\ at' \in {"idle", "receive"}
  BY <1>5 DEF Connection!Look, Connection!Receive, Connection!Refuse, Connection!GiveUp,
     Connection!Arrive, Connection!Read, Connection!sending, Connection!vars
<1>6. CASE /\ UNCHANGED Connection!sending
           /\ \/ at' = at \/ at' \in {"refused", "closed"}
              \/ at \in {"idle", "receive"} /\ at' \in {"idle", "receive"}
  BY <1>2, <1>6 DEF Connection!sending, Sending, Connection!PacketsWhole
<1> QED
  BY <1>3, <1>4, <1>5, <1>6 DEF Connection!Next

(* A message is refused only when its header is too long, or as long as    *)
(* makes the arrival of its blank line matter, or invalid.                 *)
LEMMA RefusedStep ==
  ASSUME Connection!Setting, TypeOK, Connection!MessagesWhole, Connection!RefusedForCause,
         [Connection!Next]_(Connection!vars)
  PROVE  Connection!RefusedForCause' /\ at' \in {"idle", "receive", "refused", "send", "closed"}
<1>1. CASE Connection!Refuse
  <2> DEFINE m == Connection!Announced
  <2>1. at' = "refused" /\ Connection!Refused /\ m' = m
    BY <1>1 DEF Connection!Refuse, Connection!Announced
  <2>2. Limit \in Nat /\ EndSize \in Nat \ {0} /\ Len(buffer) \in Nat
    BY LenProperties DEF Connection!Setting, TypeOK
  <2>3. CASE Connection!Found(buffer) /\ Connection!HeaderLength(buffer) > Limit
    <3>1. Connection!HeaderLength(buffer) = m.header /\ buffer # <<>>
      BY <2>3, FirstBlank
    <3>2. m.header \in Nat
      BY <3>1, Ahead
    <3>3. m.header > Limit - (EndSize - 1)
      BY <2>2, <2>3, <3>1, <3>2
    <3> QED
      BY <2>1, <3>3 DEF Connection!RefusedForCause
  <2>4. CASE Connection!Found(buffer) /\ m.body = <<>>
    BY <2>1, <2>4 DEF Connection!RefusedForCause
  <2>5. CASE ~Connection!Found(buffer) /\ Len(buffer) > Limit
    <3>1. buffer # <<>>
      BY <2>2, <2>5, EmptySeq
    <3>2. Len(buffer) < m.header + EndSize
      BY <2>5, <3>1, FirstBlank
    <3>3. m.header \in Nat
      BY <3>1, Ahead
    <3>4. m.header > Limit - (EndSize - 1)
      BY <2>2, <2>5, <3>2, <3>3
    <3> QED
      BY <2>1, <3>4 DEF Connection!RefusedForCause
  <2> QED
    BY <2>1, <2>3, <2>4, <2>5 DEF Connection!Refused
<1>2. CASE at' = at /\ UNCHANGED <<dialog, messages>>
  BY <1>2 DEF Connection!RefusedForCause, Connection!Announced, TypeOK
<1>3. CASE at' \in {"idle", "receive", "send", "closed"}
  BY <1>3 DEF Connection!RefusedForCause
<1>4. ASSUME \/ Connection!Look \/ Connection!Receive \/ Connection!Compose \/ Connection!GiveUp
             \/ \E n : Connection!Arrive(n) \/ Connection!Read(n) \/ Connection!Send(n)
             \/ UNCHANGED Connection!vars
      PROVE  \/ at' = at /\ UNCHANGED <<dialog, messages>>
             \/ at' \in {"idle", "receive", "send", "closed"}
  BY <1>4 DEF Connection!Look, Connection!Receive, Connection!Compose, Connection!GiveUp,
     Connection!Arrive, Connection!Read, Connection!Send, Connection!vars
<1> QED
  BY <1>1, <1>2, <1>3, <1>4 DEF Connection!Next

(* A whole message has its header, so its buffer is not empty.             *)
LEMMA SeenWhenWhole ==
  ASSUME Connection!Setting, TypeOK, Connection!MessagesWhole
  PROVE  Connection!NothingOverlooked
<1>1. Connection!Whole => buffer # <<>>
  BY FirstBlank DEF Connection!Whole
<1> QED
  BY <1>1 DEF Connection!NothingOverlooked, Connection!readable

LEMMA ConnectionInit ==
  ASSUME AllInit, world = "connection" PROVE Connection!Init
  BY DEF AllInit

LEMMA ConnectionNext ==
  ASSUME [AllNext]_allVars
  PROVE  /\ world' = world
         /\ world = "connection" => [Connection!Next]_(Connection!vars)
<1>1. world' = world
  BY DEF AllNext, In, allVars
<1>2. ASSUME AllNext, world = "connection" PROVE Connection!Next
  BY <1>2 DEF AllNext, In
<1>3. UNCHANGED allVars => UNCHANGED Connection!vars
  BY DEF allVars, connectionVars, Connection!vars
<1> QED
  BY <1>1, <1>2, <1>3

(* For any messages, limits and packets, and however many bytes the socket *)
(* delivers and accepts at a time: receive returns the engine's messages   *)
(* whole, in order and none left out, it refuses one only for its header,  *)
(* none is left unseen in the buffer, and the engine reads the packets of  *)
(* send whole and in order.                                                *)
THEOREM StreamsWhole == AllSpec => []StreamFaithful
<1> DEFINE Inv == ~(world = "connection") \/ ConnectionInv
<1> USE ConnectionAssumption
<1>1. AllInit => Inv
  BY ConnectionInit, ConnectionStarts
<1>2. ConnectionInv /\ [Connection!Next]_(Connection!vars) => ConnectionInv'
  <2> SUFFICES ASSUME ConnectionInv, [Connection!Next]_(Connection!vars) PROVE ConnectionInv'
    OBVIOUS
  <2>1. /\ transit' \in Seq(Connection!Units) /\ incoming' \in Seq(Connection!Units)
        /\ buffer' \in Seq(Connection!Units) /\ messages' \in Seq(Seq(Connection!Units))
        /\ Connection!MessagesWhole' /\ dialog' = dialog
    BY StreamStep DEF ConnectionInv
  <2>2. /\ packet' \in 0..Len(Packets) /\ offset' \in Nat
        /\ taken' \in Seq(Seq(Connection!Units))
        /\ Sending' /\ Connection!PacketsWhole'
    BY PacketsStep DEF ConnectionInv
  <2>3. /\ Connection!RefusedForCause'
        /\ at' \in {"idle", "receive", "refused", "send", "closed"}
    BY RefusedStep DEF ConnectionInv
  <2> QED
    BY <2>1, <2>2, <2>3 DEF ConnectionInv, TypeOK
<1>3. Inv /\ [AllNext]_allVars => Inv'
  BY <1>2, ConnectionNext
<1>4. Inv => StreamFaithful
  BY SeenWhenWhole DEF ConnectionInv, StreamFaithful, Connection!StreamFaithful
<1> QED
  BY <1>1, <1>3, <1>4, PTL DEF AllSpec
=============================================================================
