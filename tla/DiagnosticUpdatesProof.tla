------------------------ MODULE DiagnosticUpdatesProof ------------------------
(***************************************************************************)
(* Proofs about what the diagnostics scheduler does with a change: except  *)
(* by a full scan, no file change is hidden from the poll, and no change   *)
(* of the diagnostics is lost to the client: without an engine whatever    *)
(* happens, with one while the editor's saves alone write the files.       *)
(***************************************************************************)
EXTENDS DiagnosticCoordinatorProof

(***************************************************************************)
(* The invariants.                                                         *)
(***************************************************************************)

(* What a thread holds at each point of an update, a scan or a publication.*)
Placed(t) ==
    LET j == job[t] IN
    /\ j.todo \subseteq j.uris
    /\ j.todo # {} => pc[t] \in {"begin", "before", "apply"}
                         /\ j.op \in {"watch", "poll"}
    /\ j.op \in {"watch", "poll"} => j.uri = None
    /\ j.op \in EditOps => t = "main" /\ j.uris = {j.uri}
    /\ j.op \in {"open", "change"} /\ pc[t] # "finish" => j.scope = {}
    /\ pc[t] \in ScanPath => j.op = "scan"
    /\ t = "main" => ~j.notify
    /\ j.gen <= generation \/ t = "bridge"
AllPlaced == \A t \in Threads : Placed(t)

(* The poll knows no file outside the root, and never refreshes one; the   *)
(* bridge's thread refreshes none at all.                                  *)
InRoot ==
    /\ \A u \in Outside : /\ stamps[u] = Absent
                          /\ \A t \in Threads : job[t].stamps[u] = Absent
    /\ job["worker"].todo \cap Outside = {} /\ job["bridge"].todo = {}
Tasks == AllPlaced /\ InRoot

(* A document in the open set has an editor buffer.                        *)
OpenIsBuffered == \A u \in open : buffers[u] # Absent

(* No stamp and no buffer is newer than the clock, so what another program *)
(* writes has a new stamp.                                                 *)
Stamped ==
    /\ \A u \in Uris : /\ disk[u] <= clock /\ stamps[u] <= clock
                       /\ buffers[u] <= clock
    /\ \A t \in Threads : \A u \in Uris : job[t].stamps[u] <= clock

Kept == Tasks /\ OpenIsBuffered /\ Stamped

(***************************************************************************)
(* What one step of a thread does to its task.                             *)
(***************************************************************************)

(* The fields of a task no step of it but the last changes.                *)
SameTask(j, k) ==
    j.op = k.op /\ j.uri = k.uri /\ j.notify = k.notify /\ j.gen = k.gen

Moves(t) ==
    LET j == job[t]
        k == job'[t]
    IN  /\ SameTask(k, j)
        /\ k.stamps \in {j.stamps, FileStamps}
        /\ \/ /\ pc[t] \in ScanPath /\ pc'[t] \in ScanPath
              /\ k.todo = j.todo /\ k.scope = j.scope
              /\ \/ pc[t] # "uris" /\ k.uris = j.uris
                 \/ pc[t] = "uris" /\ k.uris = DocumentUris
           \/ /\ pc[t] \in Publish /\ pc'[t] \in Publish
              /\ k.uris = j.uris /\ k.todo = j.todo /\ k.scope = j.scope
           \/ /\ pc[t] = "begin" /\ pc'[t] \in {"before", "apply"}
              /\ j.op # "open" => pc'[t] = "before"
              /\ k = j
           \/ /\ pc[t] = "before" /\ pc'[t] = "apply"
              /\ k.uris = j.uris /\ k.todo = j.todo
           \/ /\ pc[t] = "after" \/ (pc[t] = "apply" /\ j.todo = {})
              /\ pc'[t] = "finish"
              /\ k.uris = j.uris /\ k.todo = j.todo
              /\ k.scope = j.scope \cup Affected(docs, j.uris)
           \/ /\ RefreshFile(t) /\ pc[t] = "apply" /\ pc'[t] = "apply"
              /\ k.uris = j.uris /\ k.scope = j.scope /\ k.todo \subseteq j.todo

LEMMA StepMoves ==
  ASSUME TypeOK, NEW t \in Threads, Step(t)
  PROVE  \/ /\ job'[t] = NoJob /\ pc'[t] \in {"idle", "notice"}
            /\ pc[t] \in {"finish", "scanlock"} \cup Publish
         \/ Moves(t)
<1>0. job[t] \in Jobs
  BY DEF TypeOK
<1>1. CASE Begin(t)
  BY <1>0, <1>1, GotoAt DEF Begin, Moves, SameTask
<1>2. CASE Before(t)
  <2> DEFINE s == Affected(docs, job[t].uris)
             j == [job[t] EXCEPT !.scope = s]
  <2>1. Become(t, "apply", j) /\ pc[t] = "before"
    BY <1>2 DEF Before
  <2> HIDE DEF s
  <2>2. SameTask(j, job[t]) /\ j.uris = job[t].uris /\ j.todo = job[t].todo
        /\ j.stamps = job[t].stamps
    BY <1>0 DEF Jobs, SameTask
  <2> HIDE DEF j
  <2> QED
    BY <2>1, <2>2, BecomeAt DEF Moves
<1>3. CASE RefreshFile(t)
  <2>1. PICK u \in job[t].todo : job' = [job EXCEPT ![t].todo = @ \ {u}]
    BY <1>3 DEF RefreshFile
  <2> DEFINE j == [job[t] EXCEPT !.todo = job[t].todo \ {u}]
  <2>2. job'[t] = j
    BY <2>1 DEF TypeOK
  <2>3. SameTask(j, job[t]) /\ j.uris = job[t].uris /\ j.scope = job[t].scope
        /\ j.stamps = job[t].stamps /\ j.todo \subseteq job[t].todo
    BY <1>0 DEF Jobs, SameTask
  <2> HIDE DEF j
  <2> QED
    BY <1>3, <2>2, <2>3 DEF Moves, RefreshFile
<1>4. CASE After(t)
  <2> DEFINE s == Affected(docs, job[t].uris)
             j == [job[t] EXCEPT !.scope = @ \cup s]
  <2>1. Become(t, "finish", j)
        /\ (pc[t] = "after" \/ (pc[t] = "apply" /\ job[t].todo = {}))
    BY <1>4 DEF After
  <2>2. SameTask(j, job[t]) /\ j.uris = job[t].uris /\ j.todo = job[t].todo
        /\ j.stamps = job[t].stamps /\ j.scope = job[t].scope \cup s
    <3> HIDE DEF s
    <3> QED
      BY <1>0 DEF Jobs, SameTask
  <2> HIDE DEF j
  <2> QED
    BY <2>1, <2>2, BecomeAt DEF Moves
<1>5. CASE Finish(t)
  BY <1>5, ReturnAt DEF Finish
<1>6. CASE ScanStamps(t)
  <2> DEFINE f == FileStamps
             j == [job[t] EXCEPT !.stamps = f]
  <2>1. Become(t, "uris", j) /\ pc[t] = "stamps"
    BY <1>6 DEF ScanStamps
  <2>2. SameTask(j, job[t]) /\ j.uris = job[t].uris /\ j.todo = job[t].todo
        /\ j.stamps = f /\ j.scope = job[t].scope
    <3> HIDE DEF f
    <3> QED
      BY <1>0 DEF Jobs, SameTask
  <2> HIDE DEF j
  <2> QED
    BY <2>1, <2>2, BecomeAt DEF Moves, ScanPath
<1>7. CASE ScanUris(t)
  <2> DEFINE d == DocumentUris
             j == [job[t] EXCEPT !.uris = d]
  <2>1. Become(t, "scanlock", j) /\ pc[t] = "uris"
    BY <1>7 DEF ScanUris
  <2>2. SameTask(j, job[t]) /\ j.uris = d /\ j.todo = job[t].todo
        /\ j.stamps = job[t].stamps /\ j.scope = job[t].scope
    <3> HIDE DEF d
    <3> QED
      BY <1>0 DEF Jobs, SameTask
  <2> HIDE DEF j
  <2> QED
    BY <2>1, <2>2, BecomeAt DEF Moves, ScanPath
<1>8. CASE ScheduleFull(t)
  BY <1>8, BecomeAt, ReturnAt DEF ScheduleFull
<1>9. CASE ReadSource(t)
  <2>1. CASE GiveUp(t)
    BY <1>9, <2>1, ReturnAt DEF GiveUp, ReadSource, Publish
  <2>2. CASE ~GiveUp(t)
    <3> DEFINE s == docs[job[t].uri].text
               j == [job[t] EXCEPT !.text = s]
    <3>1. Become(t, "submit", j) /\ pc[t] = "source"
      BY <1>9, <2>2 DEF ReadSource
    <3>2. SameTask(j, job[t]) /\ j.uris = job[t].uris /\ j.todo = job[t].todo
          /\ j.stamps = job[t].stamps /\ j.scope = job[t].scope
      <4> HIDE DEF s
      <4> QED
        BY <1>0 DEF Jobs, SameTask
    <3> HIDE DEF j
    <3> QED
      BY <3>1, <3>2, BecomeAt DEF Moves, Publish
  <2> QED
    BY <2>1, <2>2
<1>10. CASE Submit(t)
  <2>1. CASE GiveUp(t)
    BY <1>10, <2>1, ReturnAt DEF GiveUp, Submit, Publish
  <2>2. CASE ~GiveUp(t)
    BY <1>10, <2>2, GotoAt DEF Submit, Publish, Moves, SameTask
  <2> QED
    BY <2>1, <2>2
<1>11. CASE Compute(t)
  <2>1. CASE Return(t)
    BY <1>11, <2>1, ReturnAt DEF Compute, Publish
  <2>2. CASE ~Return(t)
    <3> DEFINE s == Standalone(docs, job[t].uri)
               j == [job[t] EXCEPT !.items = s]
    <3>1. Become(t, "version", j) /\ pc[t] = "compute"
      BY <1>11, <2>2 DEF Compute
    <3>2. SameTask(j, job[t]) /\ j.uris = job[t].uris /\ j.todo = job[t].todo
          /\ j.stamps = job[t].stamps /\ j.scope = job[t].scope
      <4> HIDE DEF s
      <4> QED
        BY <1>0 DEF Jobs, SameTask
    <3> HIDE DEF j
    <3> QED
      BY <3>1, <3>2, BecomeAt DEF Moves, Publish
  <2> QED
    BY <2>1, <2>2
<1>12. CASE ReadVersion(t)
  <2> DEFINE v == Version(job[t].uri)
             e == IF t = "bridge" THEN TRUE ELSE job[t].text = Absent /\ ready
             j == [job[t] EXCEPT !.version = v, !.engine = e]
  <2>1. Become(t, "accept", j) /\ pc[t] = "version"
    BY <1>12 DEF ReadVersion
  <2> HIDE DEF v, e
  <2>2. SameTask(j, job[t]) /\ j.uris = job[t].uris /\ j.todo = job[t].todo
        /\ j.stamps = job[t].stamps /\ j.scope = job[t].scope
    BY <1>0 DEF Jobs, SameTask
  <2> HIDE DEF j
  <2> QED
    BY <2>1, <2>2, BecomeAt DEF Moves, Publish
<1>13. CASE Accept(t)
  <2>1. Return(t) /\ pc[t] = "accept"
    BY <1>13 DEF Accept, Refuse, Deliver, GiveUp
  <2> QED
    BY <2>1, ReturnAt DEF Publish
<1> QED
  BY <1>1, <1>2, <1>3, <1>4, <1>5, <1>6, <1>7, <1>8, <1>9, <1>10, <1>11, <1>12,
     <1>13 DEF Step

(* A new task, or one that has just ended, is placed.                      *)
LEMMA FreshTask ==
  ASSUME TypeOK, NEW t \in Threads, NEW label, NEW j, Become(t, label, j),
         AllPlaced, generation' \in Nat, generation <= generation',
         j.todo \subseteq j.uris,
         j.todo # {} => label \in {"begin", "before", "apply"}
                          /\ j.op \in {"watch", "poll"},
         j.op \in {"watch", "poll"} => j.uri = None,
         j.op \in EditOps => t = "main" /\ j.uris = {j.uri},
         j.op \in {"open", "change"} /\ label # "finish" => j.scope = {},
         label \in ScanPath => j.op = "scan",
         t = "main" => ~j.notify,
         j.gen <= generation' \/ t = "bridge"
  PROVE  AllPlaced'
<1>1. pc'[t] = label /\ job'[t] = j
  BY BecomeAt
<1>2. Placed(t)'
  BY <1>1 DEF Placed
<1>3. ASSUME NEW s \in Threads \ {t} PROVE Placed(s)'
  <2>1. pc'[s] = pc[s] /\ job'[s] = job[s]
    BY BecomeAt
  <2>2. job[s].gen \in Nat /\ generation \in Nat
    BY DEF TypeOK, Jobs
  <2>3. job[s].gen <= generation => job[s].gen <= generation'
    BY <2>2
  <2> QED
    BY <2>1, <2>3 DEF Placed, AllPlaced
<1> QED
  BY <1>2, <1>3 DEF AllPlaced

(* An old task is still placed when the thread does not move.              *)
LEMMA OldTasks ==
  ASSUME TypeOK, AllPlaced, UNCHANGED job, generation' \in Nat,
         generation <= generation',
         \A t \in Threads : \/ pc'[t] = pc[t]
                            \/ pc'[t] \notin ScanPath /\ pc[t] # "finish" /\ job[t].todo = {}
  PROVE  AllPlaced'
<1> SUFFICES ASSUME NEW t \in Threads PROVE Placed(t)'
  BY DEF AllPlaced
<1>1. job[t].gen \in Nat /\ generation \in Nat
  BY DEF TypeOK, Jobs
<1>2. job[t].gen <= generation => job[t].gen <= generation'
  BY <1>1
<1> QED
  BY <1>2 DEF Placed, AllPlaced

LEMMA NoJobFields ==
  /\ NoJob.op = "none" /\ NoJob.uri = None /\ NoJob.gen = 0 /\ ~NoJob.notify
  /\ NoJob.uris = {} /\ NoJob.todo = {} /\ NoJob.scope = {}
  /\ NoJob.stamps = [u \in Uris |-> Absent]
  BY DEF NoJob

LEMMA TasksStep ==
  ASSUME TypeOK, EditPlaced, AllPlaced, NEW t \in Threads, Step(t), TypeOK'
  PROVE  AllPlaced'
<1>1. \A s \in Threads \ {t} : pc'[s] = pc[s] /\ job'[s] = job[s]
  BY StepFrame
<1>2. generation <= generation' /\ generation \in Nat /\ generation' \in Nat
  <2>1. generation \in Nat /\ generation' \in Nat
    BY DEF TypeOK
  <2>2. generation' \in {generation, generation + 1}
    BY DEF Step, Begin, BeginUpdate, Before, RefreshFile, After, Finish, ScanStamps,
           ScanUris, ScheduleFull, ReadSource, Submit, Compute, ReadVersion, Accept,
           coordinator, queues
  <2> QED
    BY <2>1, <2>2
<1>3. \A s \in Threads : job[s].gen \in Nat
  BY DEF TypeOK, Jobs
<1>4. \A s \in Threads : job[s].gen <= generation => job[s].gen <= generation'
  BY <1>2, <1>3
<1>5. ASSUME NEW s \in Threads \ {t} PROVE Placed(s)'
  BY <1>1, <1>4 DEF Placed, AllPlaced
<1>6. Placed(t)'
  <2>1. Placed(t)
    BY DEF AllPlaced
  <2>2. CASE job'[t] = NoJob /\ pc'[t] \in {"idle", "notice"}
    <3>1. 0 <= generation'
      BY <1>2
    <3> QED
      BY <2>2, <3>1, NoJobFields DEF Placed, ScanPath, EditOps
  <2>3. CASE Moves(t)
    <3>1. job[t].gen <= generation => job'[t].gen <= generation'
      BY <1>4, <2>3 DEF Moves, SameTask
    <3>2. job[t].op \in {"open", "change"} => t = "main"
      BY <2>1 DEF Placed, EditOps
    <3>3. CASE pc[t] \in ScanPath
      BY <2>1, <2>3, <3>1, <3>3 DEF Placed, Moves, SameTask, ScanPath, EditOps, Publish
    <3>4. CASE pc[t] \in Publish
      BY <2>1, <2>3, <3>1, <3>4 DEF Placed, Moves, SameTask, ScanPath, EditOps, Publish
    <3>5. CASE pc[t] = "begin"
      BY <2>1, <2>3, <3>1, <3>5 DEF Placed, Moves, SameTask, ScanPath, EditOps, Publish
    <3>6. CASE pc[t] = "before"
      <4>1. job[t].op \notin {"open", "change"}
        BY <3>2, <3>6 DEF EditPlaced
      <4> QED
        BY <2>1, <2>3, <3>1, <3>6, <4>1 DEF Placed, Moves, SameTask, ScanPath, EditOps, Publish
    <3>7. CASE pc[t] = "after" \/ (pc[t] = "apply" /\ ~RefreshFile(t))
      BY <2>1, <2>3, <3>1, <3>7 DEF Placed, Moves, SameTask, ScanPath, EditOps, Publish
    <3>8. CASE RefreshFile(t)
      <4>1. pc[t] = "apply" /\ job[t].op \in {"watch", "poll"}
        BY <3>8 DEF RefreshFile
      <4>2. /\ pc'[t] \in {"apply", "finish"} /\ SameTask(job'[t], job[t])
            /\ job'[t].uris = job[t].uris /\ job'[t].todo \subseteq job[t].todo
            /\ pc'[t] = "finish" => job[t].todo = {}
        BY <2>3, <4>1 DEF Moves, ScanPath, Publish
      <4> QED
        BY <2>1, <3>1, <4>1, <4>2 DEF Placed, SameTask, ScanPath, EditOps
    <3> QED
      BY <2>3, <3>3, <3>4, <3>5, <3>6, <3>7, <3>8 DEF Moves
  <2> QED
    BY <2>2, <2>3, StepMoves
<1> QED
  BY <1>5, <1>6 DEF AllPlaced

(* A thread that has nothing to do with an update takes up a task.         *)
LEMMA PlainTask ==
  ASSUME TypeOK, TypeOK', NEW t \in Threads, NEW label, NEW j,
         Become(t, label, j), AllPlaced, generation <= generation',
         j.todo = {}, j.op \in {"none", "scan", "publish", "stop"},
         label \in ScanPath => j.op = "scan",
         t = "main" => ~j.notify,
         j.gen <= generation' \/ t = "bridge"
  PROVE  AllPlaced'
<1>1. generation' \in Nat
  BY DEF TypeOK
<1>2. {} \subseteq j.uris
  OBVIOUS
<1> QED
  BY <1>1, <1>2, FreshTask DEF EditOps

LEMMA TasksClient ==
  ASSUME TypeOK, EditPlaced, AllPlaced, Client, TypeOK'
  PROVE  AllPlaced'
<1>0. /\ "main" \in Threads /\ generation \in Nat /\ generation' \in Nat
      /\ 0 <= generation' /\ generation <= generation /\ generation <= generation + 1
  BY DEF Threads, TypeOK
<1>1. ASSUME NEW u \in Uris, DidOpen(u) PROVE AllPlaced'
  <2> DEFINE j == [NoJob EXCEPT !.op = "open", !.uri = u, !.uris = {u}, !.text = clock + 1]
  <2>1. /\ j.op = "open" /\ j.uri = u /\ j.uris = {u} /\ j.todo = {} /\ j.scope = {}
        /\ ~j.notify /\ j.gen = 0
    BY DEF NoJob
  <2>2. Become("main", "begin", j) /\ generation' = generation
    BY <1>1 DEF DidOpen, queues
  <2> HIDE DEF j
  <2> QED
    BY <1>0, <2>1, <2>2, FreshTask DEF EditOps, ScanPath
<1>2. ASSUME NEW u \in Uris, DidChange(u) PROVE AllPlaced'
  <2> DEFINE j == [NoJob EXCEPT !.op = "change", !.uri = u, !.uris = {u}, !.text = clock + 1]
  <2>1. /\ j.op = "change" /\ j.uri = u /\ j.uris = {u} /\ j.todo = {} /\ j.scope = {}
        /\ ~j.notify /\ j.gen = 0
    BY DEF NoJob
  <2>2. Become("main", "apply", j) /\ generation' = generation + 1
    BY <1>2 DEF DidChange, BeginUpdate
  <2> HIDE DEF j
  <2> QED
    BY <1>0, <2>1, <2>2, FreshTask DEF EditOps, ScanPath
<1>3. ASSUME NEW u \in Uris, DidClose(u) PROVE AllPlaced'
  <2> DEFINE j == [NoJob EXCEPT !.op = "close", !.uri = u, !.uris = {u}]
  <2>1. /\ j.op = "close" /\ j.uri = u /\ j.uris = {u} /\ j.todo = {} /\ j.scope = {}
        /\ ~j.notify /\ j.gen = 0
    BY DEF NoJob
  <2>2. Become("main", "begin", j) /\ generation' = generation
    BY <1>3 DEF DidClose, queues
  <2> HIDE DEF j
  <2> QED
    BY <1>0, <2>1, <2>2, FreshTask DEF EditOps, ScanPath
<1>4. ASSUME NEW S \in SUBSET Uris, DidChangeWatchedFiles(S) PROVE AllPlaced'
  <2> DEFINE changed == {u \in S : buffers[u] = Absent}
             j == [NoJob EXCEPT !.op = "watch", !.uris = changed, !.todo = changed]
  <2>1. /\ j.op = "watch" /\ j.uri = None /\ j.uris = changed /\ j.todo = changed
        /\ ~j.notify /\ j.gen = 0
    BY DEF NoJob
  <2>2. Become("main", "before", j) /\ generation' = generation + 1
    BY <1>4 DEF DidChangeWatchedFiles, BeginUpdate
  <2> HIDE DEF j, changed
  <2> QED
    BY <1>0, <2>1, <2>2, FreshTask DEF EditOps, ScanPath
<1>5. CASE (\E u \in Uris : DidSave(u)) \/ Reconnect
  <2> DEFINE j == [NoJob EXCEPT !.op = "scan"]
  <2>1. j.op = "scan" /\ j.todo = {} /\ ~j.notify /\ j.gen = 0
    BY DEF NoJob
  <2>2. Become("main", "stamps", j) /\ generation' = generation
    BY <1>5 DEF DidSave, Reconnect, coordinator, queues
  <2> HIDE DEF j
  <2> QED
    BY <1>0, <2>1, <2>2, PlainTask
<1>6. CASE RequestStop
  <2> DEFINE j == [NoJob EXCEPT !.op = "stop", !.pulls = pulls]
  <2>1. j.op = "stop" /\ j.todo = {} /\ ~j.notify /\ j.gen = 0
    BY DEF NoJob
  <2>2. Become("main", "stopbridge", j) /\ generation' = generation + 1
    BY <1>6 DEF RequestStop
  <2> HIDE DEF j
  <2> QED
    BY <1>0, <2>1, <2>2, PlainTask DEF ScanPath
<1>7. ASSUME NEW p \in PullIds, CancelPull(p) PROVE AllPlaced'
  BY <1>0, <1>7, OldTasks DEF CancelPull, queues
<1>8. ASSUME NEW p \in PullIds, NEW u \in Uris, PullReceived(p, u) PROVE AllPlaced'
  <2> DEFINE j == [NoJob EXCEPT !.op = "publish", !.uri = u, !.engine = ready, !.pulls = {p}]
  <2>1. j.op = "publish" /\ j.todo = {} /\ ~j.notify /\ j.gen = 0
    BY DEF NoJob
  <2>2. Become("main", "pull", j) /\ generation' = generation
    BY <1>8 DEF PullReceived, coordinator, queues
  <2> HIDE DEF j
  <2> QED
    BY <1>0, <2>1, <2>2, PlainTask DEF ScanPath
<1> QED
  BY <1>1, <1>2, <1>3, <1>4, <1>5, <1>6, <1>7, <1>8 DEF Client

LEMMA TasksMain ==
  ASSUME TypeOK, EditPlaced, AllPlaced, MainStep, TypeOK'
  PROVE  AllPlaced'
<1>0. /\ "main" \in Threads /\ generation' = generation /\ generation' \in Nat
      /\ 0 <= generation' /\ generation <= generation' /\ Placed("main")
  BY DEF Threads, TypeOK, MainStep, UpdateDocument, RejectOpen, CloseDocument,
         PullRegister, StopBridge, JoinBridge, AnswerPending, coordinator, queues, AllPlaced
<1>1. CASE Return("main")
  BY <1>0, <1>1, NoJobFields, PlainTask DEF Return, ScanPath
<1>2. CASE UpdateDocument
  <2> DEFINE m == job["main"]
             new == [docs EXCEPT ![m.uri] = [text |-> m.text, buffer |-> TRUE]]
             scope == Affected(docs, {m.uri}) \cup Affected(new, {m.uri})
             j == [m EXCEPT !.scope = scope]
  <2>1. /\ m.op \in {"open", "change"} /\ pc["main"] = "apply" /\ m \in Jobs
        /\ \/ Become("main", "finish", j) \/ Goto("main", "reject") \/ Return("main")
    BY <1>0, <1>2 DEF UpdateDocument, TypeOK
  <2> HIDE DEF scope
  <2>2. CASE Become("main", "finish", j)
    <3>1. SameTask(j, m) /\ j.todo = m.todo /\ j.uris = m.uris
      BY <2>1 DEF Jobs, SameTask
    <3> HIDE DEF j
    <3>2. m.todo = {} /\ m.uris = {m.uri} /\ ~m.notify
          /\ (m.gen <= generation' \/ "main" = "bridge")
      BY <1>0, <2>1 DEF Placed, EditOps
    <3> QED
      BY <1>0, <2>1, <2>2, <3>1, <3>2, FreshTask DEF EditOps, ScanPath, SameTask
  <2>3. CASE Goto("main", "reject")
    <3>1. m.todo = {}
      BY <1>0, <2>1 DEF Placed
    <3> QED
      BY <1>0, <2>1, <2>3, <3>1, GotoAt, OldTasks DEF ScanPath
  <2> QED
    BY <1>1, <2>1, <2>2, <2>3
<1>3. CASE CloseDocument
  <2>1. /\ job["main"].op = "close" /\ pc["main"] = "apply"
        /\ \/ Goto("main", "after") \/ Return("main")
    BY <1>3 DEF CloseDocument
  <2>2. job["main"].todo = {}
    BY <1>0, <2>1 DEF Placed
  <2> QED
    BY <1>0, <1>1, <2>1, <2>2, GotoAt, OldTasks DEF ScanPath
<1>4. CASE RejectOpen
  BY <1>1, <1>4 DEF RejectOpen
<1>5. CASE StopBridge \/ JoinBridge
  <2>1. /\ pc["main"] \in {"stopbridge", "join"}
        /\ \/ Goto("main", "join") \/ Goto("main", "drain")
    BY <1>5 DEF StopBridge, JoinBridge
  <2>2. job["main"].todo = {}
    BY <1>0, <2>1 DEF Placed
  <2> QED
    BY <1>0, <2>1, <2>2, GotoAt, OldTasks DEF ScanPath
<1>6. CASE AnswerPending
  BY <1>0, <1>6, NoJobFields, PlainTask DEF AnswerPending, ScanPath
<1>7. CASE PullRegister
  <2> DEFINE j == [NoJob EXCEPT !.op = "publish", !.uri = job["main"].uri,
                                !.gen = generation]
  <2>1. j.op = "publish" /\ j.todo = {} /\ ~j.notify /\ j.gen = generation
    BY DEF NoJob
  <2>2. Return("main") \/ Become("main", "source", j)
    BY <1>7 DEF PullRegister
  <2> HIDE DEF j
  <2> QED
    BY <1>0, <1>1, <2>1, <2>2, PlainTask DEF ScanPath
<1> QED
  BY <1>2, <1>3, <1>4, <1>5, <1>6, <1>7 DEF MainStep

LEMMA TasksWorker ==
  ASSUME TypeOK, AllPlaced, WorkerStep \/ PickPoll \/ PickBackground, TypeOK'
  PROVE  AllPlaced'
<1>0. /\ "worker" \in Threads /\ generation' = generation /\ generation' \in Nat
      /\ 0 <= generation' /\ generation <= generation' /\ Placed("worker")
  <2>1. generation' = generation
    BY DEF WorkerStep, PickDirty, PollScan, PollLock, WorkerExit,
         PickPoll, PickBackground, coordinator, queues
  <2>2. generation \in Nat /\ "worker" \in Threads
    BY DEF TypeOK, Threads
  <2> QED
    BY <2>1, <2>2 DEF AllPlaced
<1>1. ASSUME NEW u \in Uris, NEW b \in BOOLEAN,
             Become("worker", "source", [NoJob EXCEPT !.op = "publish", !.uri = u,
               !.gen = generation, !.force = b, !.notify = TRUE])
      PROVE  AllPlaced'
  <2> DEFINE j == [NoJob EXCEPT !.op = "publish", !.uri = u, !.gen = generation,
                                !.force = b, !.notify = TRUE]
  <2>1. j.op = "publish" /\ j.todo = {} /\ j.gen = generation
    BY DEF NoJob
  <2>2. Become("worker", "source", j)
    BY <1>1
  <2> HIDE DEF j
  <2> QED
    BY <1>0, <2>1, <2>2, PlainTask DEF ScanPath
<1>2. ASSUME NEW u \in Uris,
             Become("worker", "source", [NoJob EXCEPT !.op = "publish", !.uri = u,
               !.gen = generation, !.notify = TRUE])
      PROVE  AllPlaced'
  <2> DEFINE j == [NoJob EXCEPT !.op = "publish", !.uri = u, !.gen = generation,
                                !.notify = TRUE]
  <2>1. j.op = "publish" /\ j.todo = {} /\ j.gen = generation
    BY DEF NoJob
  <2>2. Become("worker", "source", j)
    BY <1>2
  <2> HIDE DEF j
  <2> QED
    BY <1>0, <2>1, <2>2, PlainTask DEF ScanPath
<1>3. CASE PickDirty
  BY <1>1, <1>3 DEF PickDirty, TypeOK
<1>4. CASE PickBackground
  BY <1>2, <1>4 DEF PickBackground, TypeOK
<1>5. CASE PickPoll
  <2> DEFINE j == [NoJob EXCEPT !.op = "poll"]
  <2>1. /\ j.op = "poll" /\ j.uri = None /\ j.todo = {} /\ j.uris = {} /\ j.gen = 0
    BY DEF NoJob
  <2>2. Become("worker", "poll", j)
    BY <1>5 DEF PickPoll
  <2> HIDE DEF j
  <2> QED
    BY <1>0, <2>1, <2>2, FreshTask DEF ScanPath, EditOps
<1>6. CASE PollScan
  <2> DEFINE m == job["worker"]
             j == [m EXCEPT !.stamps = FileStamps]
  <2>1. Become("worker", "polllock", j) /\ pc["worker"] = "poll"
    BY <1>6 DEF PollScan
  <2>2. SameTask(j, m) /\ j.todo = m.todo /\ j.uris = m.uris /\ j.scope = m.scope
    BY <1>0 DEF Jobs, SameTask, TypeOK
  <2> HIDE DEF j
  <2>3. /\ m.todo = {} /\ m.uris \in SUBSET Uris
        /\ m.gen <= generation'
        /\ m.op \in {"watch", "poll"} => m.uri = None
        /\ m.op \notin EditOps
    BY <1>0, <2>1 DEF Placed, TypeOK, Jobs
  <2>4. SameTask(j, m) /\ j.todo = {} /\ j.op \notin EditOps
    BY <2>2, <2>3 DEF SameTask
  <2> QED
    BY <1>0, <2>1, <2>3, <2>4, FreshTask DEF ScanPath, EditOps, SameTask
<1>7. CASE PollLock
  <2> DEFINE seen == job["worker"].stamps
             changed == {u \in Uris : seen[u] # stamps[u]} \ open
             j == [NoJob EXCEPT !.op = "poll", !.uris = changed, !.todo = changed]
  <2>1. Return("worker") \/ Become("worker", "begin", j)
    BY <1>7 DEF PollLock
  <2>2. /\ j.op = "poll" /\ j.uri = None /\ j.uris = changed /\ j.todo = changed
        /\ j.gen = 0
    BY DEF NoJob
  <2> HIDE DEF j, changed
  <2>3. CASE Return("worker")
    BY <1>0, <2>3, NoJobFields, PlainTask DEF Return, ScanPath
  <2>4. CASE Become("worker", "begin", j)
    BY <1>0, <2>2, <2>4, FreshTask DEF ScanPath, EditOps
  <2> QED
    BY <2>1, <2>3, <2>4
<1>8. CASE WorkerExit
  <2>1. pc["worker"] = "idle" /\ Goto("worker", "exited")
    BY <1>8 DEF WorkerExit
  <2>2. job["worker"].todo = {}
    BY <1>0, <2>1 DEF Placed
  <2> QED
    BY <1>0, <2>1, <2>2, GotoAt, OldTasks DEF ScanPath
<1> QED
  BY <1>3, <1>4, <1>5, <1>6, <1>7, <1>8 DEF WorkerStep

LEMMA TasksBridge ==
  ASSUME TypeOK, AllPlaced, BridgeStep \/ BridgeState, TypeOK'
  PROVE  AllPlaced'
<1>0. /\ "bridge" \in Threads /\ generation' = generation /\ generation' \in Nat
      /\ 0 <= generation' /\ generation <= generation' /\ Placed("bridge")
  <2>1. generation' = generation
    BY DEF BridgeStep, BridgeState, EngineNotice, BridgeDrop,
         BridgeDone, BridgeExit, BridgeTake, coordinator, queues
  <2>2. generation \in Nat /\ "bridge" \in Threads
    BY DEF TypeOK, Threads
  <2> QED
    BY <2>1, <2>2 DEF AllPlaced
<1>1. CASE \E label \in {"idle", "exited"} : Become("bridge", label, NoJob)
  BY <1>0, <1>1, NoJobFields, PlainTask DEF ScanPath
<1>2. ASSUME NEW u \in Uris, BridgeTake(u) PROVE AllPlaced'
  <2> DEFINE j == [NoJob EXCEPT !.op = "publish", !.uri = u, !.gen = bdocs[u].rev,
                                !.text = bdocs[u].text, !.notify = TRUE]
  <2>1. j.op = "publish" /\ j.todo = {}
    BY DEF NoJob
  <2>2. Become("bridge", "busy", j)
    BY <1>2 DEF BridgeTake
  <2> HIDE DEF j
  <2> QED
    BY <1>0, <2>1, <2>2, PlainTask DEF ScanPath
<1>3. CASE BridgeDone
  <2> DEFINE m == job["bridge"]
             items == EngineItems(m.text)
             j == [m EXCEPT !.items = items]
  <2>1. (Become("bridge", "version", j) \/ Return("bridge")) /\ pc["bridge"] = "busy"
    BY <1>3 DEF BridgeDone
  <2> HIDE DEF items
  <2>2. SameTask(j, m) /\ j.todo = m.todo /\ j.uris = m.uris /\ j.scope = m.scope
    BY <1>0 DEF Jobs, SameTask, TypeOK
  <2> HIDE DEF j
  <2>3. /\ m.todo = {} /\ m.op \notin EditOps
        /\ m.op \in {"watch", "poll"} => m.uri = None
    BY <1>0, <2>1 DEF Placed
  <2>4. j.todo = {} /\ j.op = m.op /\ j.uri = m.uri
    BY <2>2, <2>3 DEF SameTask
  <2>5. CASE Become("bridge", "version", j)
    BY <1>0, <2>3, <2>4, <2>5, FreshTask DEF ScanPath, EditOps
  <2> QED
    BY <1>1, <2>1, <2>5 DEF Return
<1>4. CASE EngineNotice \/ BridgeDrop \/ BridgeExit
  BY <1>1, <1>4 DEF EngineNotice, BridgeDrop, BridgeExit, Return
<1>5. CASE BridgeState
  <2> DEFINE j == [NoJob EXCEPT !.op = "scan"]
  <2>1. j.op = "scan" /\ j.todo = {}
    BY DEF NoJob
  <2>2. Become("bridge", "stamps", j)
    BY <1>5 DEF BridgeState
  <2> HIDE DEF j
  <2> QED
    BY <1>0, <2>1, <2>2, PlainTask
<1> QED
  BY <1>2, <1>3, <1>4, <1>5 DEF BridgeStep

LEMMA AllPlacedNext ==
  ASSUME TypeOK, EditPlaced, AllPlaced, [Next]_vars, TypeOK'
  PROVE  AllPlaced'
<1>1. CASE UNCHANGED vars \/ Exited \/ \E u \in Uris : DiskWrite(u) \/ WriteBuffer(u)
  <2>1. UNCHANGED <<pc, job, generation>>
    BY <1>1 DEF vars, Exited, DiskWrite, WriteBuffer, coordinator, queues
  <2>2. generation \in Nat /\ generation <= generation
    BY DEF TypeOK
  <2> QED
    BY <2>1, <2>2, OldTasks
<1> QED
  BY <1>1, TasksStep, TasksClient, TasksMain, TasksWorker, TasksBridge DEF Next

LEMMA OpenNext ==
  ASSUME TypeOK, EditPlaced, OpenIsBuffered, [Next]_vars
  PROVE  OpenIsBuffered'
<1>1. CASE open' = open /\ buffers' = buffers
  BY <1>1 DEF OpenIsBuffered
<1>2. ASSUME NEW u \in Uris, DidOpen(u) PROVE OpenIsBuffered'
  <2>1. clock + 1 # Absent
    BY DEF TypeOK, Absent
  <2> QED
    BY <1>2, <2>1 DEF DidOpen, OpenIsBuffered, TypeOK
<1>3. ASSUME NEW u \in Uris, DidChange(u) PROVE OpenIsBuffered'
  <2>1. clock + 1 # Absent
    BY DEF TypeOK, Absent
  <2> QED
    BY <1>3, <2>1 DEF DidChange, OpenIsBuffered, TypeOK
<1>4. ASSUME NEW u \in Uris, DidClose(u) PROVE OpenIsBuffered'
  BY <1>4 DEF DidClose, OpenIsBuffered, TypeOK
<1>5. CASE RejectOpen
  BY <1>5 DEF RejectOpen, OpenIsBuffered
<1>6. CASE Client
  BY <1>1, <1>2, <1>3, <1>4, <1>6
     DEF Client, DidSave, DidChangeWatchedFiles, Reconnect, RequestStop, CancelPull,
         PullReceived, coordinator, queues
<1>7. CASE MainStep
  BY <1>1, <1>5, <1>7
     DEF MainStep, UpdateDocument, CloseDocument, PullRegister, StopBridge,
         JoinBridge, AnswerPending, coordinator, queues
<1>8. CASE WorkerStep \/ PickPoll \/ PickBackground \/ BridgeStep \/ BridgeState
  BY <1>1, <1>8
     DEF WorkerStep, PickDirty, PollScan, PollLock, WorkerExit, PickPoll,
         PickBackground, BridgeStep, BridgeState, EngineNotice, BridgeDrop,
         BridgeDone, BridgeExit, BridgeTake, coordinator, queues
<1>9. CASE \E t \in Threads : Step(t)
  BY <1>1, <1>9
     DEF Step, Begin, Before, RefreshFile, After, Finish, ScanStamps, ScanUris,
         ScheduleFull, ReadSource, Submit, Compute, ReadVersion, Accept,
         coordinator, queues
<1>10. CASE UNCHANGED vars \/ Exited \/ \E u \in Uris : DiskWrite(u) \/ WriteBuffer(u)
  BY <1>1, <1>10 DEF vars, Exited, DiskWrite, WriteBuffer, coordinator, queues
<1> QED
  BY <1>6, <1>7, <1>8, <1>9, <1>10 DEF Next

(* A task's stamps come from its own, from the root, or are blank.         *)
StampsFrom(t) == job'[t].stamps \in {job[t].stamps, FileStamps, NoJob.stamps}

LEMMA StampsTaken ==
  ASSUME TypeOK, EditPlaced, [Next]_vars
  PROVE  \A t \in Threads : StampsFrom(t)
<1>0. "main" \in Threads /\ "worker" \in Threads /\ "bridge" \in Threads
  BY DEF Threads
<1>1. ASSUME NEW t \in Threads, NEW label, NEW j, Become(t, label, j),
             j.stamps \in {job[t].stamps, FileStamps, NoJob.stamps}
      PROVE  \A s \in Threads : StampsFrom(s)
  BY <1>1, BecomeAt DEF StampsFrom
<1>2. ASSUME job' = job PROVE \A s \in Threads : StampsFrom(s)
  BY <1>2 DEF StampsFrom
<1>3. ASSUME NEW t \in Threads, Step(t) PROVE \A s \in Threads : StampsFrom(s)
  <2>1. StampsFrom(t)
    BY <1>3, StepMoves DEF StampsFrom, Moves
  <2> QED
    BY <1>3, <2>1, StepFrame DEF StampsFrom
<1>4. ASSUME NEW t \in Threads, Return(t) PROVE \A s \in Threads : StampsFrom(s)
  BY <1>1, <1>4 DEF Return
<1>5. CASE Client
  <2>1. ASSUME NEW u \in Uris, DidOpen(u) PROVE \A s \in Threads : StampsFrom(s)
    <3>1. [NoJob EXCEPT !.op = "open", !.uri = u, !.uris = {u}, !.text = clock + 1].stamps
            = NoJob.stamps
      BY DEF NoJob
    <3> QED
      BY <1>0, <1>1, <2>1, <3>1 DEF DidOpen
  <2>2. ASSUME NEW u \in Uris, DidChange(u) PROVE \A s \in Threads : StampsFrom(s)
    <3>1. [NoJob EXCEPT !.op = "change", !.uri = u, !.uris = {u}, !.text = clock + 1].stamps
            = NoJob.stamps
      BY DEF NoJob
    <3> QED
      BY <1>0, <1>1, <2>2, <3>1 DEF DidChange
  <2>3. ASSUME NEW u \in Uris, DidClose(u) PROVE \A s \in Threads : StampsFrom(s)
    <3>1. [NoJob EXCEPT !.op = "close", !.uri = u, !.uris = {u}].stamps = NoJob.stamps
      BY DEF NoJob
    <3> QED
      BY <1>0, <1>1, <2>3, <3>1 DEF DidClose
  <2>4. ASSUME NEW S \in SUBSET Uris, DidChangeWatchedFiles(S)
        PROVE  \A s \in Threads : StampsFrom(s)
    <3> DEFINE changed == {u \in S : buffers[u] = Absent}
               j == [NoJob EXCEPT !.op = "watch", !.uris = changed, !.todo = changed]
    <3>1. j.stamps = NoJob.stamps
      BY DEF NoJob
    <3>2. Become("main", "before", j)
      BY <2>4 DEF DidChangeWatchedFiles
    <3> HIDE DEF j
    <3> QED
      BY <1>0, <1>1, <3>1, <3>2
  <2>5. CASE (\E u \in Uris : DidSave(u)) \/ Reconnect
    <3>1. [NoJob EXCEPT !.op = "scan"].stamps = NoJob.stamps
      BY DEF NoJob
    <3> QED
      BY <1>0, <1>1, <2>5, <3>1 DEF DidSave, Reconnect
  <2>6. CASE RequestStop
    <3>1. [NoJob EXCEPT !.op = "stop", !.pulls = pulls].stamps = NoJob.stamps
      BY DEF NoJob
    <3> QED
      BY <1>0, <1>1, <2>6, <3>1 DEF RequestStop
  <2>7. ASSUME NEW p \in PullIds, CancelPull(p) PROVE \A s \in Threads : StampsFrom(s)
    BY <1>2, <2>7 DEF CancelPull
  <2>8. ASSUME NEW p \in PullIds, NEW u \in Uris, PullReceived(p, u)
        PROVE  \A s \in Threads : StampsFrom(s)
    <3>1. [NoJob EXCEPT !.op = "publish", !.uri = u, !.engine = ready,
                        !.pulls = {p}].stamps = NoJob.stamps
      BY DEF NoJob
    <3> QED
      BY <1>0, <1>1, <2>8, <3>1 DEF PullReceived
  <2> QED
    BY <1>5, <2>1, <2>2, <2>3, <2>4, <2>5, <2>6, <2>7, <2>8 DEF Client
<1>6. CASE MainStep
  <2>1. CASE Return("main") \/ UNCHANGED job
    BY <1>0, <1>2, <1>4, <2>1
  <2>2. CASE UpdateDocument
    <3> DEFINE m == job["main"]
               new == [docs EXCEPT ![m.uri] = [text |-> m.text, buffer |-> TRUE]]
               scope == Affected(docs, {m.uri}) \cup Affected(new, {m.uri})
               j == [m EXCEPT !.scope = scope]
    <3>1. Become("main", "finish", j) \/ UNCHANGED job \/ Return("main")
      BY <2>2 DEF UpdateDocument, Goto
    <3> HIDE DEF scope
    <3>2. j.stamps = m.stamps
      BY <1>0 DEF TypeOK, Jobs
    <3> HIDE DEF j
    <3> QED
      BY <1>0, <1>1, <2>1, <3>1, <3>2
  <2>3. CASE AnswerPending
    BY <1>0, <1>1, <2>3 DEF AnswerPending
  <2>4. CASE PullRegister
    <3>1. [NoJob EXCEPT !.op = "publish", !.uri = job["main"].uri,
                        !.gen = generation].stamps = NoJob.stamps
      BY DEF NoJob
    <3> QED
      BY <1>0, <1>1, <2>1, <2>4, <3>1 DEF PullRegister
  <2> QED
    BY <1>6, <2>1, <2>2, <2>3, <2>4
       DEF MainStep, RejectOpen, CloseDocument, StopBridge, JoinBridge, Goto
<1>7. CASE WorkerStep \/ PickPoll \/ PickBackground
  <2>1. CASE PickDirty
    <3>1. PICK u \in dirty : Become("worker", "source", [NoJob EXCEPT !.op = "publish",
                !.uri = u, !.gen = generation, !.force = TRUE, !.notify = TRUE])
      BY <2>1 DEF PickDirty
    <3>2. [NoJob EXCEPT !.op = "publish", !.uri = u, !.gen = generation,
                        !.force = TRUE, !.notify = TRUE].stamps = NoJob.stamps
      BY DEF NoJob
    <3> QED
      BY <1>0, <1>1, <3>1, <3>2
  <2>2. CASE PickBackground
    <3>1. PICK u \in background : Become("worker", "source", [NoJob EXCEPT
                !.op = "publish", !.uri = u, !.gen = generation, !.notify = TRUE])
      BY <2>2 DEF PickBackground
    <3>2. [NoJob EXCEPT !.op = "publish", !.uri = u, !.gen = generation,
                        !.notify = TRUE].stamps = NoJob.stamps
      BY DEF NoJob
    <3> QED
      BY <1>0, <1>1, <3>1, <3>2
  <2>3. CASE PickPoll
    <3>1. [NoJob EXCEPT !.op = "poll"].stamps = NoJob.stamps
      BY DEF NoJob
    <3> QED
      BY <1>0, <1>1, <2>3, <3>1 DEF PickPoll
  <2>4. CASE PollScan
    <3> DEFINE f == FileStamps
               j == [job["worker"] EXCEPT !.stamps = f]
    <3>1. Become("worker", "polllock", j)
      BY <2>4 DEF PollScan
    <3> HIDE DEF f
    <3>2. j.stamps = f
      BY <1>0 DEF TypeOK, Jobs
    <3> HIDE DEF j
    <3>3. f = FileStamps
      BY DEF f
    <3> QED
      BY <1>0, <1>1, <3>1, <3>2, <3>3
  <2>5. CASE PollLock
    <3> DEFINE changed == {u \in Uris : job["worker"].stamps[u] # stamps[u]} \ open
               j == [NoJob EXCEPT !.op = "poll", !.uris = changed, !.todo = changed]
    <3>1. Return("worker") \/ Become("worker", "begin", j)
      BY <2>5 DEF PollLock
    <3>2. j.stamps = NoJob.stamps
      BY DEF NoJob
    <3> HIDE DEF j
    <3> QED
      BY <1>0, <1>1, <1>4, <3>1, <3>2
  <2>6. CASE WorkerExit
    BY <1>2, <2>6 DEF WorkerExit, Goto
  <2> QED
    BY <1>7, <2>1, <2>2, <2>3, <2>4, <2>5, <2>6 DEF WorkerStep
<1>8. CASE BridgeStep \/ BridgeState
  <2>1. ASSUME NEW u \in Uris, BridgeTake(u) PROVE \A s \in Threads : StampsFrom(s)
    <3>1. [NoJob EXCEPT !.op = "publish", !.uri = u, !.gen = bdocs[u].rev,
                        !.text = bdocs[u].text, !.notify = TRUE].stamps = NoJob.stamps
      BY DEF NoJob
    <3> QED
      BY <1>0, <1>1, <2>1, <3>1 DEF BridgeTake
  <2>2. CASE BridgeDone
    <3> DEFINE items == EngineItems(job["bridge"].text)
               j == [job["bridge"] EXCEPT !.items = items]
    <3>1. Become("bridge", "version", j) \/ Return("bridge")
      BY <2>2 DEF BridgeDone
    <3> HIDE DEF items
    <3>2. j.stamps = job["bridge"].stamps
      BY <1>0 DEF TypeOK, Jobs
    <3> HIDE DEF j
    <3> QED
      BY <1>0, <1>1, <1>4, <3>1, <3>2
  <2>3. CASE EngineNotice \/ BridgeDrop \/ BridgeExit
    BY <1>0, <1>1, <1>4, <2>3 DEF EngineNotice, BridgeDrop, BridgeExit
  <2>4. CASE BridgeState
    <3>1. [NoJob EXCEPT !.op = "scan"].stamps = NoJob.stamps
      BY DEF NoJob
    <3> QED
      BY <1>0, <1>1, <2>4, <3>1 DEF BridgeState
  <2> QED
    BY <1>8, <2>1, <2>2, <2>3, <2>4 DEF BridgeStep
<1>9. CASE UNCHANGED vars \/ Exited \/ \E u \in Uris : DiskWrite(u) \/ WriteBuffer(u)
  BY <1>2, <1>9 DEF vars, Exited, DiskWrite, WriteBuffer
<1> QED
  BY <1>3, <1>5, <1>6, <1>7, <1>8, <1>9 DEF Next

(***************************************************************************)
(* Which steps change the disk, the stamps and the index.                  *)
(***************************************************************************)
LEMMA Frames ==
  ASSUME [Next]_vars
  PROVE  /\ \/ disk' = disk /\ clock' \in {clock, clock + 1}
            \/ \E u \in Uris : DiskWrite(u) \/ WriteBuffer(u)
         /\ \/ stamps' = stamps /\ polling' = polling
            \/ PollLock
            \/ FullScan
         /\ \/ docs' = docs
            \/ UpdateDocument \/ CloseDocument
            \/ \E t \in Threads : RefreshFile(t)
<1>1. CASE Client
  BY <1>1 DEF Client, DidOpen, DidChange, DidClose, DidSave, DidChangeWatchedFiles,
     Reconnect, RequestStop, CancelPull, PullReceived, coordinator, files
<1>2. CASE MainStep
  BY <1>2 DEF MainStep, UpdateDocument, RejectOpen, CloseDocument, PullRegister,
     StopBridge, JoinBridge, AnswerPending, coordinator, files
<1>3. CASE WorkerStep \/ PickPoll \/ PickBackground
  BY <1>3 DEF WorkerStep, PickDirty, PollScan, PollLock, WorkerExit, PickPoll,
     PickBackground, coordinator, files
<1>4. CASE BridgeStep \/ BridgeState
  BY <1>4 DEF BridgeStep, BridgeState, EngineNotice, BridgeDrop, BridgeDone,
     BridgeExit, BridgeTake, coordinator, files
<1>5. ASSUME NEW t \in Threads, Step(t)
      PROVE  /\ disk' = disk /\ clock' = clock
             /\ (stamps' = stamps /\ polling' = polling) \/ ScheduleFull(t)
             /\ docs' = docs \/ RefreshFile(t)
  BY <1>5 DEF Step, Begin, Before, RefreshFile, After, Finish, ScanStamps, ScanUris,
     ScheduleFull, ReadSource, Submit, Compute, ReadVersion, Accept, coordinator, files
<1>6. CASE UNCHANGED vars \/ Exited \/ \E u \in Uris : DiskWrite(u) \/ WriteBuffer(u)
  BY <1>6 DEF vars, Exited, DiskWrite, WriteBuffer, coordinator, files
<1> QED
  BY <1>1, <1>2, <1>3, <1>4, <1>5, <1>6 DEF Next, FullScan

LEMMA BuffersFrom ==
  ASSUME [Next]_vars
  PROVE  \/ buffers' = buffers
         \/ \E u \in Uris : \/ DidOpen(u) \/ DidChange(u)
                          \/ DidClose(u)
<1>1. CASE Client
  BY <1>1 DEF Client, DidSave, DidChangeWatchedFiles, Reconnect, RequestStop,
     CancelPull, PullReceived
<1>2. CASE MainStep
  BY <1>2 DEF MainStep, UpdateDocument, RejectOpen, CloseDocument, PullRegister,
     StopBridge, JoinBridge, AnswerPending
<1>3. CASE WorkerStep \/ PickPoll \/ PickBackground \/ BridgeStep \/ BridgeState
  BY <1>3 DEF WorkerStep, PickDirty, PollScan, PollLock, WorkerExit, PickPoll,
     PickBackground, BridgeStep, BridgeState, EngineNotice, BridgeDrop, BridgeDone,
     BridgeExit, BridgeTake
<1>4. CASE \E t \in Threads : Step(t)
  BY <1>4 DEF Step, Begin, Before, RefreshFile, After, Finish, ScanStamps, ScanUris,
     ScheduleFull, ReadSource, Submit, Compute, ReadVersion, Accept
<1>5. CASE UNCHANGED vars \/ Exited \/ \E u \in Uris : DiskWrite(u) \/ WriteBuffer(u)
  BY <1>5 DEF vars, Exited, DiskWrite, WriteBuffer
<1> QED
  BY <1>1, <1>2, <1>3, <1>4, <1>5 DEF Next

LEMMA StampedNext ==
  ASSUME TypeOK, EditPlaced, Stamped, [Next]_vars, TypeOK'
  PROVE  Stamped'
<1>0. clock \in Nat /\ clock' \in Nat
  BY DEF TypeOK
<1>1. clock <= clock' /\ 0 <= clock'
  <2>1. CASE \E u \in Uris : DiskWrite(u) \/ WriteBuffer(u)
    BY <1>0, <2>1 DEF DiskWrite, WriteBuffer
  <2> QED
    BY <1>0, <2>1, Frames
<1>2. \A n \in Nat : n <= clock => n <= clock'
  BY <1>0, <1>1
<1>3. /\ \A u \in Uris : disk[u] \in Nat /\ disk[u] <= clock'
      /\ \A u \in Uris : stamps[u] \in Nat /\ stamps[u] <= clock'
      /\ \A t \in Threads : \A u \in Uris : job[t].stamps[u] \in Nat
                                            /\ job[t].stamps[u] <= clock'
  <2>1. /\ \A u \in Uris : disk[u] \in Nat
        /\ \A u \in Uris : stamps[u] \in Nat
        /\ \A t \in Threads : \A u \in Uris : job[t].stamps[u] \in Nat
    BY DEF TypeOK, Jobs, Texts
  <2> QED
    BY <1>2, <2>1 DEF Stamped
<1>7. \A u \in Uris : buffers[u] \in Nat /\ buffers[u] <= clock'
  BY <1>2 DEF Stamped, TypeOK, Texts
<1>4. ASSUME NEW u \in Uris PROVE disk'[u] <= clock'
  <2>1. ASSUME NEW v \in Uris, DiskWrite(v) PROVE disk'[u] <= clock'
    <3>1. PICK x \in {Absent, clock + 1} : disk' = [disk EXCEPT ![v] = x]
      BY <2>1 DEF DiskWrite
    <3>2. x <= clock' /\ disk'[u] \in {x, disk[u]}
      BY <1>0, <1>1, <2>1, <3>1 DEF DiskWrite, Absent, TypeOK
    <3> QED
      BY <1>3, <3>2
  <2>2. ASSUME NEW v \in Uris, WriteBuffer(v) PROVE disk'[u] <= clock'
    <3>1. disk'[u] \in {buffers[v], disk[u]}
      BY <2>2 DEF WriteBuffer, TypeOK
    <3> QED
      BY <1>3, <1>7, <3>1
  <2> QED
    BY <1>3, <2>1, <2>2, Frames
<1>5. ASSUME NEW u \in Uris PROVE stamps'[u] <= clock'
  <2>1. stamps' = stamps \/ \E t \in Threads : stamps' = job[t].stamps
    BY Frames DEF PollLock, FullScan, ScheduleFull, Threads
  <2> QED
    BY <1>3, <2>1
<1>6. ASSUME NEW t \in Threads, NEW u \in Uris PROVE job'[t].stamps[u] <= clock'
  <2>1. NoJob.stamps[u] = 0
    BY DEF NoJob, Absent
  <2>2. FileStamps[u] <= clock'
    BY <1>1, <1>3 DEF FileStamps, Absent
  <2> QED
    BY <1>1, <1>3, <2>1, <2>2, StampsTaken DEF StampsFrom
<1>8. ASSUME NEW u \in Uris PROVE buffers'[u] <= clock'
  <2>1. ASSUME NEW v \in Uris, DidOpen(v) \/ DidChange(v)
        PROVE  buffers'[u] <= clock'
    <3>1. buffers'[u] \in {clock + 1, buffers[u]} /\ clock' = clock + 1
      BY <2>1 DEF DidOpen, DidChange, TypeOK
    <3> QED
      BY <1>0, <1>7, <3>1
  <2>2. ASSUME NEW v \in Uris, DidClose(v) PROVE buffers'[u] <= clock'
    <3>1. buffers'[u] \in {0, buffers[u]}
      BY <2>2 DEF DidClose, TypeOK, Absent
    <3> QED
      BY <1>1, <1>7, <3>1
  <2> QED
    BY <1>7, <2>1, <2>2, BuffersFrom
<1> QED
  BY <1>4, <1>5, <1>6, <1>8 DEF Stamped

(* The poll's stamps and the worker's batch come from the root.            *)
LEMMA BridgeTodo ==
  ASSUME TypeOK, [Next]_vars, NEW u \in job'["bridge"].todo
  PROVE  u \in job["bridge"].todo
<1>0. "main" \in Threads /\ "worker" \in Threads /\ "bridge" \in Threads
  BY DEF Threads
<1>1. CASE Client \/ MainStep
  <2>1. \/ \E label : Goto("main", label) \/ \E j : Become("main", label, j)
        \/ UNCHANGED job
    BY <1>1 DEF Client, DidOpen, DidChange, DidClose, DidSave, DidChangeWatchedFiles,
       Reconnect, RequestStop, CancelPull, PullReceived, MainStep, UpdateDocument,
       RejectOpen, CloseDocument, PullRegister, StopBridge, JoinBridge, AnswerPending,
       Return
  <2> QED
    BY <1>0, <2>1, BecomeAt, GotoAt
<1>2. CASE WorkerStep \/ PickPoll \/ PickBackground
  <2>1. \E label : Goto("worker", label) \/ \E j : Become("worker", label, j)
    BY <1>2 DEF WorkerStep, PickDirty, PollScan, PollLock, WorkerExit, PickPoll,
       PickBackground, Return
  <2> QED
    BY <1>0, <2>1, BecomeAt, GotoAt
<1>3. ASSUME NEW t \in Threads, Step(t) PROVE u \in job["bridge"].todo
  <2>1. CASE t = "bridge"
    BY <1>3, <2>1, StepMoves, NoJobFields DEF Moves
  <2> QED
    BY <1>0, <1>3, <2>1, StepFrame
<1>4. ASSUME NEW v \in Uris, BridgeTake(v) PROVE u \in job["bridge"].todo
  <2> DEFINE j == [NoJob EXCEPT !.op = "publish", !.uri = v, !.gen = bdocs[v].rev,
                                !.text = bdocs[v].text, !.notify = TRUE]
  <2>1. j.todo = {}
    BY DEF NoJob
  <2>2. Become("bridge", "busy", j)
    BY <1>4 DEF BridgeTake
  <2> HIDE DEF j
  <2> QED
    BY <1>0, <2>1, <2>2, BecomeAt
<1>5. CASE BridgeDone
  <2> DEFINE items == EngineItems(job["bridge"].text)
             j == [job["bridge"] EXCEPT !.items = items]
  <2>1. Become("bridge", "version", j) \/ Return("bridge")
    BY <1>5 DEF BridgeDone
  <2> HIDE DEF items
  <2>2. j.todo = job["bridge"].todo
    BY <1>0 DEF TypeOK, Jobs
  <2> HIDE DEF j
  <2> QED
    BY <1>0, <2>1, <2>2, BecomeAt, ReturnAt, NoJobFields
<1>6. CASE EngineNotice \/ BridgeDrop \/ BridgeExit \/ BridgeState
  <2>1. [NoJob EXCEPT !.op = "scan"].todo = {}
    BY DEF NoJob
  <2>2. \E label, j : Become("bridge", label, j) /\ j.todo = {}
    BY <1>6, <2>1, NoJobFields
       DEF EngineNotice, BridgeDrop, BridgeExit, BridgeState, Return
  <2> QED
    BY <1>0, <2>2, BecomeAt
<1>7. CASE UNCHANGED vars \/ Exited \/ \E v \in Uris : DiskWrite(v) \/ WriteBuffer(v)
  BY <1>7 DEF vars, Exited, DiskWrite, WriteBuffer
<1> QED
  BY <1>1, <1>2, <1>3, <1>4, <1>5, <1>6, <1>7 DEF Next, BridgeStep

LEMMA WorkerTodo ==
  ASSUME TypeOK, [Next]_vars, NEW u \in job'["worker"].todo
  PROVE  u \in job["worker"].todo \/ job["worker"].stamps[u] # stamps[u]
<1>0. "main" \in Threads /\ "worker" \in Threads /\ "bridge" \in Threads
  BY DEF Threads
<1>1. CASE Client \/ MainStep
  <2>1. \/ \E label : Goto("main", label) \/ \E j : Become("main", label, j)
        \/ UNCHANGED job
    BY <1>1 DEF Client, DidOpen, DidChange, DidClose, DidSave, DidChangeWatchedFiles,
       Reconnect, RequestStop, CancelPull, PullReceived, MainStep, UpdateDocument,
       RejectOpen, CloseDocument, PullRegister, StopBridge, JoinBridge, AnswerPending,
       Return
  <2> QED
    BY <1>0, <2>1, BecomeAt, GotoAt
<1>2. CASE BridgeStep \/ BridgeState
  <2>1. \E label, j : Become("bridge", label, j)
    BY <1>2 DEF BridgeStep, BridgeState, EngineNotice, BridgeDrop, BridgeDone,
       BridgeExit, BridgeTake, Return
  <2> QED
    BY <1>0, <2>1, BecomeAt
<1>3. ASSUME NEW t \in Threads, Step(t) PROVE u \in job["worker"].todo
  <2>1. CASE t = "worker"
    BY <1>3, <2>1, StepMoves, NoJobFields DEF Moves
  <2> QED
    BY <1>0, <1>3, <2>1, StepFrame
<1>4. CASE PickDirty \/ PickBackground \/ PickPoll
  <2>1. ASSUME NEW v, NEW b PROVE
          [NoJob EXCEPT !.op = "publish", !.uri = v, !.gen = generation,
                        !.force = b, !.notify = TRUE].todo = {}
    BY DEF NoJob
  <2>2. ASSUME NEW v PROVE
          [NoJob EXCEPT !.op = "publish", !.uri = v, !.gen = generation,
                        !.notify = TRUE].todo = {}
    BY DEF NoJob
  <2>3. [NoJob EXCEPT !.op = "poll"].todo = {}
    BY DEF NoJob
  <2>4. \E label, j : Become("worker", label, j) /\ j.todo = {}
    BY <1>4, <2>1, <2>2, <2>3 DEF PickDirty, PickBackground, PickPoll
  <2> QED
    BY <1>0, <2>4, BecomeAt
<1>5. CASE PollScan
  <2> DEFINE f == FileStamps
             j == [job["worker"] EXCEPT !.stamps = f]
  <2>1. Become("worker", "polllock", j)
    BY <1>5 DEF PollScan
  <2> HIDE DEF f
  <2>2. j.todo = job["worker"].todo
    BY <1>0 DEF TypeOK, Jobs
  <2> HIDE DEF j
  <2> QED
    BY <1>0, <2>1, <2>2, BecomeAt
<1>6. CASE PollLock
  <2> DEFINE changed == {v \in Uris : job["worker"].stamps[v] # stamps[v]} \ open
             j == [NoJob EXCEPT !.op = "poll", !.uris = changed, !.todo = changed]
  <2>1. Return("worker") \/ Become("worker", "begin", j)
    BY <1>6 DEF PollLock
  <2>2. j.todo = changed
    BY DEF NoJob
  <2> HIDE DEF j
  <2>3. job'["worker"].todo \subseteq changed
    BY <1>0, <2>1, <2>2, BecomeAt, ReturnAt, NoJobFields
  <2> QED
    BY <2>3
<1>7. CASE WorkerExit
  BY <1>7 DEF WorkerExit, Goto
<1>8. CASE UNCHANGED vars \/ Exited \/ \E v \in Uris : DiskWrite(v) \/ WriteBuffer(v)
  BY <1>8 DEF vars, Exited, DiskWrite, WriteBuffer
<1> QED
  BY <1>1, <1>2, <1>3, <1>4, <1>5, <1>6, <1>7, <1>8 DEF Next, WorkerStep

LEMMA InRootNext ==
  ASSUME TypeOK, EditPlaced, InRoot, [Next]_vars
  PROVE  InRoot'
<1>0. Outside \subseteq Uris
  BY BoundsAssumption
<1>1. ASSUME NEW u \in Outside PROVE stamps'[u] = Absent
  <2>1. stamps' = stamps \/ \E t \in Threads : stamps' = job[t].stamps
    BY Frames DEF PollLock, FullScan, ScheduleFull, Threads
  <2> QED
    BY <2>1 DEF InRoot
<1>2. ASSUME NEW u \in Outside, NEW t \in Threads PROVE job'[t].stamps[u] = Absent
  <2>1. NoJob.stamps[u] = Absent /\ FileStamps[u] = Absent
    BY <1>0 DEF NoJob, FileStamps
  <2> QED
    BY <2>1, StampsTaken DEF StampsFrom, InRoot
<1>3. job'["worker"].todo \cap Outside = {} /\ job'["bridge"].todo = {}
  BY WorkerTodo, BridgeTodo DEF InRoot, Threads
<1> QED
  BY <1>1, <1>2, <1>3 DEF InRoot

LEMMA InitKept == Init => Kept
<1> SUFFICES ASSUME Init PROVE Kept
  OBVIOUS
<1>1. PICK d \in [Uris -> {Absent, 1}] : disk = d
  BY DEF Init
<1>2. \A t \in Threads : \/ job[t] = NoJob /\ pc[t] = "idle"
                         \/ job[t] = [NoJob EXCEPT !.op = "scan"]
  BY DEF Init, Threads
<1>3. \A t \in Threads : /\ job[t].todo = {} /\ job[t].gen = 0 /\ ~job[t].notify
                         /\ job[t].op \in {"none", "scan"}
                         /\ pc[t] \in ScanPath => job[t].op = "scan"
                         /\ job[t].stamps = [u \in Uris |-> Absent]
  <2>1. LET j == [NoJob EXCEPT !.op = "scan"]
        IN  j.todo = {} /\ j.gen = 0 /\ ~j.notify /\ j.op = "scan"
            /\ j.stamps = [u \in Uris |-> Absent]
    BY DEF NoJob
  <2> QED
    BY <1>2, <2>1, NoJobFields DEF ScanPath
<1>4. Tasks
  <2>1. AllPlaced
    BY <1>3 DEF Init, AllPlaced, Placed, EditOps
  <2>2. Outside \subseteq Uris /\ "worker" \in Threads /\ "bridge" \in Threads
    BY BoundsAssumption DEF Threads
  <2> QED
    BY <1>3, <2>1, <2>2 DEF Init, Tasks, InRoot
<1>5. OpenIsBuffered
  BY DEF Init, OpenIsBuffered
<1>6. Stamped
  <2>1. clock = 1 /\ \A u \in Uris : /\ disk[u] \in {0, 1} /\ stamps[u] = 0
                                   /\ buffers[u] = 0
    BY <1>1 DEF Init, Absent
  <2>2. \A t \in Threads : \A u \in Uris : job[t].stamps[u] = 0
    BY <1>3 DEF Absent
  <2> QED
    BY <2>1, <2>2 DEF Stamped
<1> QED
  BY <1>4, <1>5, <1>6 DEF Kept

LEMMA KeptNext == IInv /\ Kept /\ [Next]_vars => IInv' /\ Kept'
<1>1. IInv /\ [Next]_vars => IInv'
  BY IInvNext
<1> QED
  BY <1>1, AllPlacedNext, InRootNext, OpenNext, StampedNext DEF IInv, Kept, Tasks

(* What every thread holds, the open set and the stamps, in every          *)
(* behaviour: the ground the two theorems below stand on.                  *)
THEOREM KeptInductive == Spec => [](IInv /\ Kept)
<1>1. Init => IInv /\ Kept
  BY InitIInv, InitKept
<1> QED
  BY <1>1, KeptNext, PTL DEF Spec

(***************************************************************************)
(* No file change is hidden.                                               *)
(***************************************************************************)

(* A thread on its way through an update, a scan or a publication is moved *)
(* by itself only.                                                         *)
Underway == {"begin", "before", "apply", "after", "finish"} \cup Publish \cup ScanPath

LEMMA OnlyItself ==
  ASSUME TypeOK, [Next]_vars, NEW t \in Threads, pc[t] \in Underway
  PROVE  \/ pc'[t] = pc[t] /\ job'[t] = job[t]
         \/ Step(t)
         \/ t = "main" /\ (UpdateDocument \/ CloseDocument)
<1>0. "main" \in Threads /\ "worker" \in Threads /\ "bridge" \in Threads
  BY DEF Threads
<1>1. ASSUME NEW s \in Threads, Step(s)
      PROVE  Step(t) \/ (pc'[t] = pc[t] /\ job'[t] = job[t])
  BY <1>1, StepFrame
<1>2. ASSUME NEW s \in Threads, pc[s] \notin Underway,
             \E label : Goto(s, label) \/ \E j : Become(s, label, j)
      PROVE  pc'[t] = pc[t] /\ job'[t] = job[t]
  BY <1>2, BecomeAt, GotoAt
<1>3. CASE Client
  <2>1. pc["main"] \notin Underway
    BY <1>3 DEF Client, DidOpen, DidChange, DidClose, DidSave, DidChangeWatchedFiles,
       Reconnect, RequestStop, CancelPull, PullReceived, Message, MainReady,
       Underway, Publish, ScanPath
  <2>2. \/ \E label : Goto("main", label) \/ \E j : Become("main", label, j)
        \/ UNCHANGED <<pc, job>>
    BY <1>3 DEF Client, DidOpen, DidChange, DidClose, DidSave, DidChangeWatchedFiles,
       Reconnect, RequestStop, CancelPull, PullReceived
  <2> QED
    BY <1>0, <1>2, <2>1, <2>2
<1>4. CASE MainStep
  <2>1. CASE UpdateDocument \/ CloseDocument
    <3>1. CASE t = "main"
      BY <2>1, <3>1
    <3>2. CASE t # "main"
      <4>1. \E label : Goto("main", label) \/ \E j : Become("main", label, j)
        BY <2>1 DEF UpdateDocument, CloseDocument, Return
      <4> QED
        BY <1>0, <3>2, <4>1, BecomeAt, GotoAt
    <3> QED
      BY <3>1, <3>2
  <2>2. CASE ~(UpdateDocument \/ CloseDocument)
    <3>1. pc["main"] \notin Underway
      BY <1>4, <2>2 DEF MainStep, RejectOpen, PullRegister, StopBridge, JoinBridge,
         AnswerPending, Underway, Publish, ScanPath
    <3>2. \E label : Goto("main", label) \/ \E j : Become("main", label, j)
      BY <1>4, <2>2 DEF MainStep, RejectOpen, PullRegister, StopBridge, JoinBridge,
         AnswerPending, Return
    <3> QED
      BY <1>0, <1>2, <3>1, <3>2
  <2> QED
    BY <2>1, <2>2
<1>5. CASE WorkerStep \/ PickPoll \/ PickBackground
  <2>1. pc["worker"] \notin Underway
    BY <1>5 DEF WorkerStep, PickDirty, PollScan, PollLock, WorkerExit, PickPoll,
       PickBackground, Underway, Publish, ScanPath
  <2>2. \E label : Goto("worker", label) \/ \E j : Become("worker", label, j)
    BY <1>5 DEF WorkerStep, PickDirty, PollScan, PollLock, WorkerExit, PickPoll,
       PickBackground, Return
  <2> QED
    BY <1>0, <1>2, <2>1, <2>2
<1>6. CASE BridgeStep \/ BridgeState
  <2>1. pc["bridge"] \notin Underway
    BY <1>6 DEF BridgeStep, BridgeState, EngineNotice, BridgeDrop, BridgeDone,
       BridgeExit, BridgeTake, Underway, Publish, ScanPath
  <2>2. \E label : Goto("bridge", label) \/ \E j : Become("bridge", label, j)
    BY <1>6 DEF BridgeStep, BridgeState, EngineNotice, BridgeDrop, BridgeDone,
       BridgeExit, BridgeTake, Return
  <2> QED
    BY <1>0, <1>2, <2>1, <2>2
<1>7. CASE UNCHANGED vars \/ Exited \/ \E u \in Uris : DiskWrite(u) \/ WriteBuffer(u)
  BY <1>7 DEF vars, Exited, DiskWrite, WriteBuffer
<1> QED
  BY <1>1, <1>3, <1>4, <1>5, <1>6, <1>7 DEF Next

(* A refresh that is over has put the file, or a buffer, into the index.   *)
LEMMA RefreshEnds ==
  ASSUME IInv, Tasks, [Next]_vars, NEW u \in Uris \ Outside,
         Refreshing(u), ~Refreshing(u)'
  PROVE  docs'[u].buffer \/ docs'[u].text = disk[u]
<1>0. TypeOK /\ EditPlaced /\ "main" \in Threads
  BY DEF IInv, Threads
<1>1. ASSUME NEW t \in Threads, u \in job[t].todo
      PROVE  docs'[u].buffer \/ docs'[u].text = disk[u]
  <2>1. /\ pc[t] \in {"begin", "before", "apply"} /\ job[t].op \in {"watch", "poll"}
        /\ u \notin job'[t].todo
    BY <1>1 DEF Tasks, AllPlaced, Placed, Refreshing
  <2>2. Step(t)
    <3>1. job'[t] # job[t]
      BY <1>1, <2>1
    <3>2. t = "main" => ~UpdateDocument /\ ~CloseDocument
      BY <2>1 DEF UpdateDocument, CloseDocument
    <3> QED
      BY <1>0, <2>1, <3>1, <3>2, OnlyItself DEF Underway
  <2>3. Moves(t) /\ RefreshFile(t)
    BY <1>0, <1>1, <2>1, <2>2, StepMoves DEF Moves, Publish, ScanPath
  <2>4. PICK v \in job[t].todo :
           /\ docs' = IF docs[v].buffer THEN docs
                      ELSE [docs EXCEPT ![v] = OnDisk(disk[v])]
           /\ job' = [job EXCEPT ![t].todo = @ \ {v}]
    BY <2>3 DEF RefreshFile
  <2>5. u = v
    BY <1>0, <1>1, <2>1, <2>4 DEF TypeOK, Jobs
  <2> QED
    BY <1>0, <2>4, <2>5 DEF TypeOK, OnDisk
<1>2. CASE pc["main"] \in {"begin", "before", "apply"} /\ job["main"].uri = u
  <2> DEFINE m == job["main"]
  <2>1. m.op \notin {"watch", "poll"}
    BY <1>0, <1>2, NoneAssumption DEF Tasks, AllPlaced, Placed
  <2>2. CASE Step("main")
    <3>1. Moves("main")
      BY <1>0, <1>2, <2>2, StepMoves DEF Publish
    <3>2. ~RefreshFile("main") /\ ~After("main")
      BY <1>2, <2>1 DEF RefreshFile, After
    <3>3. \/ pc'["main"] \in {"before", "apply"}
          \/ pc["main"] = "apply" /\ pc'["main"] = "finish"
      BY <1>2, <3>1, <3>2 DEF Moves, Publish, ScanPath
    <3>4. pc'["main"] # "finish"
      BY <1>0, <1>2, <2>1, <2>2, StepCarries DEF Publish, ScanPath
    <3> QED
      BY <1>2, <3>1, <3>3, <3>4 DEF Moves, SameTask, Refreshing
  <2>3. CASE UpdateDocument
    <3>1. docs' = [docs EXCEPT ![u] = [text |-> m.text, buffer |-> TRUE]]
      BY <1>2, <2>3 DEF UpdateDocument
    <3> QED
      BY <1>0, <3>1 DEF TypeOK
  <2>4. CASE CloseDocument
    <3>1. docs' = [docs EXCEPT ![u] = OnDisk(disk[u])]
      BY <1>2, <2>4 DEF CloseDocument, IInv, Buffered
    <3> QED
      BY <1>0, <3>1 DEF TypeOK, OnDisk
  <2> QED
    BY <1>0, <1>2, <2>2, <2>3, <2>4, OnlyItself DEF Underway, Refreshing
<1> QED
  BY <1>1, <1>2 DEF Refreshing

(* Whatever replaces a document in the index is its file or a buffer.      *)
LEMMA Replaced ==
  ASSUME IInv, Tasks, [Next]_vars, NEW u \in Uris, docs'[u] # docs[u]
  PROVE  docs'[u].buffer \/ docs'[u].text = disk[u]
<1>0. TypeOK
  BY DEF IInv
<1>1. CASE UpdateDocument
  <2> DEFINE e == [text |-> job["main"].text, buffer |-> TRUE]
  <2>1. docs' = docs \/ docs' = [docs EXCEPT ![job["main"].uri] = e]
    BY <1>1 DEF UpdateDocument
  <2>2. docs'[u] = e
    BY <1>0, <2>1 DEF TypeOK
  <2> QED
    BY <2>2
<1>2. CASE CloseDocument
  <2>1. docs' = docs \/ docs' = [docs EXCEPT ![job["main"].uri] = OnDisk(disk[job["main"].uri])]
    BY <1>2 DEF CloseDocument
  <2>2. docs'[u] = OnDisk(disk[u])
    BY <1>0, <2>1 DEF TypeOK
  <2> QED
    BY <2>2 DEF OnDisk
<1>3. ASSUME NEW t \in Threads, RefreshFile(t)
      PROVE  docs'[u].buffer \/ docs'[u].text = disk[u]
  <2>1. PICK v \in job[t].todo :
           docs' = IF docs[v].buffer THEN docs
                   ELSE [docs EXCEPT ![v] = OnDisk(disk[v])]
    BY <1>3 DEF RefreshFile
  <2>2. docs'[u] = OnDisk(disk[u])
    BY <1>0, <2>1 DEF TypeOK
  <2> QED
    BY <2>2 DEF OnDisk
<1> QED
  BY <1>1, <1>2, <1>3, Frames

(* The poll leaves out a changed file only if an editor's buffer stands in *)
(* for it, or is on its way to.                                            *)
LEMMA PollSees ==
  ASSUME IInv, Kept, PollLock, NEW u \in Uris \ Outside, stamps'[u] # stamps[u]
  PROVE  Refreshing(u)' \/ docs'[u].buffer
<1>0. /\ TypeOK /\ "worker" \in Threads /\ "main" \in Threads \ {"worker"}
      /\ docs' = docs /\ buffers' = buffers
  BY DEF IInv, Threads, PollLock, files
<1> DEFINE changed == {v \in Uris : job["worker"].stamps[v] # stamps[v]} \ open
           j == [NoJob EXCEPT !.op = "poll", !.uris = changed, !.todo = changed]
<1>1. stamps' = job["worker"].stamps
      /\ IF changed = {} THEN Return("worker") ELSE Become("worker", "begin", j)
  BY DEF PollLock
<1>2. CASE u \notin open
  <2>1. u \in changed
    BY <1>1, <1>2
  <2>2. j.todo = changed
    BY DEF NoJob
  <2> HIDE DEF j, changed
  <2>3. job'["worker"] = j
    BY <1>0, <1>1, <2>1, BecomeAt
  <2> QED
    BY <1>0, <2>1, <2>2, <2>3 DEF Refreshing
<1>3. CASE u \in open
  <2>1. buffers[u] # Absent
    BY <1>3 DEF Kept, OpenIsBuffered
  <2>2. CASE Agree(u)
    BY <1>0, <2>1, <2>2 DEF Agree
  <2>3. CASE Coming(u)
    <3> HIDE DEF j
    <3>1. pc'["main"] = pc["main"] /\ job'["main"] = job["main"]
      BY <1>0, <1>1, BecomeAt, ReturnAt
    <3> QED
      BY <2>3, <3>1 DEF Coming, Refreshing
  <2> QED
    BY <2>2, <2>3 DEF IInv, BuffersAgree
<1> QED
  BY <1>2, <1>3

LEMMA HideStep ==
  ASSUME IInv, Kept, [Next]_vars, ~FullScan, NEW u \in Uris, Hidden(u)'
  PROVE  Hidden(u)
<1>0. TypeOK /\ Tasks /\ TypeOK'
  BY IInvNext DEF IInv, Kept
<1>1. /\ polling' /\ u \in Uris \ Outside /\ ~docs'[u].buffer
      /\ docs'[u].text # disk'[u] /\ stamps'[u] = disk'[u] /\ disk'[u] # Absent
      /\ ~Refreshing(u)'
  BY DEF Hidden, Overlooked
<1>2. CASE \E v \in Uris : DiskWrite(v) \/ WriteBuffer(v)
  <2>1. PICK v \in Uris : DiskWrite(v) \/ WriteBuffer(v)
    BY <1>2
  <2>2. /\ docs' = docs /\ stamps' = stamps /\ polling' = polling
        /\ pc' = pc /\ job' = job
    BY <2>1 DEF DiskWrite, WriteBuffer, coordinator
  <2>4. ~Refreshing(u)
    BY <1>1, <2>2 DEF Refreshing
  <2>3. disk'[u] = disk[u]
    <3>1. ASSUME DiskWrite(v), u = v PROVE FALSE
      <4>1. PICK x \in {Absent, clock + 1} : disk' = [disk EXCEPT ![v] = x]
        BY <3>1 DEF DiskWrite
      <4>2. disk'[u] = clock + 1
        BY <1>0, <1>1, <3>1, <4>1 DEF TypeOK
      <4>3. stamps[u] <= clock /\ clock \in Nat /\ stamps[u] \in Nat
        BY <1>0 DEF Kept, Stamped, TypeOK, Texts
      <4> QED
        BY <1>1, <2>2, <4>2, <4>3
    <3>2. ASSUME WriteBuffer(v), u = v PROVE FALSE
      <4>1. buffers[u] # Absent /\ ~docs[u].buffer
        BY <1>1, <2>2, <3>2 DEF WriteBuffer
      <4>2. Coming(u)
        <5>1. ~Agree(u)
          BY <4>1 DEF Agree
        <5> QED
          BY <1>1, <5>1 DEF IInv, BuffersAgree
      <4> QED
        BY <2>4, <4>2 DEF Coming, Refreshing
    <3> QED
      BY <1>0, <2>1, <3>1, <3>2 DEF TypeOK, DiskWrite, WriteBuffer
  <2> QED
    BY <1>1, <2>2, <2>3, <2>4 DEF Hidden, Overlooked
<1>3. CASE ~(\E v \in Uris : DiskWrite(v) \/ WriteBuffer(v))
  <2>1. disk' = disk
    BY <1>3, Frames
  <2>2. docs'[u] = docs[u]
    BY <1>0, <1>1, <2>1, Replaced
  <2>3. ~Refreshing(u)
    BY <1>0, <1>1, <2>1, RefreshEnds
  <2>4. stamps'[u] = stamps[u] /\ polling' = polling
    <3>1. CASE PollLock
      BY <1>1, <3>1, PollSees DEF PollLock
    <3> QED
      BY <3>1, Frames
  <2> QED
    BY <1>1, <2>1, <2>2, <2>3, <2>4 DEF Hidden, Overlooked
<1> QED
  BY <1>2, <1>3

(* A change on the disk is never hidden from the next poll by edits,       *)
(* closes, file events or polls, whatever their order: stamps are taken    *)
(* before the files are read, open files are left to their editors, and a  *)
(* close reads its file again.  Only schedule_full takes new stamps        *)
(* without reading anything.                                               *)
THEOREM NothingHidden == Spec => OnlyFullScanHides
<1>1. IInv /\ Kept /\ [Next]_vars
        => [\A u \in Uris : ~Hidden(u) /\ Hidden(u)' => FullScan]_vars
  BY HideStep
<1> QED
  BY <1>1, KeptInductive, PTL DEF Spec, OnlyFullScanHides

(***************************************************************************)
(* Without an engine, nothing is lost.                                     *)
(***************************************************************************)

(* Somebody is going to look at u again.                                   *)
Pending(u) == u \in dirty \cup background \/ \E t \in Threads : Updating(t, u)

(* No engine is configured: the bridge's thread only ever scans.           *)
Alone == /\ ~ready /\ session = 0
         /\ pc["bridge"] \in ScanPath \cup {"idle", "notice", "exited"}

(* What the worker is about to submit or to publish is right, or there is  *)
(* somebody behind it who will look at the document again.                 *)
AtWork == {"submit", "compute", "version", "accept"}
Fresh ==
    LET j == job["worker"] IN
    ~stopping /\ j.gen = generation =>
        /\ pc["worker"] \in AtWork => docs[j.uri].text = j.text \/ Pending(j.uri)
        /\ pc["worker"] \in {"version", "accept"} =>
              j.items = Standalone(docs, j.uri) \/ Pending(j.uri)

(* affected_documents misses no document whose text or whose diagnostics   *)
(* differ, and finds the same ones before and after the change.            *)
LEMMA Dependents ==
  ASSUME NEW d \in [Uris -> Documents], NEW e \in [Uris -> Documents],
         NEW S \in SUBSET Uris, \A v \in Uris \ S : d[v] = e[v], NEW u \in Uris
  PROVE  /\ u \in Affected(d, S) <=> u \in Affected(e, S)
         /\ d[u].text # e[u].text \/ Standalone(d, u) # Standalone(e, u)
              => u \in Affected(e, S)
<1>1. u \in Affected(d, S) <=> u \in Affected(e, S)
  BY DEF Affected
<1>2. ASSUME u \notin Affected(e, S)
      PROVE  d[u].text = e[u].text /\ Standalone(d, u) = Standalone(e, u)
  <2>1. u \notin S /\ d[u] = e[u]
    BY <1>2 DEF Affected
  <2>2. CASE e[u].text = Absent
    BY <2>1, <2>2 DEF Standalone
  <2>3. CASE e[u].text # Absent
    <3>1. Reads[u] \subseteq Uris \ S
      BY <1>2, <2>3, ReadsAssumption DEF Affected
    <3>2. {d[v].text : v \in Reads[u]} = {e[v].text : v \in Reads[u]}
      BY <3>1
    <3> QED
      BY <2>1, <3>2 DEF Standalone
  <2> QED
    BY <2>2, <2>3, <2>1
<1> QED
  BY <1>1, <1>2

LEMMA AffectedGrows ==
  ASSUME NEW d, NEW S, NEW T, S \subseteq T
  PROVE  Affected(d, S) \subseteq Affected(d, T)
  BY DEF Affected

(* Every change of the index is made by an update that will schedule all   *)
(* that it touches.                                                        *)
LEMMA DocsChange ==
  ASSUME IInv, Tasks, [Next]_vars, NEW u \in Uris,
         \/ docs'[u].text # docs[u].text
         \/ Standalone(docs', u) # Standalone(docs, u)
  PROVE  Pending(u)'
<1>0. TypeOK /\ EditPlaced /\ "main" \in Threads /\ docs' # docs
      /\ docs \in [Uris -> Documents] /\ docs' \in [Uris -> Documents]
  <2>1. TypeOK'
    BY IInvNext DEF IInv
  <2> QED
    BY <2>1 DEF IInv, Threads, TypeOK
<1>1. CASE UpdateDocument
  <2> DEFINE m == job["main"]
             new == [docs EXCEPT ![m.uri] = [text |-> m.text, buffer |-> TRUE]]
             scope == Affected(docs, {m.uri}) \cup Affected(new, {m.uri})
             j == [m EXCEPT !.scope = scope]
  <2>1. /\ m.uri \notin Outside /\ docs' = new /\ Become("main", "finish", j)
        /\ m.uri \in Uris /\ m \in Jobs
    BY <1>0, <1>1 DEF UpdateDocument, EditPlaced, TypeOK
  <2>2. \A v \in Uris \ {m.uri} : docs[v] = docs'[v]
    BY <1>0, <2>1
  <2>3. u \in Affected(docs', {m.uri})
    BY <1>0, <2>1, <2>2, Dependents
  <2>4. u \in scope
    BY <2>1, <2>3
  <2> HIDE DEF scope
  <2>5. j.scope = scope /\ j.uri = m.uri
    BY <2>1 DEF Jobs
  <2>8. j.op = m.op
    BY <2>1 DEF Jobs
  <2> HIDE DEF j
  <2>6. pc'["main"] = "finish" /\ job'["main"] = j
    BY <1>0, <2>1, BecomeAt
  <2>7. Updating("main", u)'
    <3>1. j.op = m.op /\ m.op \in {"open", "change"}
      BY <1>1, <2>1, <2>8 DEF UpdateDocument
    <3> QED
      BY <2>1, <2>4, <2>5, <2>6, <3>1 DEF Updating, Refused
  <2> QED
    BY <1>0, <2>7 DEF Pending
<1>2. CASE CloseDocument
  <2> DEFINE m == job["main"]
  <2>1. /\ Goto("main", "after") /\ m.op = "close"
        /\ docs' = [docs EXCEPT ![m.uri] = OnDisk(disk[m.uri])]
    BY <1>0, <1>2 DEF CloseDocument
  <2>2. m.uri \in Uris /\ m.uris = {m.uri}
    BY <1>0, <2>1 DEF EditPlaced, Tasks, AllPlaced, Placed, EditOps
  <2>3. \A v \in Uris \ {m.uri} : docs[v] = docs'[v]
    BY <1>0, <2>1, <2>2
  <2>4. u \in Affected(docs', m.uris)
    BY <1>0, <2>2, <2>3, Dependents
  <2>5. pc'["main"] = "after" /\ job'["main"] = m
    BY <1>0, <2>1, GotoAt
  <2>6. Updating("main", u)'
    BY <2>1, <2>4, <2>5 DEF Updating, Refused
  <2> QED
    BY <1>0, <2>6 DEF Pending
<1>3. ASSUME NEW t \in Threads, RefreshFile(t) PROVE Pending(u)'
  <2>1. PICK v \in job[t].todo :
           docs' = IF docs[v].buffer THEN docs
                   ELSE [docs EXCEPT ![v] = OnDisk(disk[v])]
    BY <1>3 DEF RefreshFile
  <2>2. /\ pc[t] = "apply" /\ job[t].op \in {"watch", "poll"}
        /\ job[t].uri = None /\ v \in job[t].uris /\ job[t].uris \in SUBSET Uris
        /\ v \in Uris
    BY <1>0, <1>3, <2>1 DEF RefreshFile, Tasks, AllPlaced, Placed, TypeOK, Jobs
  <2>3. \A w \in Uris \ job[t].uris : docs[w] = docs'[w]
    BY <1>0, <2>1, <2>2
  <2>4. u \in Affected(docs', job[t].uris)
    BY <1>0, <2>2, <2>3, Dependents
  <2>5. /\ pc'[t] = "apply" /\ job'[t].uris = job[t].uris
        /\ job'[t].uri = job[t].uri /\ job'[t].op = job[t].op
    <3>1. PICK w \in job[t].todo : job' = [job EXCEPT ![t].todo = @ \ {w}]
      BY <1>3 DEF RefreshFile
    <3>2. pc' = pc
      BY <1>3 DEF RefreshFile
    <3> QED
      BY <1>0, <2>2, <3>1, <3>2 DEF TypeOK, Jobs
  <2>7. Updating(t, u)'
    BY <2>2, <2>4, <2>5 DEF Updating, Refused
  <2> QED
    BY <2>7 DEF Pending
<1> QED
  BY <1>0, <1>1, <1>2, <1>3, Frames

(* Nobody but the main thread takes what it is closing out of the index:   *)
(* a buffer is kept, and the worker refreshes nothing outside the root.    *)
LEMMA StillPresent ==
  ASSUME IInv, Tasks, [Next]_vars, NEW t \in Threads,
         pc'[t] = pc[t], job'[t] = job[t], pc[t] = "apply", job[t].op = "close",
         docs[job[t].uri].text # Absent
  PROVE  docs'[job[t].uri].text # Absent
<1> DEFINE u == job[t].uri
<1>0. /\ TypeOK /\ EditPlaced /\ t = "main" /\ u \in Uris
      /\ docs \in [Uris -> Documents]
  BY DEF IInv, TypeOK, Tasks, AllPlaced, Placed, EditOps, EditPlaced
<1>1. ~UpdateDocument /\ ~CloseDocument
  <2>1. ASSUME CloseDocument PROVE FALSE
    BY <1>0, <2>1, GotoAt DEF CloseDocument, Threads
  <2> QED
    BY <1>0, <2>1 DEF UpdateDocument
<1>2. ASSUME NEW s \in Threads, RefreshFile(s) PROVE docs'[u] = docs[u]
  <2>1. PICK v \in job[s].todo :
           docs' = IF docs[v].buffer THEN docs
                   ELSE [docs EXCEPT ![v] = OnDisk(disk[v])]
    BY <1>2 DEF RefreshFile
  <2>2. s = "worker"
    <3>1. s # "main"
      BY <1>0, <1>2 DEF RefreshFile
    <3>2. s # "bridge"
      BY <2>1 DEF Tasks, InRoot
    <3> QED
      BY <3>1, <3>2 DEF Threads
  <2>3. CASE u \in Outside
    <3>1. u # v
      BY <2>1, <2>2, <2>3 DEF Tasks, InRoot
    <3> QED
      BY <1>0, <2>1, <3>1
  <2>4. CASE u \notin Outside
    <3>1. docs[u].buffer
      BY <1>0, <2>4 DEF IInv, Buffered
    <3> QED
      BY <1>0, <2>1, <3>1
  <2> QED
    BY <2>3, <2>4
<1> QED
  BY <1>1, <1>2, Frames

(* An update on its way schedules u, whatever else happens meanwhile.      *)
LEMMA UpdatingKept ==
  ASSUME IInv, Tasks, [Next]_vars, ~stopping', NEW u \in Uris, NEW t \in Threads,
         Updating(t, u)
  PROVE  Pending(u)'
<1>0. /\ TypeOK /\ EditPlaced /\ "main" \in Threads
      /\ docs \in [Uris -> Documents] /\ docs' \in [Uris -> Documents]
      /\ job[t] \in Jobs /\ Placed(t)
  <2>1. TypeOK'
    BY IInvNext DEF IInv
  <2> QED
    BY <2>1 DEF IInv, Threads, TypeOK, Tasks, AllPlaced
<1>1. /\ pc[t] \in {"apply", "after", "finish"} /\ ~Refused(t)
      /\ \/ u \in job[t].scope
         \/ pc[t] # "finish" /\ u \in Affected(docs, job[t].uris)
  BY DEF Updating
<1>2. CASE docs'[u].text # docs[u].text
  BY <1>2, DocsChange
<1>3. CASE docs'[u].text = docs[u].text
  <2>0. \A S : u \in Affected(docs, S) <=> u \in Affected(docs', S)
    BY <1>3 DEF Affected
  <2>1. CASE pc'[t] = pc[t] /\ job'[t] = job[t]
    <3>1. ~Refused(t)'
      BY <1>1, <2>1, StillPresent DEF Refused
    <3>2. Updating(t, u)'
      BY <1>1, <2>0, <2>1, <3>1 DEF Updating
    <3> QED
      BY <3>2 DEF Pending
  <2>2. CASE Finish(t)
    <3>1. u \in job[t].scope /\ ~stopping
      BY <1>1, <2>2 DEF Finish
    <3>2. u \in dirty' \cup background'
      BY <2>2, <3>1 DEF Finish
    <3> QED
      BY <3>2 DEF Pending
  <2>3. CASE Step(t) /\ ~Finish(t)
    <3>1. Moves(t)
      <4>1. pc[t] # "finish"
        BY <2>3 DEF Step, Finish, Begin, Before, RefreshFile, After, ScanStamps, ScanUris,
           ScheduleFull, ReadSource, Submit, Compute, ReadVersion, Accept
      <4> QED
        BY <1>0, <1>1, <2>3, <4>1, StepMoves DEF Publish
    <3>2. CASE pc'[t] = "finish"
      <4>1. job'[t].scope = job[t].scope \cup Affected(docs, job[t].uris)
            /\ job'[t].uri = job[t].uri /\ job'[t].op = job[t].op
        BY <1>1, <3>1, <3>2 DEF Moves, SameTask, Publish, ScanPath
      <4>2. Updating(t, u)'
        BY <1>1, <3>2, <4>1 DEF Updating, Refused
      <4> QED
        BY <4>2 DEF Pending
    <3>3. CASE pc'[t] # "finish"
      <4>1. /\ pc'[t] = "apply" /\ pc[t] = "apply" /\ job'[t].uri = job[t].uri
            /\ job'[t].uris = job[t].uris /\ job'[t].scope = job[t].scope
            /\ job'[t].op = job[t].op /\ RefreshFile(t)
        BY <1>1, <3>1, <3>3 DEF Moves, SameTask, Publish, ScanPath
      <4>2. job[t].op \in {"watch", "poll"}
        BY <4>1 DEF RefreshFile
      <4>3. Updating(t, u)'
        BY <1>1, <2>0, <4>1, <4>2 DEF Updating, Refused
      <4> QED
        BY <4>3 DEF Pending
    <3> QED
      BY <3>2, <3>3
  <2>4. CASE t = "main" /\ UpdateDocument
    <3> DEFINE m == job["main"]
               new == [docs EXCEPT ![m.uri] = [text |-> m.text, buffer |-> TRUE]]
               scope == Affected(docs, {m.uri}) \cup Affected(new, {m.uri})
               j == [m EXCEPT !.scope = scope]
    <3>1. /\ m.op \in {"open", "change"} /\ pc["main"] = "apply"
          /\ Become("main", "finish", j) /\ m.uri \notin Outside
      BY <1>1, <2>4 DEF UpdateDocument, Refused
    <3>2. m.scope = {} /\ m.uris = {m.uri}
      BY <1>0, <2>4, <3>1 DEF Placed, EditOps
    <3>3. u \in scope
      BY <1>1, <2>4, <3>2
    <3> HIDE DEF scope
    <3>4. j.scope = scope /\ j.uri = m.uri /\ j.op = m.op
      BY <1>0, <2>4 DEF Jobs
    <3> HIDE DEF j
    <3>5. pc'["main"] = "finish" /\ job'["main"] = j
      BY <1>0, <3>1, BecomeAt
    <3>6. Updating("main", u)'
      BY <1>1, <2>4, <3>1, <3>3, <3>4, <3>5 DEF Updating, Refused
    <3> QED
      BY <1>0, <3>6 DEF Pending
  <2>5. CASE t = "main" /\ CloseDocument
    <3>1. Goto("main", "after") /\ pc["main"] = "apply" /\ job["main"].op = "close"
      BY <1>1, <2>5 DEF CloseDocument, Refused
    <3>2. pc'["main"] = "after" /\ job'["main"] = job["main"]
      BY <1>0, <3>1, GotoAt
    <3>3. Updating("main", u)'
      BY <1>1, <2>0, <2>5, <3>1, <3>2 DEF Updating, Refused
    <3> QED
      BY <1>0, <3>3 DEF Pending
  <2> QED
    BY <1>0, <1>1, <2>1, <2>2, <2>3, <2>4, <2>5, OnlyItself DEF Underway
<1> QED
  BY <1>2, <1>3

(* The worker's choices, the only steps that take a document off a queue.  *)
Picks(u) ==
    /\ pc["worker"] = "idle" /\ pc'["worker"] = "source"
    /\ job'["worker"].uri = u /\ job'["worker"].notify

LEMMA QueuesKept ==
  ASSUME TypeOK, [Next]_vars, ~FullScan, ~stopping', NEW u \in Uris,
         u \in dirty \cup background
  PROVE  u \in dirty' \cup background' \/ Picks(u)
<1>0. "worker" \in Threads
  BY DEF Threads
<1>1. CASE Client
  BY <1>1 DEF Client, DidOpen, DidChange, DidClose, DidSave, DidChangeWatchedFiles,
     Reconnect, RequestStop, CancelPull, PullReceived, BeginUpdate, coordinator, queues
<1>2. CASE MainStep
  BY <1>2 DEF MainStep, UpdateDocument, RejectOpen, CloseDocument, PullRegister,
     StopBridge, JoinBridge, AnswerPending, coordinator, queues
<1>3. CASE PickDirty
  <2>1. PICK v \in dirty :
           /\ dirty' = dirty \ {v}
           /\ Become("worker", "source", [NoJob EXCEPT !.op = "publish",
                !.uri = v, !.gen = generation, !.force = TRUE, !.notify = TRUE])
    BY <1>3 DEF PickDirty
  <2> DEFINE j == [NoJob EXCEPT !.op = "publish", !.uri = v, !.gen = generation,
                                !.force = TRUE, !.notify = TRUE]
  <2>2. j.uri = v /\ j.notify
    BY DEF NoJob
  <2> HIDE DEF j
  <2>3. pc'["worker"] = "source" /\ job'["worker"] = j
    BY <1>0, <2>1, BecomeAt DEF j
  <2> QED
    BY <1>3, <2>1, <2>2, <2>3 DEF PickDirty, Picks
<1>4. CASE PickBackground
  <2>1. PICK v \in background :
           /\ background' = background \ {v}
           /\ Become("worker", "source", [NoJob EXCEPT !.op = "publish",
                !.uri = v, !.gen = generation, !.notify = TRUE])
    BY <1>4 DEF PickBackground
  <2> DEFINE j == [NoJob EXCEPT !.op = "publish", !.uri = v, !.gen = generation,
                                !.notify = TRUE]
  <2>2. j.uri = v /\ j.notify
    BY DEF NoJob
  <2> HIDE DEF j
  <2>3. pc'["worker"] = "source" /\ job'["worker"] = j
    BY <1>0, <2>1, BecomeAt DEF j
  <2> QED
    BY <1>4, <2>1, <2>2, <2>3 DEF PickBackground, Picks
<1>5. CASE PollScan \/ PollLock \/ WorkerExit \/ PickPoll
  BY <1>5 DEF PollScan, PollLock, WorkerExit, PickPoll, coordinator, queues
<1>6. CASE BridgeStep \/ BridgeState
  BY <1>6 DEF BridgeStep, BridgeState, EngineNotice, BridgeDrop, BridgeDone,
     BridgeExit, BridgeTake, coordinator, queues
<1>7. ASSUME NEW t \in Threads, Step(t) PROVE u \in dirty' \cup background'
  <2>1. CASE Begin(t) \/ Finish(t)
    BY <2>1 DEF Begin, BeginUpdate, Finish
  <2>2. CASE ReadSource(t) \/ Submit(t) \/ Accept(t)
    BY <2>2 DEF ReadSource, Submit, Accept, Refuse, Deliver, GiveUp
  <2>3. ~ScheduleFull(t)
    BY DEF FullScan
  <2> QED
    BY <1>7, <2>1, <2>2, <2>3
       DEF Step, Before, RefreshFile, After, ScanStamps, ScanUris, Compute,
           ReadVersion, coordinator, queues
<1>8. CASE UNCHANGED vars \/ Exited \/ \E v \in Uris : DiskWrite(v) \/ WriteBuffer(v)
  BY <1>8 DEF vars, Exited, DiskWrite, WriteBuffer, coordinator, queues
<1> QED
  BY <1>1, <1>2, <1>3, <1>4, <1>5, <1>6, <1>7, <1>8 DEF Next, WorkerStep

LEMMA PendingKept ==
  ASSUME IInv, Tasks, [Next]_vars, ~FullScan, ~stopping', NEW u \in Uris, Pending(u)
  PROVE  Pending(u)' \/ Picks(u)
<1>1. CASE u \in dirty \cup background
  BY <1>1, QueuesKept DEF IInv, Pending
<1>2. CASE \E t \in Threads : Updating(t, u)
  BY <1>2, UpdatingKept
<1> QED
  BY <1>1, <1>2 DEF Pending

(* The stop is for good, and a generation never comes back; a full scan    *)
(* starts a new one.                                                       *)
LEMMA StopsForGood ==
  ASSUME [Next]_vars, ~stopping' PROVE ~stopping
<1>1. CASE \E t \in Threads : Step(t)
  BY <1>1 DEF Step, Begin, Before, RefreshFile, After, Finish, ScanStamps, ScanUris,
     ScheduleFull, ReadSource, Submit, Compute, ReadVersion, Accept, coordinator
<1>2. CASE ~(\E t \in Threads : Step(t))
  BY <1>2 DEF Next, Client, DidOpen, DidChange, DidClose, DidSave,
     DidChangeWatchedFiles, Reconnect, RequestStop, CancelPull, PullReceived,
     MainStep, UpdateDocument, RejectOpen, CloseDocument, PullRegister, StopBridge,
     JoinBridge, AnswerPending, WorkerStep, PickDirty, PollScan, PollLock, WorkerExit,
     PickPoll, PickBackground, BridgeStep, BridgeState, EngineNotice, BridgeDrop,
     BridgeDone, BridgeExit, BridgeTake, Exited, DiskWrite, WriteBuffer, vars, coordinator
<1> QED
  BY <1>1, <1>2

LEMMA GenerationMoves ==
  ASSUME [Next]_vars PROVE generation' = generation \/ generation' = generation + 1
<1>1. CASE \E t \in Threads : Step(t)
  BY <1>1 DEF Step, Begin, BeginUpdate, Before, RefreshFile, After, Finish, ScanStamps,
     ScanUris, ScheduleFull, ReadSource, Submit, Compute, ReadVersion, Accept,
     coordinator, queues
<1>2. CASE ~(\E t \in Threads : Step(t))
  BY <1>2 DEF Next, Client, DidOpen, DidChange, BeginUpdate, DidClose, DidSave,
     DidChangeWatchedFiles, Reconnect, RequestStop, CancelPull, PullReceived,
     MainStep, UpdateDocument, RejectOpen, CloseDocument, PullRegister, StopBridge,
     JoinBridge, AnswerPending, WorkerStep, PickDirty, PollScan, PollLock, WorkerExit,
     PickPoll, PickBackground, BridgeStep, BridgeState, EngineNotice, BridgeDrop,
     BridgeDone, BridgeExit, BridgeTake, Exited, DiskWrite, WriteBuffer, vars, coordinator, queues
<1> QED
  BY <1>1, <1>2

LEMMA AloneNext ==
  ASSUME ~CanConnect, TypeOK, Alone, [Next]_vars PROVE Alone'
<1>0. "bridge" \in Threads /\ "main" \in Threads \ {"bridge"}
      /\ "worker" \in Threads \ {"bridge"}
  BY DEF Threads
<1>1. CASE Client
  <2>1. (ready' = ready \/ ready' = FALSE) /\ session' = session
    BY <1>1 DEF Client, DidOpen, DidChange, DidClose, DidSave,
       DidChangeWatchedFiles, Reconnect, RequestStop, CancelPull, PullReceived, bridge
  <2>2. (\E label, j : Become("main", label, j)) \/ pc' = pc
    BY <1>1 DEF Client, DidOpen, DidChange, DidClose, DidSave,
       DidChangeWatchedFiles, Reconnect, RequestStop, CancelPull, PullReceived
  <2>3. pc'["bridge"] = pc["bridge"]
    BY <1>0, <2>2, BecomeAt
  <2> QED
    BY <2>1, <2>3 DEF Alone
<1>2. CASE MainStep
  <2>1. ready' = ready /\ session' = session
    BY <1>2 DEF MainStep, UpdateDocument, RejectOpen, CloseDocument,
       PullRegister, StopBridge, JoinBridge, AnswerPending, bridge
  <2>2. (\E label, j : Become("main", label, j)) \/ \E label : Goto("main", label)
    BY <1>2 DEF MainStep, UpdateDocument, RejectOpen, CloseDocument, PullRegister,
       StopBridge, JoinBridge, AnswerPending, Return
  <2>3. pc'["bridge"] = pc["bridge"]
    BY <1>0, <2>2, BecomeAt, GotoAt
  <2> QED
    BY <2>1, <2>3 DEF Alone
<1>3. CASE WorkerStep \/ PickPoll \/ PickBackground
  <2>1. ready' = ready /\ session' = session
    BY <1>3 DEF WorkerStep, PickDirty, PollScan, PollLock, WorkerExit, PickPoll,
       PickBackground, bridge
  <2>2. (\E label, j : Become("worker", label, j)) \/ \E label : Goto("worker", label)
    BY <1>3 DEF WorkerStep, PickDirty, PollScan, PollLock, WorkerExit, PickPoll,
       PickBackground, Return
  <2>3. pc'["bridge"] = pc["bridge"]
    BY <1>0, <2>2, BecomeAt, GotoAt
  <2> QED
    BY <2>1, <2>3 DEF Alone
<1>4. CASE BridgeStep \/ BridgeState
  <2>1. EngineNotice \/ BridgeExit \/ BridgeState
    BY <1>4 DEF Alone, BridgeStep, BridgeDrop, BridgeDone, BridgeTake, ScanPath
  <2>2. ~ready' /\ session' = 0
    BY <2>1 DEF Alone, EngineNotice, BridgeExit, BridgeState, bridge
  <2>3. \E label \in {"idle", "exited", "stamps"} : \E j : Become("bridge", label, j)
    BY <2>1 DEF EngineNotice, BridgeExit, BridgeState, Return
  <2> QED
    BY <1>0, <2>2, <2>3, BecomeAt DEF Alone, ScanPath
<1>5. ASSUME NEW t \in Threads, Step(t) PROVE Alone'
  <2>1. ready' = ready /\ session' = session
    BY <1>5 DEF Step, Begin, Before, RefreshFile, After, Finish, ScanStamps, ScanUris,
       ScheduleFull, ReadSource, Submit, Compute, ReadVersion, Accept, bridge
  <2>2. CASE t = "bridge"
    <3>1. pc["bridge"] \in ScanPath => pc'["bridge"] \in ScanPath \cup {"idle", "notice"}
      BY <1>0, <1>5, <2>2, StepMoves DEF Moves, ScanPath, Publish
    <3>2. pc["bridge"] \in ScanPath
      BY <1>5, <2>2, StepMoves DEF Alone, Moves, ScanPath, Publish
    <3> QED
      BY <2>1, <3>1, <3>2 DEF Alone
  <2>3. CASE t # "bridge"
    BY <1>0, <1>5, <2>1, <2>3, StepFrame DEF Alone
  <2> QED
    BY <2>2, <2>3
<1>6. CASE UNCHANGED vars \/ Exited \/ \E u \in Uris : DiskWrite(u) \/ WriteBuffer(u)
  BY <1>6 DEF vars, Exited, DiskWrite, WriteBuffer, bridge, Alone
<1> QED
  BY <1>1, <1>2, <1>3, <1>4, <1>5, <1>6 DEF Next

(* The worker gets beyond the text only from within a publication.         *)
LEMMA WorkerSteps ==
  ASSUME TypeOK, [Next]_vars, pc'["worker"] \in AtWork \cup {"before", "apply"}
  PROVE  \/ pc'["worker"] = pc["worker"] /\ job'["worker"] = job["worker"]
         \/ Step("worker")
<1>0. "worker" \in Threads /\ "main" \in Threads /\ "bridge" \in Threads
  BY DEF Threads
<1>1. CASE Client \/ MainStep
  <2>1. \/ \E label : Goto("main", label) \/ \E j : Become("main", label, j)
        \/ UNCHANGED <<pc, job>>
    <3>1. CASE Client
      BY <3>1 DEF Client, DidOpen, DidChange, DidClose, DidSave,
         DidChangeWatchedFiles, Reconnect, RequestStop, CancelPull, PullReceived
    <3>2. CASE MainStep
      BY <3>2 DEF MainStep, UpdateDocument, RejectOpen, CloseDocument, PullRegister,
         StopBridge, JoinBridge, AnswerPending, Return
    <3> QED
      BY <1>1, <3>1, <3>2
  <2> QED
    BY <1>0, <2>1, BecomeAt, GotoAt
<1>2. CASE BridgeStep \/ BridgeState
  <2>1. \E label, j : Become("bridge", label, j)
    BY <1>2 DEF BridgeStep, BridgeState, EngineNotice, BridgeDrop, BridgeDone,
       BridgeExit, BridgeTake, Return
  <2> QED
    BY <1>0, <2>1, BecomeAt
<1>3. CASE WorkerStep \/ PickPoll \/ PickBackground
  <2>1. \E label \in {"idle", "source", "poll", "polllock", "begin", "exited"} :
           Goto("worker", label) \/ \E j : Become("worker", label, j)
    BY <1>3 DEF WorkerStep, PickDirty, PollScan, PollLock, WorkerExit, PickPoll,
       PickBackground, Return
  <2> QED
    BY <1>0, <2>1, BecomeAt, GotoAt DEF AtWork
<1>4. ASSUME NEW t \in Threads, Step(t), t # "worker"
      PROVE  pc'["worker"] = pc["worker"] /\ job'["worker"] = job["worker"]
  BY <1>0, <1>4, StepFrame
<1>6. CASE UNCHANGED vars \/ Exited \/ \E u \in Uris : DiskWrite(u) \/ WriteBuffer(u)
  BY <1>6 DEF vars, Exited, DiskWrite, WriteBuffer
<1> QED
  BY <1>1, <1>2, <1>3, <1>4, <1>6 DEF Next

LEMMA WorkerUnderway ==
  ASSUME TypeOK, [Next]_vars, pc'["worker"] \in AtWork
  PROVE  \/ pc'["worker"] = pc["worker"] /\ job'["worker"] = job["worker"]
         \/ Step("worker") /\ pc["worker"] \in Publish
<1>1. ASSUME Step("worker") PROVE pc["worker"] \in Publish
  BY <1>1, StepMoves DEF Moves, Publish, ScanPath, AtWork, Threads
<1> QED
  BY <1>1, WorkerSteps

(* One step of a publication that does not end it.                         *)
Carries(t) ==
    LET j == job[t]
        k == job'[t]
    IN  /\ SameTask(k, j)
        /\ \/ /\ pc[t] = "source" /\ pc'[t] = "submit" /\ ~OutOfDate(t)
              /\ k.text = docs[j.uri].text /\ k.engine = j.engine
           \/ /\ pc[t] = "submit" /\ pc'[t] = "compute" /\ ~OutOfDate(t) /\ k = j
           \/ /\ pc[t] = "compute" /\ pc'[t] = "version"
              /\ j.text = Absent \/ ~ready
              /\ k.text = j.text /\ k.items = Standalone(docs, j.uri)
           \/ /\ pc[t] = "version" /\ pc'[t] = "accept"
              /\ k.text = j.text /\ k.items = j.items
              /\ k.engine <=> (t = "bridge" \/ (j.text = Absent /\ ready))

LEMMA PublishStep ==
  ASSUME TypeOK, NEW t \in Threads, Step(t), pc[t] \in Publish
  PROVE  /\ UNCHANGED <<docs, generation, stopping, ready, session, epoch>>
         /\ ReadSource(t) \/ Submit(t) \/ Compute(t) \/ ReadVersion(t) \/ Accept(t)
         /\ \/ Return(t)
            \/ Carries(t)
<1> DEFINE j == job[t]
<1>0. j \in Jobs
  BY DEF TypeOK
<1>1. ReadSource(t) \/ Submit(t) \/ Compute(t) \/ ReadVersion(t) \/ Accept(t)
  BY DEF Step, Publish, Begin, Before, RefreshFile, After, Finish, ScanStamps, ScanUris,
     ScheduleFull
<1>2. UNCHANGED <<docs, generation, stopping, ready, session, epoch>>
  BY <1>1 DEF ReadSource, Submit, Compute, ReadVersion, Accept, coordinator, queues, files,
     bridge
<1>3. CASE ReadSource(t)
  <2> DEFINE s == docs[j.uri].text
             i == [j EXCEPT !.text = s]
  <2>1. Return(t) \/ (Become(t, "submit", i) /\ ~OutOfDate(t) /\ pc[t] = "source")
    BY <1>3 DEF ReadSource, GiveUp
  <2> HIDE DEF s
  <2>2. SameTask(i, j) /\ i.text = s /\ i.engine = j.engine
    BY <1>0 DEF Jobs, SameTask
  <2> HIDE DEF i
  <2>3. ASSUME Become(t, "submit", i) PROVE pc'[t] = "submit" /\ job'[t] = i
    BY <2>3, BecomeAt
  <2> QED
    BY <1>1, <1>2, <2>1, <2>2, <2>3 DEF Carries, s
<1>4. CASE Submit(t)
  <2>1. Return(t) \/ (Goto(t, "compute") /\ ~OutOfDate(t) /\ pc[t] = "submit")
    BY <1>4 DEF Submit, GiveUp
  <2>2. ASSUME Goto(t, "compute") PROVE pc'[t] = "compute" /\ job'[t] = j
    BY <2>2, GotoAt
  <2> QED
    BY <1>1, <1>2, <2>1, <2>2 DEF Carries, SameTask
<1>5. CASE Compute(t)
  <2> DEFINE s == Standalone(docs, j.uri)
             i == [j EXCEPT !.items = s]
  <2>1. \/ Return(t)
        \/ Become(t, "version", i) /\ (j.text = Absent \/ ~ready) /\ pc[t] = "compute"
    BY <1>5 DEF Compute
  <2> HIDE DEF s
  <2>2. SameTask(i, j) /\ i.text = j.text /\ i.items = s
    BY <1>0 DEF Jobs, SameTask
  <2> HIDE DEF i
  <2>3. ASSUME Become(t, "version", i) PROVE pc'[t] = "version" /\ job'[t] = i
    BY <2>3, BecomeAt
  <2> QED
    BY <1>1, <1>2, <2>1, <2>2, <2>3 DEF Carries, s
<1>6. CASE ReadVersion(t)
  <2> DEFINE v == Version(j.uri)
             e == IF t = "bridge" THEN TRUE ELSE j.text = Absent /\ ready
             i == [j EXCEPT !.version = v, !.engine = e]
  <2>1. Become(t, "accept", i) /\ pc[t] = "version"
    BY <1>6 DEF ReadVersion
  <2>4. e <=> (t = "bridge" \/ (j.text = Absent /\ ready))
    OBVIOUS
  <2> HIDE DEF v, e
  <2>2. SameTask(i, j) /\ i.text = j.text /\ i.items = j.items /\ i.engine = e
    BY <1>0 DEF Jobs, SameTask
  <2> HIDE DEF i
  <2>3. pc'[t] = "accept" /\ job'[t] = i
    BY <2>1, BecomeAt
  <2> QED
    BY <1>1, <1>2, <2>1, <2>2, <2>3, <2>4 DEF Carries
<1>7. CASE Accept(t)
  BY <1>1, <1>2, <1>7 DEF Accept, Refuse, Deliver, GiveUp
<1> QED
  BY <1>1, <1>3, <1>4, <1>5, <1>6, <1>7

LEMMA FreshNext ==
  ASSUME IInv, Tasks, Fresh, [Next]_vars
  PROVE  Fresh'
<1> DEFINE j == job["worker"]
           k == job'["worker"]
<1>0. /\ TypeOK /\ UriKnown /\ TypeOK' /\ "worker" \in Threads /\ "worker" # "main"
      /\ j \in Jobs /\ Placed("worker")
  BY IInvNext DEF IInv, Threads, TypeOK, Tasks, AllPlaced
<1> SUFFICES ASSUME ~stopping', k.gen = generation', NEW u, u = k.uri,
                    pc'["worker"] \in AtWork
             PROVE  /\ docs'[u].text = k.text \/ Pending(u)'
                    /\ pc'["worker"] \in {"version", "accept"} =>
                          k.items = Standalone(docs', u) \/ Pending(u)'
  BY DEF Fresh, Pending, AtWork
<1>1. /\ u = j.uri /\ u \in Uris /\ j.gen = k.gen
      /\ \/ k = j /\ pc'["worker"] = pc["worker"]
         \/ Step("worker") /\ pc["worker"] \in Publish /\ Carries("worker")
  <2>1. CASE pc'["worker"] = pc["worker"] /\ job'["worker"] = job["worker"]
    BY <1>0, <2>1 DEF UriKnown, Holders, AtWork
  <2>2. CASE Step("worker") /\ pc["worker"] \in Publish
    <3>1. pc'["worker"] # "idle"
      BY DEF AtWork
    <3>2. Carries("worker")
      BY <1>0, <2>2, <3>1, PublishStep, ReturnAt
    <3> QED
      BY <1>0, <2>2, <3>2 DEF Carries, SameTask, UriKnown, Holders, Publish
  <2> QED
    BY <1>0, <2>1, <2>2, WorkerUnderway
<1>2. generation' = generation /\ j.gen = generation
  <2>1. generation \in Nat /\ j.gen \in Nat /\ j.gen <= generation
    BY <1>0 DEF TypeOK, Jobs, Placed
  <2> QED
    BY <1>1, <2>1, GenerationMoves
<1>3. ~FullScan
  <2>1. generation # generation + 1
    BY <1>0 DEF TypeOK
  <2> QED
    BY <1>2, <2>1 DEF FullScan, ScheduleFull
<1>4. ~stopping
  BY StopsForGood
<1>5. Pending(u) => Pending(u)'
  <2>1. ~Picks(u)
    BY DEF Picks, AtWork
  <2> QED
    BY <1>1, <1>3, <2>1, PendingKept
<1>6. \/ Pending(u)'
      \/ /\ docs'[u].text = docs[u].text
         /\ Standalone(docs', u) = Standalone(docs, u)
  BY <1>1, DocsChange
<1>7. CASE k = j /\ pc'["worker"] = pc["worker"]
  BY <1>1, <1>2, <1>4, <1>5, <1>6, <1>7 DEF Fresh
<1>8. CASE Carries("worker") /\ Step("worker") /\ pc["worker"] \in Publish
  <2>1. docs' = docs
    BY <1>0, <1>8, PublishStep
  <2>2. CASE pc["worker"] = "source"
    BY <1>1, <1>8, <2>1, <2>2 DEF Carries
  <2>3. CASE pc["worker"] # "source"
    BY <1>1, <1>2, <1>4, <1>5, <1>8, <2>1, <2>3 DEF Carries, Fresh, AtWork
  <2> QED
    BY <2>2, <2>3
<1> QED
  BY <1>1, <1>7, <1>8

(* Only the worker and the bridge notify; what they report is what the     *)
(* client then believes.                                                   *)
LEMMA Notifies ==
  ASSUME TypeOK, Tasks, [Next]_vars, NEW u \in Uris, published'[u] # published[u]
  PROVE  \E t \in {"worker", "bridge"} :
            /\ Accept(t) /\ ~OutOfDate(t) /\ (job[t].engine <=> ready) /\ Deliver(t)
            /\ job[t].uri = u /\ job[t].notify
<1>0. "main" \in Threads
  BY DEF Threads
<1>1. PICK t \in Threads : Accept(t)
  <2>1. CASE Client
    BY <2>1 DEF Client, DidOpen, DidChange, DidClose, DidSave, DidChangeWatchedFiles,
       Reconnect, RequestStop, CancelPull, PullReceived, Message, client
  <2>2. CASE MainStep
    BY <2>2 DEF MainStep, UpdateDocument, RejectOpen, CloseDocument, PullRegister,
       StopBridge, JoinBridge, AnswerPending, client
  <2>3. CASE WorkerStep \/ PickPoll \/ PickBackground
    BY <2>3 DEF WorkerStep, PickDirty, PollScan, PollLock, WorkerExit, PickPoll,
       PickBackground, client
  <2>4. CASE BridgeStep \/ BridgeState
    BY <2>4 DEF BridgeStep, BridgeState, EngineNotice, BridgeDrop, BridgeDone,
       BridgeExit, BridgeTake, client
  <2>5. ASSUME NEW t \in Threads, Step(t), ~Accept(t) PROVE FALSE
    BY <2>5 DEF Step, Begin, Before, RefreshFile, After, Finish, ScanStamps, ScanUris,
       ScheduleFull, ReadSource, Submit, Compute, ReadVersion, client
  <2>6. CASE UNCHANGED vars \/ Exited \/ \E v \in Uris : DiskWrite(v) \/ WriteBuffer(v)
    BY <2>6 DEF vars, Exited, DiskWrite, WriteBuffer, client
  <2> QED
    BY <2>1, <2>2, <2>3, <2>4, <2>5, <2>6 DEF Next
<1>2. Deliver(t) /\ ~OutOfDate(t) /\ job[t].engine = ready
  BY <1>1 DEF Accept, Refuse
<1>3. job[t].uri = u /\ job[t].notify
  BY <1>0, <1>2 DEF Deliver, TypeOK
<1>4. t # "main"
  BY <1>0, <1>3 DEF Tasks, AllPlaced, Placed
<1> QED
  BY <1>1, <1>2, <1>3, <1>4 DEF Threads

LEMMA Reported ==
  ASSUME TypeOK, NEW t \in Threads, Deliver(t), NEW u \in Uris, job[t].uri = u,
         job[t].notify
  PROVE  View(u)' = job[t].items
<1> DEFINE i == job[t].items
           r == [items |-> i, version |-> job[t].version]
           news == IF published[u] = None THEN i # {} ELSE published[u].items # i
<1>1. published \in [Uris -> Reports \cup {None}]
  BY DEF TypeOK
<1>2. \/ news /\ published' = [published EXCEPT ![u] = r]
      \/ ~news /\ published' \in {published, [published EXCEPT ![u] = r]}
  BY DEF Deliver
<1>3. CASE published' = [published EXCEPT ![u] = r]
  <2>1. published'[u] = r
    BY <1>1, <1>3
  <2>2. r # None
    <3>1. job[t] \in Jobs
      BY DEF TypeOK
    <3>2. i \in Items /\ job[t].version \in Texts
      BY <3>1 DEF Jobs
    <3>3. r \in [items : SUBSET ({"standalone", "engine"} \X Nat), version : Nat]
      BY <3>2 DEF Items, Texts
    <3> QED
      BY <3>3, NoneAssumption
  <2> QED
    BY <2>1, <2>2 DEF View
<1>4. CASE ~news /\ published' = published
  BY <1>4 DEF View
<1> QED
  BY <1>2, <1>3, <1>4

(* Without an engine only the worker notifies, and what it delivers of a   *)
(* document nobody has yet to look at is right.                            *)
LEMMA OnlyWorkerNotifies ==
  ASSUME IInv, Tasks, Alone, NEW u \in Uris, [Next]_vars,
         published'[u] # published[u]
  PROVE  /\ Accept("worker") /\ ~OutOfDate("worker") /\ Deliver("worker")
         /\ job["worker"].uri = u /\ job["worker"].notify
<1>1. ~Accept("bridge")
  BY DEF Accept, Alone, ScanPath
<1> QED
  BY <1>1, Notifies DEF IInv

LEMMA Delivered ==
  ASSUME IInv, Alone, Fresh, Accept("worker"), Deliver("worker"),
         ~OutOfDate("worker"), NEW u \in Uris, job["worker"].uri = u,
         job["worker"].notify, ~Pending(u)
  PROVE  View(u)' = Standalone(docs', u)
<1>1. job["worker"].items = Standalone(docs, u) /\ docs' = docs
  BY DEF Accept, OutOfDate, Fresh, files
<1> QED
  BY <1>1, Reported DEF IInv, Threads

(* A publication under way reports, or hands u back, or goes on.           *)
LEMMA PublishingKept ==
  ASSUME IInv, Tasks, Alone, Alone', Fresh, [Next]_vars, ~FullScan, ~stopping',
         NEW u \in Uris, Publishing("worker", u)
  PROVE  \/ Publishing("worker", u)' \/ Pending(u)'
         \/ Accept("worker") /\ Deliver("worker") /\ ~OutOfDate("worker")
<1> DEFINE j == job["worker"]
           k == job'["worker"]
<1>0. /\ TypeOK /\ "worker" \in Threads /\ "worker" # "main" /\ j \in Jobs
      /\ ~ready /\ ~ready' /\ ~stopping
  BY StopsForGood DEF IInv, Threads, TypeOK, Alone
<1>1. j.uri = u /\ j.notify /\ pc["worker"] \in Publish
  BY DEF Publishing, Publish
<1>2. Pending(u) => Pending(u)'
  <2>1. ~Picks(u)
    BY <1>1 DEF Picks, Publish
  <2> QED
    BY <2>1, PendingKept
<1>3. docs'[u].text = docs[u].text \/ Pending(u)'
  BY DocsChange
<1>4. CASE pc'["worker"] = pc["worker"] /\ job'["worker"] = job["worker"]
  <2>1. CASE pc["worker"] # "compute"
    BY <1>1, <1>4, <2>1 DEF Publishing, Publish
  <2>2. CASE pc["worker"] = "compute" /\ docs'[u].text = docs[u].text
    BY <1>0, <1>1, <1>4, <2>2 DEF Publishing
  <2> QED
    BY <1>3, <2>1, <2>2
<1>5. CASE Step("worker")
  <2>1. CASE GiveUp("worker")
    BY <1>0, <1>1, <2>1 DEF GiveUp, Pending
  <2>2. CASE ReadSource("worker") /\ ~GiveUp("worker")
    <3>1. Moves("worker") /\ pc'["worker"] = "submit"
      <4> DEFINE s == docs[j.uri].text
                 i == [j EXCEPT !.text = s]
      <4>1. Become("worker", "submit", i)
        BY <2>2 DEF ReadSource
      <4> HIDE DEF s, i
      <4> QED
        BY <1>0, <1>1, <1>5, <4>1, BecomeAt, StepMoves
    <3> QED
      BY <1>1, <3>1 DEF Moves, SameTask, Publishing
  <2>3. CASE Submit("worker") /\ ~GiveUp("worker")
    <3>1. /\ pc["worker"] = "submit" /\ Goto("worker", "compute") /\ docs' = docs
          /\ j.gen = generation
      BY <2>3 DEF Submit, OutOfDate, files
    <3>2. pc'["worker"] = "compute" /\ k = j
      BY <1>0, <3>1, GotoAt
    <3>3. docs[u].text = j.text \/ Pending(u)
      BY <1>0, <1>1, <3>1 DEF Fresh, AtWork
    <3>4. CASE docs[u].text = j.text
      BY <1>0, <1>1, <3>1, <3>2, <3>4 DEF Publishing
    <3> QED
      BY <1>2, <3>3, <3>4
  <2>4. CASE Compute("worker") \/ ReadVersion("worker")
    <3>1. pc'["worker"] \in {"version", "accept"}
      <4>1. CASE Compute("worker")
        <5> DEFINE s == Standalone(docs, j.uri)
                   i == [j EXCEPT !.items = s]
        <5>1. Become("worker", "version", i)
          BY <1>0, <4>1 DEF Compute
        <5> HIDE DEF s, i
        <5> QED
          BY <1>0, <5>1, BecomeAt
      <4>2. CASE ReadVersion("worker")
        <5> DEFINE v == Version(j.uri)
                   e == IF "worker" = "bridge" THEN TRUE ELSE j.text = Absent /\ ready
                   i == [j EXCEPT !.version = v, !.engine = e]
        <5>1. Become("worker", "accept", i)
          BY <4>2 DEF ReadVersion
        <5> HIDE DEF v, e, i
        <5> QED
          BY <1>0, <5>1, BecomeAt
      <4> QED
        BY <2>4, <4>1, <4>2
    <3> QED
      BY <1>0, <1>1, <1>5, <3>1, StepMoves DEF Moves, SameTask, Publishing
  <2>5. CASE Accept("worker")
    BY <1>0, <2>1, <2>5 DEF Accept, Refuse
  <2> QED
    BY <1>1, <1>5, <2>1, <2>2, <2>3, <2>4, <2>5
       DEF Step, Publish, Begin, Before, RefreshFile, After, Finish, ScanStamps,
           ScanUris, ScheduleFull
<1> QED
  BY <1>0, <1>1, <1>4, <1>5, OnlyItself DEF Underway

(* A full scan under way still has u on its list, or will put it there.    *)
LEMMA ScanningKept ==
  ASSUME IInv, Tasks, [Next]_vars, ~FullScan, NEW u \in Uris, NEW t \in Threads,
         Scanning(t, u)
  PROVE  Scanning(t, u)' \/ Pending(u)'
<1>0. TypeOK /\ pc[t] \in ScanPath
  BY DEF IInv, Scanning, ScanPath
<1>1. CASE docs'[u].text # docs[u].text
  BY <1>1, DocsChange
<1>2. CASE docs'[u].text = docs[u].text
  <2>1. CASE pc'[t] = pc[t] /\ job'[t] = job[t]
    BY <1>2, <2>1 DEF Scanning
  <2>2. CASE Step(t)
    <3>1. CASE ScanStamps(t)
      <4>1. pc'[t] = "uris" /\ pc[t] = "stamps"
        BY <1>0, <3>1, BecomeAt DEF ScanStamps
      <4> QED
        BY <1>2, <4>1 DEF Scanning
    <3>2. CASE ScanUris(t)
      <4>1. pc'[t] = "scanlock" /\ pc[t] = "uris"
        BY <1>0, <3>2, BecomeAt DEF ScanUris
      <4>2. job'[t].uris = DocumentUris
        BY <1>0, <2>2, <4>1, StepMoves DEF Moves, Publish, ScanPath
      <4> QED
        BY <4>1, <4>2 DEF Scanning, DocumentUris
    <3> QED
      BY <1>0, <2>2, <3>1, <3>2
         DEF Step, ScanPath, Begin, Before, RefreshFile, After, Finish, ReadSource,
             Submit, Compute, ReadVersion, Accept, FullScan
  <2>3. ~(t = "main" /\ (UpdateDocument \/ CloseDocument))
    BY <1>0 DEF ScanPath, UpdateDocument, CloseDocument
  <2> QED
    BY <1>0, <2>1, <2>2, <2>3, OnlyItself DEF Underway
<1> QED
  BY <1>1, <1>2

LEMMA LoseStep ==
  ASSUME ~CanConnect, IInv, Tasks, Alone, Fresh, [Next]_vars, ~FullScan,
         NEW u \in Uris, Lost(u)'
  PROVE  Lost(u)
<1>0. /\ TypeOK /\ "worker" \in Threads /\ Alone' /\ ~ready /\ ~ready'
      /\ ~stopping' /\ ~stopping
  BY AloneNext, StopsForGood DEF IInv, Threads, Alone, Lost
<1>1. /\ ~Pending(u)' /\ View(u)' # Standalone(docs', u)
      /\ \A t \in Threads : ~Publishing(t, u)' /\ ~Scanning(t, u)'
  BY <1>0 DEF Lost, InHand, Pending, Current
<1>2. ~Pending(u)
  <2>1. Picks(u) => Publishing("worker", u)'
    BY DEF Picks, Publishing
  <2> QED
    BY <1>0, <1>1, <2>1, PendingKept
<1>3. Standalone(docs', u) = Standalone(docs, u)
  BY <1>1, DocsChange
<1>4. ~(/\ Accept("worker") /\ ~OutOfDate("worker") /\ Deliver("worker")
        /\ job["worker"].uri = u /\ job["worker"].notify)
  BY <1>1, <1>2, Delivered
<1>5. View(u)' = View(u)
  BY <1>4, OnlyWorkerNotifies DEF View
<1>6. ASSUME NEW t \in Threads PROVE ~Publishing(t, u)
  <2>1. CASE t = "worker"
    <3>1. Publishing("worker", u) => job["worker"].uri = u /\ job["worker"].notify
      BY DEF Publishing
    <3> QED
      BY <1>0, <1>1, <1>4, <2>1, <3>1, PublishingKept
  <2>2. CASE t = "main"
    BY <2>2 DEF Tasks, AllPlaced, Placed, Publishing
  <2>3. CASE t = "bridge"
    BY <2>3 DEF Alone, Publishing, ScanPath
  <2> QED
    BY <2>1, <2>2, <2>3 DEF Threads
<1>7. ASSUME NEW t \in Threads PROVE ~Scanning(t, u)
  BY <1>1, ScanningKept
<1>8. ~InHand(u)
  BY <1>0, <1>2, <1>6, <1>7 DEF InHand, Pending, AtEngine
<1> QED
  BY <1>0, <1>1, <1>3, <1>5, <1>8 DEF Lost, Current

(* Without an engine, what the client believes of a document differs from  *)
(* what is wrong in it only while somebody has yet to tell it, whatever    *)
(* the order of edits, closes, file events, polls, requests and            *)
(* publications: an update has every dependent in its scope before it lets *)
(* go, work of an older generation is handed back, and a result computed   *)
(* from an older index has an update behind it.  Only schedule_full, which *)
(* replaces both queues by a list read before, may lose one.  With an      *)
(* engine this is false of removed documents and of changes on the disk;   *)
(* NothingPresentLost, below, says what holds then.                        *)
THEOREM NothingLostAlone ==
  ASSUME ~CanConnect PROVE Spec => OnlyFullScanLoses
<1> DEFINE All == IInv /\ Kept /\ Alone /\ Fresh
<1>1. Init => All
  <2>1. Init => Alone /\ Fresh
    BY DEF Init, Alone, Fresh, AtWork, Threads
  <2> QED
    BY <2>1, InitIInv, InitKept
<1>2. All /\ [Next]_vars => All'
  BY KeptNext, AloneNext, FreshNext DEF Kept, IInv
<1>3. All /\ [Next]_vars => [\A u \in Uris : ~Lost(u) /\ Lost(u)' => FullScan]_vars
  BY LoseStep DEF Kept
<1> HIDE DEF All
<1> QED
  BY <1>1, <1>2, <1>3, PTL DEF Spec, OnlyFullScanLoses

(***************************************************************************)
(* With an engine, no document that exists is lost.                        *)
(***************************************************************************)

(* The bridge asks the engine about its document or brings the report.     *)
Asking == {"busy", "version", "accept"}
AskingFor(u) == pc["bridge"] \in Asking /\ job["bridge"].uri = u
Held(u) == bdocs[u] # None

(* When the editor's saves alone write the disk, the index has what is     *)
(* there, but for a document that is being opened and one outside the root.*)
Opening(u) == /\ job["main"].op = "open" /\ job["main"].uri = u
              /\ pc["main"] \in {"begin", "apply"}
Settled ==
    \A u \in Uris \ Outside :
        docs[u].buffer \/ docs[u].text = disk[u] \/ Opening(u)

(* Authority is that of the present connection, and of an engine.          *)
Linked ==
    /\ ready /\ ~stopping => session = epoch
    /\ ~CanConnect => Alone

(* What the bridge's thread holds at each point.                           *)
Carried ==
    LET j == job["bridge"] IN
    /\ pc["bridge"] \in Asking \cup ScanPath \cup {"idle", "notice", "exited"}
    /\ j.gen <= generation
    /\ pc["bridge"] \in Asking => j.notify
    /\ pc["bridge"] \in {"version", "accept"} => j.items = EngineItems(j.text)
    /\ pc["bridge"] = "accept" => j.engine

(* What it holds of a document: a text, of a revision there was; a new     *)
(* connection asks about everything; and what is not queued is what was    *)
(* asked about last.                                                       *)
Entered ==
    /\ \A u \in Uris : Held(u) =>
          /\ CanConnect
          /\ bdocs[u].rev <= generation /\ bdocs[u].text # Absent
          /\ ready /\ pc["bridge"] \in ScanPath => bdocs[u].queued
    /\ \A u \in Uris : AskingFor(u) /\ Held(u) /\ ~bdocs[u].queued =>
          bdocs[u].text = job["bridge"].text /\ bdocs[u].rev = job["bridge"].gen

(* The worker claims the engine's authority only for what does not exist.  *)
Claimed ==
    pc["worker"] = "accept" /\ job["worker"].engine => job["worker"].text = Absent

(* The worker has another text in hand than the index, by an edit of its   *)
(* generation.                                                             *)
Stale == /\ pc["worker"] \in AtWork /\ job["worker"].gen = generation
         /\ job["worker"].text # docs[job["worker"].uri].text

(* Until an edit is applied or a file refreshed, nothing of that generation*)
(* knows of it; and while both threads are in their updates, nothing is of *)
(* the present generation at all.                                          *)
AtUpdate == {"before", "apply"}
Awaits(t, u) ==
    /\ pc[t] \in AtUpdate
    /\ u \in job[t].todo \/ (job[t].op \in EditOps /\ job[t].uri = u)
Untouched ==
    /\ \A t \in {"main", "worker"} : \A u \in Uris : Awaits(t, u) =>
          /\ Stale => job["worker"].uri # u
          /\ Held(u) /\ bdocs[u].rev = generation => bdocs[u].text = docs[u].text
    /\ pc["main"] \in AtUpdate /\ pc["worker"] \in AtUpdate =>
          \A u \in Uris : Held(u) => bdocs[u].rev # generation

(* A request is served by the main thread, which has no edit on its way:   *)
(* what it read is right; and when the engine has become ready meanwhile,  *)
(* the worker is right too, or the scan is still to come that calls it off.*)
Requested ==
    /\ pc["main"] \in {"source", "submit"} => ~job["main"].engine
    /\ pc["main"] = "submit" =>
          job["main"].text = docs[job["main"].uri].text
    /\ /\ pc["main"] \in {"pull", "source", "submit"} /\ ~job["main"].engine
       /\ ready /\ pc["bridge"] \notin ScanPath
       => ~Stale

(* What the bridge holds of u is what the index has.                       *)
Served(u) ==
    Held(u) /\ bdocs[u].rev = generation /\ bdocs[u].text = docs[u].text

(* Behind a worker that has another text nobody has asked for the right    *)
(* one, so that who does will not find it asked for already.               *)
Unserved ==
    Stale /\ ready /\ pc["bridge"] \notin ScanPath => ~Served(job["worker"].uri)

(* What was asked for and is not on its way was reported.                  *)
Told ==
    ready /\ ~stopping =>
        \A u \in Uris : Served(u) /\ ~bdocs[u].queued /\ ~AskingFor(u)
                            => View(u) = EngineItems(docs[u].text)

(* What the bridge holds, and what it asks about, is right, or somebody    *)
(* will look at the document again.                                        *)
Looking(u) == /\ pc["worker"] \in {"source", "submit"}
              /\ job["worker"].uri = u /\ job["worker"].notify
              /\ job["worker"].gen = generation
Behind(u) == Pending(u) \/ Looking(u)
FreshEntries ==
    ~stopping =>
        \A u \in Uris : Held(u) /\ bdocs[u].rev = generation /\ docs[u].text # Absent
                            => bdocs[u].text = docs[u].text \/ Behind(u)
FreshReport ==
    ~stopping =>
        \A u \in Uris :
            AskingFor(u) /\ job["bridge"].gen = generation /\ docs[u].text # Absent
                => \/ job["bridge"].text = docs[u].text \/ Behind(u)
                   \/ Held(u) /\ bdocs[u].queued /\ bdocs[u].text = docs[u].text

(***************************************************************************)
(* Which steps change the bridge's side.                                   *)
(***************************************************************************)

LEMMA EngineFrame ==
  ASSUME [Next]_vars
  PROVE  \/ ready' = ready /\ session' = session /\ epoch' = epoch
         \/ Reconnect \/ StopBridge \/ BridgeState \/ BridgeDrop
<1>1. CASE Client
  BY <1>1 DEF Client, DidOpen, DidChange, DidClose, DidSave,
     DidChangeWatchedFiles, RequestStop, CancelPull, PullReceived, bridge
<1>2. CASE MainStep
  BY <1>2 DEF MainStep, UpdateDocument, RejectOpen, CloseDocument,
     PullRegister, JoinBridge, AnswerPending, bridge
<1>3. CASE WorkerStep \/ PickPoll \/ PickBackground
  BY <1>3 DEF WorkerStep, PickDirty, PollScan, PollLock, WorkerExit, PickPoll,
     PickBackground, bridge
<1>4. CASE BridgeStep
  BY <1>4 DEF BridgeStep, EngineNotice, BridgeDone, BridgeExit, BridgeTake, bridge
<1>5. ASSUME NEW t \in Threads, Step(t)
      PROVE  ready' = ready /\ session' = session /\ epoch' = epoch
  BY <1>5 DEF Step, Begin, Before, RefreshFile, After, Finish, ScanStamps, ScanUris,
     ScheduleFull, ReadSource, Submit, Compute, ReadVersion, Accept, bridge
<1>6. CASE UNCHANGED vars \/ Exited \/ \E u \in Uris : DiskWrite(u) \/ WriteBuffer(u)
  BY <1>6 DEF vars, Exited, DiskWrite, WriteBuffer, bridge
<1> QED
  BY <1>1, <1>2, <1>3, <1>4, <1>5, <1>6 DEF Next

(* A submission, which the bridge takes note of unless it has it already.  *)
Submits(t, u) ==
    /\ Submit(t) /\ ~OutOfDate(t) /\ job[t].uri = u
    /\ IF job[t].text = Absent THEN ~Held(u)'
       ELSE /\ CanConnect /\ Held(u)' /\ bdocs'[u].text = job[t].text
            /\ bdocs'[u].rev = generation
            /\ bdocs'[u].queued \/ bdocs'[u] = bdocs[u]
Requeues(u) ==
    /\ Held(u) /\ Held(u)' /\ bdocs'[u].queued
    /\ bdocs'[u].text = bdocs[u].text /\ bdocs'[u].rev = bdocs[u].rev

LEMMA SubmitEffect ==
  ASSUME TypeOK, StopOrder, NEW t \in Threads, Submit(t), ~OutOfDate(t), NEW u \in Uris
  PROVE  /\ bdocs'[u] = bdocs[u] \/ Submits(t, u)
         /\ CanConnect /\ job[t].uri = u => Submits(t, u)
<1> DEFINE j == job[t]
           opened == u \in open
           entry == [text |-> j.text, rev |-> generation, open |-> opened,
                     queued |-> TRUE]
<1>0. /\ bdocs \in [Uris -> Entries \cup {None}] /\ j.text \in Nat /\ generation \in Nat
      /\ ~BridgeStopping
  BY DEF TypeOK, OutOfDate, StopOrder, BridgeStopping, StopLabels, Jobs, Texts
<1>1. CASE j.uri # u
  BY <1>0, <1>1 DEF Submit, ForgetDocument, SubmitDocument
<1>2. CASE j.uri = u /\ j.text = Absent
  BY <1>0, <1>2 DEF Submit, ForgetDocument, Submits, Held
<1>3. CASE j.uri = u /\ j.text # Absent
  <2>1. \/ CanConnect /\ bdocs' = [bdocs EXCEPT ![u] = entry]
        \/ /\ bdocs' = bdocs
           /\ CanConnect => /\ bdocs[u] # None
                            /\ [bdocs[u] EXCEPT !.queued = TRUE] = entry
    BY <1>0, <1>3 DEF Submit, SubmitDocument
  <2>2. opened \in BOOLEAN
    OBVIOUS
  <2> HIDE DEF opened
  <2>6. entry \in [text : Nat, rev : Nat, open : BOOLEAN, queued : BOOLEAN]
    BY <1>0, <2>2
  <2>3. entry.text = j.text /\ entry.rev = generation /\ entry.queued = TRUE
    OBVIOUS
  <2> HIDE DEF entry
  <2>7. entry # None
    BY <2>6, NoneAssumption
  <2>4. CASE CanConnect /\ bdocs' = [bdocs EXCEPT ![u] = entry]
    BY <1>0, <1>3, <2>3, <2>4, <2>7 DEF Submits, Held
  <2>8. CASE ~CanConnect /\ bdocs' = bdocs
    BY <2>8
  <2>5. CASE /\ bdocs' = bdocs /\ bdocs[u] # None /\ CanConnect
             /\ [bdocs[u] EXCEPT !.queued = TRUE] = entry
    <3>1. bdocs[u] \in Entries
      BY <1>0, <2>5
    <3>2. LET e == [bdocs[u] EXCEPT !.queued = TRUE]
          IN  e.text = bdocs[u].text /\ e.rev = bdocs[u].rev
      BY <3>1 DEF Entries
    <3> QED
      BY <1>3, <2>3, <2>5, <3>2 DEF Submits, Held
  <2> QED
    BY <2>1, <2>4, <2>5, <2>8
<1> QED
  BY <1>1, <1>2, <1>3

LEMMA SubmitNothing ==
  ASSUME NEW t \in Threads, Submit(t), OutOfDate(t)
  PROVE  bdocs' = bdocs
  BY DEF Submit

LEMMA Requeueing ==
  ASSUME TypeOK, NEW u \in Uris,
         \/ bdocs' = Requeued
         \/ \E v \in Uris : SavedDocument(v)
  PROVE  bdocs'[u] = bdocs[u] \/ Requeues(u)
<1>1. CASE bdocs[u] = None
  BY <1>1 DEF Requeued, SavedDocument, TypeOK
<1>2. CASE bdocs[u] # None
  <2> DEFINE e == [bdocs[u] EXCEPT !.queued = TRUE]
  <2>1. bdocs[u] \in Entries
    BY <1>2 DEF TypeOK
  <2>2. bdocs'[u] = bdocs[u] \/ bdocs'[u] = e
    BY <1>2 DEF Requeued, SavedDocument, TypeOK
  <2>3. e \in Entries /\ e.text = bdocs[u].text /\ e.rev = bdocs[u].rev /\ e.queued
    BY <2>1 DEF Entries
  <2>4. e # None
    BY <2>3, NoneAssumption DEF Entries, Texts
  <2> HIDE DEF e
  <2> QED
    BY <1>2, <2>2, <2>3, <2>4 DEF Requeues, Held
<1> QED
  BY <1>1, <1>2

(* What a step does to what the bridge holds of one document.              *)
LEMMA EntryFrame ==
  ASSUME TypeOK, StopOrder, [Next]_vars, NEW u \in Uris
  PROVE  \/ bdocs'[u] = bdocs[u]
         \/ \E t \in Threads : Submits(t, u)
         \/ Requeues(u)
         \/ BridgeTake(u)
<1>1. CASE Client
  <2>1. bdocs' = bdocs \/ bdocs' = Requeued \/ \E v \in Uris : SavedDocument(v)
    BY <1>1 DEF Client, DidOpen, DidChange, DidClose, DidSave, Reconnect,
       DidChangeWatchedFiles, RequestStop, CancelPull, PullReceived, bridge
  <2> QED
    BY <2>1, Requeueing
<1>2. CASE MainStep
  BY <1>2 DEF MainStep, UpdateDocument, RejectOpen, CloseDocument,
     PullRegister, StopBridge, JoinBridge, AnswerPending, bridge
<1>3. CASE WorkerStep \/ PickPoll \/ PickBackground
  BY <1>3 DEF WorkerStep, PickDirty, PollScan, PollLock, WorkerExit, PickPoll,
     PickBackground, bridge
<1>4. CASE BridgeStep
  <2>1. ASSUME NEW v \in Uris, BridgeTake(v) PROVE v = u \/ bdocs'[u] = bdocs[u]
    BY <2>1 DEF BridgeTake, TypeOK
  <2> QED
    BY <1>4, <2>1 DEF BridgeStep, EngineNotice, BridgeDrop, BridgeDone, BridgeExit, bridge
<1>5. CASE BridgeState
  <2>1. bdocs' = bdocs \/ bdocs' = Requeued
    BY <1>5 DEF BridgeState
  <2> QED
    BY <2>1, Requeueing
<1>6. ASSUME NEW t \in Threads, Step(t)
      PROVE  bdocs'[u] = bdocs[u] \/ Submits(t, u)
  <2>1. CASE Submit(t)
    BY <2>1, SubmitEffect, SubmitNothing
  <2>2. CASE ~Submit(t)
    BY <1>6, <2>2 DEF Step, Begin, Before, RefreshFile, After, Finish, ScanStamps, ScanUris,
       ScheduleFull, ReadSource, Compute, ReadVersion, Accept, bridge
  <2> QED
    BY <2>1, <2>2
<1>7. CASE UNCHANGED vars \/ Exited \/ \E v \in Uris : DiskWrite(v) \/ WriteBuffer(v)
  BY <1>7 DEF vars, Exited, DiskWrite, WriteBuffer, bridge
<1> QED
  BY <1>1, <1>2, <1>3, <1>4, <1>5, <1>6, <1>7 DEF Next

(* How the bridge's thread goes on.                                        *)
LEMMA BridgeMoves ==
  ASSUME TypeOK, Carried, [Next]_vars
  PROVE  \/ pc'["bridge"] = pc["bridge"] /\ job'["bridge"] = job["bridge"]
         \/ pc'["bridge"] \in {"idle", "notice", "exited"} /\ job'["bridge"] = NoJob
         \/ BridgeState /\ pc'["bridge"] = "stamps"
               /\ job'["bridge"] = [NoJob EXCEPT !.op = "scan"]
         \/ \E u \in Uris : BridgeTake(u)
         \/ BridgeDone /\ pc'["bridge"] = "version"
         \/ Step("bridge") /\ pc["bridge"] \in ScanPath /\ pc'["bridge"] \in ScanPath
               /\ Moves("bridge")
         \/ Step("bridge") /\ pc["bridge"] = "version" /\ Carries("bridge")
<1>0. "bridge" \in Threads /\ "main" \in Threads /\ "worker" \in Threads
  BY DEF Threads
<1>1. ASSUME NEW s \in Threads \ {"bridge"},
             \E label : Goto(s, label) \/ \E j : Become(s, label, j)
      PROVE  pc'["bridge"] = pc["bridge"] /\ job'["bridge"] = job["bridge"]
  BY <1>0, <1>1, BecomeAt, GotoAt
<1>2. CASE Client
  <2>1. \/ \E label : Goto("main", label) \/ \E j : Become("main", label, j)
        \/ UNCHANGED <<pc, job>>
    BY <1>2 DEF Client, DidOpen, DidChange, DidClose, DidSave, DidChangeWatchedFiles,
       Reconnect, RequestStop, CancelPull, PullReceived
  <2> QED
    BY <1>0, <1>1, <2>1
<1>3. CASE MainStep
  <2>1. \E label : Goto("main", label) \/ \E j : Become("main", label, j)
    BY <1>3 DEF MainStep, UpdateDocument, RejectOpen, CloseDocument, PullRegister,
       StopBridge, JoinBridge, AnswerPending, Return
  <2> QED
    BY <1>0, <1>1, <2>1
<1>4. CASE WorkerStep \/ PickPoll \/ PickBackground
  <2>1. \E label : Goto("worker", label) \/ \E j : Become("worker", label, j)
    BY <1>4 DEF WorkerStep, PickDirty, PollScan, PollLock, WorkerExit, PickPoll,
       PickBackground, Return
  <2> QED
    BY <1>0, <1>1, <2>1
<1>5. CASE BridgeStep
  <2>1. CASE EngineNotice \/ BridgeDrop \/ BridgeExit
    <3>1. \E label \in {"idle", "exited"} : Become("bridge", label, NoJob)
      BY <2>1 DEF EngineNotice, BridgeDrop, BridgeExit, Return
    <3> QED
      BY <1>0, <3>1, BecomeAt
  <2>2. CASE BridgeDone
    <3>1. Return("bridge") \/ \E j : Become("bridge", "version", j)
      BY <2>2 DEF BridgeDone
    <3> QED
      BY <1>0, <2>2, <3>1, BecomeAt, ReturnAt
  <2> QED
    BY <1>5, <2>1, <2>2 DEF BridgeStep
<1>6. CASE BridgeState
  BY <1>0, <1>6, BecomeAt DEF BridgeState
<1>7. ASSUME NEW t \in Threads, Step(t), t # "bridge"
      PROVE  pc'["bridge"] = pc["bridge"] /\ job'["bridge"] = job["bridge"]
  BY <1>0, <1>7, StepFrame
<1>8. CASE Step("bridge")
  <2>1. pc["bridge"] \in ScanPath \/ pc["bridge"] \in {"version", "accept"}
    BY <1>0, <1>8, StepMoves DEF Carried, Asking, Moves, ScanPath, Publish
  <2>2. CASE pc["bridge"] \in ScanPath
    BY <1>0, <1>8, <2>2, StepMoves DEF Moves, ScanPath, Publish
  <2>3. CASE pc["bridge"] \in {"version", "accept"}
    BY <1>0, <1>8, <2>3, PublishStep, ReturnAt DEF Publish, Carries
  <2> QED
    BY <2>1, <2>2, <2>3
<1>9. CASE UNCHANGED vars \/ Exited \/ \E u \in Uris : DiskWrite(u) \/ WriteBuffer(u)
  BY <1>9 DEF vars, Exited, DiskWrite, WriteBuffer
<1> QED
  BY <1>2, <1>3, <1>4, <1>5, <1>6, <1>7, <1>8, <1>9 DEF Next

(* What the bridge takes, and what it makes of the engine's report.        *)
LEMMA TakeEffect ==
  ASSUME TypeOK, NEW u \in Uris, BridgeTake(u)
  PROVE  LET k == job'["bridge"] IN
         /\ pc["bridge"] = "idle" /\ pc'["bridge"] = "busy" /\ session # 0
         /\ k.uri = u /\ k.notify /\ k.gen = bdocs[u].rev /\ k.text = bdocs[u].text
         /\ Held(u) /\ Held(u)' /\ ~bdocs'[u].queued
         /\ bdocs'[u].rev = bdocs[u].rev /\ bdocs'[u].text = bdocs[u].text
         /\ UNCHANGED <<docs, generation, stopping, ready, session, epoch, dirty,
                        background, published>>
<1> DEFINE r == bdocs[u].rev
           x == bdocs[u].text
           j == [NoJob EXCEPT !.op = "publish", !.uri = u, !.gen = r, !.text = x,
                              !.notify = TRUE]
           e == [bdocs[u] EXCEPT !.queued = FALSE]
<1>0. bdocs[u] \in Entries /\ "bridge" \in Threads /\ bdocs[u] # None
  BY DEF BridgeTake, TypeOK, Threads
<1>1. Become("bridge", "busy", j)
  BY DEF BridgeTake
<1>2. j.uri = u /\ j.notify /\ j.gen = r /\ j.text = x
  BY DEF NoJob
<1>3. bdocs'[u] = e
  BY DEF BridgeTake, TypeOK
<1>4. e \in [text : Nat, rev : Nat, open : BOOLEAN, queued : BOOLEAN]
      /\ e.text = x /\ e.rev = r /\ ~e.queued
  BY <1>0 DEF Entries, Texts
<1>5. UNCHANGED <<docs, generation, stopping, ready, session, epoch, dirty, background,
                  published>>
  BY DEF BridgeTake, files, coordinator, queues, client
<1> HIDE DEF j, e
<1>6. e # None
  BY <1>4, NoneAssumption
<1>7. pc'["bridge"] = "busy" /\ job'["bridge"] = j
  BY <1>0, <1>1, BecomeAt
<1> QED
  BY <1>0, <1>2, <1>3, <1>4, <1>5, <1>6, <1>7 DEF BridgeTake, Held

LEMMA DoneEffect ==
  ASSUME TypeOK, BridgeDone, pc'["bridge"] = "version"
  PROVE  LET j == job["bridge"]
             k == job'["bridge"]
         IN  /\ pc["bridge"] = "busy" /\ SameTask(k, j) /\ k.text = j.text
             /\ k.items = EngineItems(j.text)
             /\ UNCHANGED <<files, client, buffers, coordinator, bridge>>
<1> DEFINE j == job["bridge"]
           i == EngineItems(j.text)
           k == [j EXCEPT !.items = i]
<1>0. "bridge" \in Threads /\ j \in Jobs
  BY DEF TypeOK, Threads
<1>1. Become("bridge", "version", k)
  <2>1. ~Return("bridge")
    BY <1>0, ReturnAt
  <2> QED
    BY <2>1 DEF BridgeDone
<1> HIDE DEF i
<1>2. SameTask(k, j) /\ k.text = j.text /\ k.items = i
  BY <1>0 DEF Jobs, SameTask
<1> HIDE DEF k
<1>3. job'["bridge"] = k
  BY <1>0, <1>1, BecomeAt
<1> QED
  BY <1>2, <1>3 DEF BridgeDone, i

LEMMA LinkedNext ==
  ASSUME IInv, Linked, [Next]_vars PROVE Linked'
<1>1. ~CanConnect => Alone'
  BY AloneNext DEF Linked, IInv
<1>2. ready' /\ ~stopping' => session' = epoch'
  <2> SUFFICES ASSUME ready', ~stopping' PROVE session' = epoch'
    OBVIOUS
  <2>1. ~stopping
    BY StopsForGood
  <2>2. CASE Reconnect
    BY <2>2 DEF Reconnect
  <2>3. CASE StopBridge
    BY <2>1, <2>3 DEF StopBridge, IInv, PullInv, StopOrder, StopLabels
  <2>4. CASE BridgeState
    BY <2>4 DEF BridgeState
  <2>5. CASE BridgeDrop
    BY <2>1, <2>5 DEF BridgeDrop, Linked
  <2> QED
    BY <2>1, <2>2, <2>3, <2>4, <2>5, EngineFrame DEF Linked
<1> QED
  BY <1>1, <1>2 DEF Linked

LEMMA CarriedNext ==
  ASSUME IInv, Carried, Entered, [Next]_vars PROVE Carried'
<1> DEFINE j == job["bridge"]
           k == job'["bridge"]
<1>0. /\ TypeOK /\ generation \in Nat /\ j.gen \in Nat /\ j.gen <= generation
      /\ generation' \in Nat /\ generation <= generation'
  <2>1. TypeOK /\ generation \in Nat /\ j.gen \in Nat /\ j.gen <= generation
    BY DEF IInv, TypeOK, Threads, Jobs, Carried
  <2> QED
    BY <2>1, GenerationMoves
<1>1. CASE pc'["bridge"] = pc["bridge"] /\ job'["bridge"] = job["bridge"]
  BY <1>0, <1>1 DEF Carried
<1>2. CASE /\ \/ k = NoJob /\ pc'["bridge"] \in {"idle", "notice", "exited"}
              \/ k = [NoJob EXCEPT !.op = "scan"] /\ pc'["bridge"] = "stamps"
  <2>1. k.gen = 0
    BY <1>2 DEF NoJob
  <2> QED
    BY <1>0, <1>2, <2>1 DEF Carried, Asking, ScanPath
<1>3. ASSUME NEW u \in Uris, BridgeTake(u) PROVE Carried'
  <2>1. bdocs[u].rev <= generation
    BY <1>0, <1>3, TakeEffect DEF Entered
  <2> QED
    BY <1>0, <1>3, <2>1, TakeEffect DEF Carried, Asking
<1>4. CASE BridgeDone /\ pc'["bridge"] = "version"
  BY <1>0, <1>4, DoneEffect DEF Carried, Asking, SameTask
<1>5. CASE Step("bridge") /\ pc["bridge"] \in ScanPath /\ pc'["bridge"] \in ScanPath
           /\ Moves("bridge")
  BY <1>0, <1>5 DEF Carried, Asking, ScanPath, Moves, SameTask
<1>6. CASE pc["bridge"] = "version" /\ Carries("bridge")
  BY <1>0, <1>6 DEF Carried, Asking, Carries, SameTask
<1> QED
  BY <1>0, <1>1, <1>2, <1>3, <1>4, <1>5, <1>6, BridgeMoves

LEMMA EnteredNext ==
  ASSUME IInv, Linked, Carried, Entered, [Next]_vars PROVE Entered'
<1>0. /\ TypeOK /\ StopOrder /\ generation \in Nat
      /\ generation' \in Nat /\ generation <= generation'
  <2>1. TypeOK /\ StopOrder /\ generation \in Nat
    BY DEF IInv, TypeOK, PullInv
  <2> QED
    BY <2>1, GenerationMoves
<1> DEFINE Right(u) == /\ CanConnect /\ bdocs[u].rev <= generation
                       /\ bdocs[u].text # Absent
                       /\ ready /\ pc["bridge"] \in ScanPath => bdocs[u].queued
           Last(u) == bdocs[u].text = job["bridge"].text
                      /\ bdocs[u].rev = job["bridge"].gen
<1>1. ASSUME NEW u \in Uris, Held(u)' PROVE Right(u)'
  <2>1. ASSUME ready', pc'["bridge"] \in ScanPath
        PROVE  bdocs'[u].queued \/ (ready /\ pc["bridge"] \in ScanPath)
    <3>1. CASE BridgeState
      <4>1. bdocs' = Requeued
        BY <2>1, <3>1 DEF BridgeState
      <4>2. bdocs'[u] = [bdocs[u] EXCEPT !.queued = TRUE] /\ bdocs[u] \in Entries
        BY <1>0, <1>1, <4>1 DEF Requeued, Held, TypeOK
      <4> QED
        BY <4>2 DEF Entries
    <3>2. CASE ~BridgeState
      <4>1. ready
        BY <2>1, <3>2, EngineFrame DEF Reconnect, StopBridge, BridgeDrop
      <4>2. pc["bridge"] \in ScanPath
        BY <1>0, <2>1, <3>2, BridgeMoves, TakeEffect DEF ScanPath, Carries
      <4> QED
        BY <4>1, <4>2
    <3> QED
      BY <3>1, <3>2
  <2>2. CASE bdocs'[u] = bdocs[u]
    <3>1. Held(u) /\ bdocs[u].rev \in Nat
      BY <1>0, <1>1, <2>2 DEF Held, TypeOK, Entries
    <3> QED
      BY <1>0, <2>1, <2>2, <3>1 DEF Entered
  <2>3. CASE Requeues(u)
    <3>1. bdocs[u].rev \in Nat
      BY <1>0, <2>3 DEF Requeues, Held, TypeOK, Entries
    <3> QED
      BY <1>0, <2>3, <3>1 DEF Entered, Requeues
  <2>4. ASSUME NEW t \in Threads, Submits(t, u), bdocs'[u] # bdocs[u] PROVE Right(u)'
    <3>1. /\ CanConnect /\ bdocs'[u].rev = generation /\ bdocs'[u].queued
          /\ bdocs'[u].text = job[t].text /\ job[t].text # Absent
      BY <1>1, <2>4 DEF Submits
    <3> QED
      BY <1>0, <3>1
  <2>5. CASE BridgeTake(u)
    <3>1. bdocs[u].rev \in Nat /\ Held(u)
      BY <1>0, <2>5, TakeEffect DEF Held, TypeOK, Entries
    <3> QED
      BY <1>0, <2>5, <3>1, TakeEffect DEF Entered, ScanPath
  <2> QED
    BY <1>0, <2>2, <2>3, <2>4, <2>5, EntryFrame
<1>2. ASSUME NEW u \in Uris, AskingFor(u)', Held(u)', ~bdocs'[u].queued PROVE Last(u)'
  <2>1. CASE BridgeTake(u)
    BY <1>0, <2>1, TakeEffect
  <2>2. CASE ~BridgeTake(u)
    <3>1. /\ AskingFor(u)
          /\ job'["bridge"].text = job["bridge"].text
          /\ job'["bridge"].gen = job["bridge"].gen
      <4>1. ASSUME NEW v \in Uris, BridgeTake(v) PROVE FALSE
        BY <1>0, <1>2, <2>2, <4>1, TakeEffect DEF AskingFor
      <4> QED
        BY <1>0, <1>2, <4>1, BridgeMoves, DoneEffect
           DEF AskingFor, Asking, ScanPath, Carries, SameTask
    <3>2. bdocs'[u] = bdocs[u]
      BY <1>0, <1>2, <2>2, EntryFrame DEF Submits, Requeues, Held
    <3> QED
      BY <1>2, <3>1, <3>2 DEF Entered, Held
  <2> QED
    BY <2>1, <2>2
<1> QED
  BY <1>1, <1>2 DEF Entered

(***************************************************************************)
(* When the editor's saves alone write the disk, a text changes when an    *)
(* edit is applied, or a refresh comes before the edit does.               *)
(***************************************************************************)

(* An open that is over has put its buffer into the index.                 *)
LEMMA OpeningEnds ==
  ASSUME IInv, Tasks, [Next]_vars, NEW u \in Uris \ Outside, Opening(u), ~Opening(u)'
  PROVE  docs'[u].buffer
<1>0. TypeOK /\ "main" \in Threads /\ pc["main"] \in {"begin", "apply"}
      /\ job["main"].op = "open" /\ job["main"].uri = u
  BY DEF IInv, Threads, Opening
<1>1. CASE Step("main")
  <2>1. CASE Begin("main")
    <3>1. pc'["main"] = "apply" /\ job'["main"] = job["main"]
      BY <1>0, <2>1, GotoAt DEF Begin
    <3> QED
      BY <1>0, <3>1 DEF Opening
  <2>2. CASE ~Begin("main")
    BY <1>0, <1>1, <2>2 DEF Step, Before, RefreshFile, After, Finish, ScanStamps, ScanUris,
       ScheduleFull, ReadSource, Submit, Compute, ReadVersion, Accept
  <2> QED
    BY <2>1, <2>2
<1>2. CASE UpdateDocument
  <2>1. docs' = [docs EXCEPT ![u] = [text |-> job["main"].text, buffer |-> TRUE]]
    BY <1>0, <1>2 DEF UpdateDocument
  <2> QED
    BY <1>0, <2>1 DEF TypeOK
<1>3. ~CloseDocument
  BY <1>0 DEF CloseDocument
<1> QED
  BY <1>0, <1>1, <1>2, <1>3, OnlyItself DEF Underway, Opening

LEMMA SettledNext ==
  ASSUME "disk" \notin Traffic, IInv, Tasks, Settled, [Next]_vars PROVE Settled'
<1> SUFFICES ASSUME NEW u \in Uris \ Outside, ~docs'[u].buffer, ~Opening(u)'
             PROVE  docs'[u].text = disk'[u]
  BY DEF Settled, Opening
<1>0. TypeOK
  BY DEF IInv
<1>1. CASE disk' = disk
  <2>1. CASE docs'[u] = docs[u]
    BY <1>1, <2>1, OpeningEnds DEF Settled
  <2>2. CASE docs'[u] # docs[u]
    BY <1>1, <2>2, Replaced
  <2> QED
    BY <2>1, <2>2
<1>2. ASSUME NEW v \in Uris, WriteBuffer(v) PROVE docs'[u].text = disk'[u]
  <2>1. docs' = docs /\ UNCHANGED <<pc, job>> /\ ~docs[u].buffer
    BY <1>2 DEF WriteBuffer
  <2>2. ~Opening(u)
    BY <2>1 DEF Opening
  <2>3. CASE u = v
    <3>1. buffers[u] # Absent /\ ~Agree(u)
      BY <1>2, <2>1, <2>3 DEF WriteBuffer, Agree
    <3>2. Coming(u)
      BY <3>1 DEF IInv, BuffersAgree
    <3>3. job["main"].op \in {"change", "close"}
      BY <2>2, <3>2 DEF Coming, Opening, IInv, EditPlaced
    <3> QED
      BY <2>1, <3>2, <3>3 DEF Coming, IInv, Buffered
  <2>4. CASE u # v
    <3>1. disk'[u] = disk[u]
      BY <1>0, <1>2, <2>4 DEF WriteBuffer, TypeOK
    <3> QED
      BY <2>1, <2>2, <3>1 DEF Settled
  <2> QED
    BY <2>3, <2>4
<1>3. ~\E v \in Uris : DiskWrite(v)
  BY DEF DiskWrite
<1> QED
  BY <1>1, <1>2, <1>3, Frames

(* Whoever changes a text was on its way to, and is not any more.          *)
LEMMA OnlyEdits ==
  ASSUME IInv, Tasks, Settled, [Next]_vars, NEW u \in Uris,
         docs'[u].text # docs[u].text
  PROVE  /\ pc["main"] \in {"begin", "apply"}
         /\ bdocs' = bdocs /\ ready' = ready /\ published' = published
         /\ \/ pc["main"] = "apply" /\ Awaits("main", u) /\ ~Awaits("main", u)'
            \/ pc["worker"] = "apply" /\ pc'["worker"] = "apply"
                  /\ Awaits("worker", u) /\ ~Awaits("worker", u)'
<1>0. TypeOK /\ "main" \in Threads /\ "worker" \in Threads
  BY DEF IInv, Threads
<1>1. CASE UpdateDocument
  <2> DEFINE m == job["main"]
             new == [docs EXCEPT ![m.uri] = [text |-> m.text, buffer |-> TRUE]]
             scope == Affected(docs, {m.uri}) \cup Affected(new, {m.uri})
             j == [m EXCEPT !.scope = scope]
  <2>1. Become("main", "finish", j) /\ m.op \in {"open", "change"} /\ m.uri = u
        /\ pc["main"] = "apply"
    BY <1>0, <1>1 DEF UpdateDocument, TypeOK
  <2> HIDE DEF j
  <2>2. pc'["main"] = "finish"
    BY <1>0, <2>1, BecomeAt
  <2> QED
    BY <1>1, <2>1, <2>2 DEF UpdateDocument, EditOps, Awaits, AtUpdate, client, bridge
<1>2. CASE CloseDocument
  <2>1. Goto("main", "after") /\ job["main"].op = "close" /\ job["main"].uri = u
        /\ pc["main"] = "apply"
    BY <1>0, <1>2 DEF CloseDocument, TypeOK
  <2>2. pc'["main"] = "after"
    BY <1>0, <2>1, GotoAt
  <2> QED
    BY <1>2, <2>1, <2>2 DEF CloseDocument, EditOps, Awaits, AtUpdate, client, bridge
<1>3. ASSUME NEW t \in Threads, RefreshFile(t)
      PROVE  /\ pc["main"] \in {"begin", "apply"}
             /\ bdocs' = bdocs /\ ready' = ready /\ published' = published
             /\ \/ pc["main"] = "apply" /\ Awaits("main", u) /\ ~Awaits("main", u)'
                \/ pc["worker"] = "apply" /\ pc'["worker"] = "apply"
                      /\ Awaits("worker", u) /\ ~Awaits("worker", u)'
  <2>1. PICK v \in job[t].todo :
           /\ docs' = IF docs[v].buffer THEN docs
                      ELSE [docs EXCEPT ![v] = OnDisk(disk[v])]
           /\ job' = [job EXCEPT ![t].todo = @ \ {v}]
    BY <1>3 DEF RefreshFile
  <2>2. u = v /\ ~docs[u].buffer /\ docs[u].text # disk[u] /\ u \in job[t].todo
    BY <1>0, <2>1 DEF TypeOK, OnDisk
  <2>3. pc[t] = "apply" /\ pc' = pc /\ job[t].op \in {"watch", "poll"}
        /\ bdocs' = bdocs /\ ready' = ready /\ published' = published
    BY <1>3 DEF RefreshFile, client, bridge
  <2>4. u \notin job'[t].todo /\ job'[t].op = job[t].op
    <3>1. job[t] \in Jobs /\ job'[t] = [job[t] EXCEPT !.todo = job[t].todo \ {v}]
      BY <1>0, <2>1 DEF TypeOK
    <3> QED
      BY <2>2, <3>1 DEF Jobs
  <2>5. Awaits(t, u) /\ ~Awaits(t, u)'
    BY <2>2, <2>3, <2>4 DEF Awaits, EditOps, AtUpdate
  <2>6. t # "bridge"
    BY <2>2 DEF Tasks, InRoot
  <2>7. CASE t = "main"
    BY <2>3, <2>5, <2>7
  <2>8. CASE t = "worker"
    <3>1. u \notin Outside
      BY <2>2, <2>8 DEF Tasks, InRoot
    <3>2. Opening(u)
      BY <2>2, <3>1 DEF Settled
    <3> QED
      BY <2>3, <2>5, <2>8, <3>2 DEF Opening
  <2> QED
    BY <2>6, <2>7, <2>8 DEF Threads
<1> QED
  BY <1>1, <1>2, <1>3, Frames

(***************************************************************************)
(* The worker and what it has in hand.                                     *)
(***************************************************************************)

LEMMA WorkerGoesOn ==
  ASSUME TypeOK, [Next]_vars, pc'["worker"] \in AtWork
  PROVE  \/ pc'["worker"] = pc["worker"] /\ job'["worker"] = job["worker"]
         \/ Step("worker") /\ pc["worker"] \in Publish /\ Carries("worker")
<1>0. "worker" \in Threads
  BY DEF Threads
<1>1. CASE Step("worker") /\ pc["worker"] \in Publish
  BY <1>0, <1>1, PublishStep, ReturnAt DEF AtWork
<1> QED
  BY <1>1, WorkerUnderway

LEMMA ClaimedNext ==
  ASSUME TypeOK, Claimed, [Next]_vars PROVE Claimed'
  BY WorkerGoesOn DEF Claimed, AtWork, Carries

(* A document is stale by a step of its generation, which did not scan.    *)
LEMMA StaleFrom ==
  ASSUME IInv, Tasks, [Next]_vars, Stale'
  PROVE  /\ generation' = generation /\ ~FullScan
         /\ job'["worker"].uri = job["worker"].uri /\ job["worker"].uri \in Uris
         /\ docs'[job["worker"].uri].text = docs[job["worker"].uri].text => Stale
<1> DEFINE j == job["worker"]
           k == job'["worker"]
<1>0. /\ TypeOK /\ "worker" \in Threads /\ j.gen <= generation /\ j.gen \in Nat
      /\ generation \in Nat
  BY DEF IInv, TypeOK, Threads, Jobs, Tasks, AllPlaced, Placed
<1>1. /\ k.uri = j.uri /\ k.gen = j.gen /\ j.uri \in Uris
      /\ \/ pc'["worker"] = pc["worker"] /\ k = j
         \/ Step("worker") /\ pc["worker"] \in Publish /\ Carries("worker")
  <2>1. pc'["worker"] \in AtWork
    BY DEF Stale
  <2> QED
    BY <1>0, <2>1, WorkerGoesOn
       DEF Carries, SameTask, IInv, UriKnown, Holders, AtWork, Publish
<1>2. k.gen = generation' /\ pc'["worker"] \in AtWork /\ k.text # docs'[k.uri].text
  BY DEF Stale
<1>3. generation' = generation
  BY <1>0, <1>1, <1>2, GenerationMoves
<1>4. ~FullScan
  BY <1>0, <1>3 DEF FullScan, ScheduleFull
<1>5. ASSUME docs'[j.uri].text = docs[j.uri].text PROVE Stale
  <2>1. pc["worker"] # "source" /\ k.text = j.text /\ pc["worker"] \in Publish
    BY <1>1, <1>2, <1>5 DEF Carries, AtWork, Publish
  <2> QED
    BY <1>1, <1>2, <1>3, <1>5, <2>1 DEF Stale, AtWork, Publish
<1> QED
  BY <1>1, <1>3, <1>4, <1>5

(* The end of the bridge's scan is a full scan.                            *)
LEMMA ScanEnds ==
  ASSUME TypeOK, [Next]_vars, pc["bridge"] \in ScanPath, pc'["bridge"] \notin ScanPath
  PROVE  generation' = generation + 1
<1>0. "bridge" \in Threads
  BY DEF Threads
<1>1. Step("bridge")
  BY <1>0, OnlyItself DEF Underway
<1>2. ScheduleFull("bridge")
  <2>1. ~(ScanStamps("bridge") \/ ScanUris("bridge"))
    BY <1>0, BecomeAt DEF ScanStamps, ScanUris, ScanPath
  <2> QED
    BY <1>1, <2>1 DEF Step, ScanPath, Begin, Before, RefreshFile, After, Finish, ReadSource,
       Submit, Compute, ReadVersion, Accept
<1> QED
  BY <1>2 DEF ScheduleFull

(* While the worker stays stale the engine does not become ready, but for  *)
(* a scan that is still to come.                                           *)
LEMMA StaleReady ==
  ASSUME IInv, Tasks, Carried, [Next]_vars, Stale', ready', pc'["bridge"] \notin ScanPath
  PROVE  ready /\ pc["bridge"] \notin ScanPath
<1>0. TypeOK /\ "bridge" \in Threads /\ generation \in Nat
  BY DEF IInv, Threads, TypeOK
<1>1. ~BridgeState
  BY <1>0, BecomeAt DEF BridgeState, ScanPath
<1>2. ready
  BY <1>1, EngineFrame DEF Reconnect, StopBridge, BridgeDrop
<1> QED
  BY <1>0, <1>2, StaleFrom, ScanEnds

(***************************************************************************)
(* The main thread, its edits and its requests.                            *)
(***************************************************************************)

LEMMA MainMoves ==
  ASSUME TypeOK, [Next]_vars
  PROVE  \/ pc'["main"] = pc["main"] /\ job'["main"] = job["main"]
         \/ pc'["main"] \notin {"before", "apply", "pull", "source", "submit"}
         \/ pc'["main"] \in {"before", "apply"} /\ generation' = generation + 1
               /\ UNCHANGED <<docs, bdocs>>
         \/ /\ {pc["main"], pc'["main"]} \subseteq {"before", "apply"}
            /\ job'["main"].op = job["main"].op /\ job'["main"].uri = job["main"].uri
            /\ job'["main"].todo \subseteq job["main"].todo
         \/ /\ pc'["main"] = "pull" /\ (job'["main"].engine <=> ready)
            /\ UNCHANGED <<docs, generation, ready, bdocs, pc["bridge"], job["worker"]>>
         \/ /\ pc["main"] = "pull" /\ pc'["main"] = "source"
            /\ ~job["main"].engine /\ ~job'["main"].engine
         \/ Step("main") /\ pc["main"] = "source" /\ Carries("main")
<1>0. "main" \in Threads /\ "worker" \in Threads /\ "bridge" \in Threads
  BY DEF Threads
<1>1. ASSUME NEW s \in Threads \ {"main"},
             \E label : Goto(s, label) \/ \E j : Become(s, label, j)
      PROVE  pc'["main"] = pc["main"] /\ job'["main"] = job["main"]
  BY <1>0, <1>1, BecomeAt, GotoAt
<1>2. CASE Client
  <2>1. ASSUME NEW u \in Uris, DidChange(u)
        PROVE  pc'["main"] = "apply" /\ generation' = generation + 1
                 /\ UNCHANGED <<docs, bdocs>>
    BY <1>0, <2>1, BecomeAt DEF DidChange, BeginUpdate, bridge
  <2>2. ASSUME NEW S \in SUBSET Uris, DidChangeWatchedFiles(S)
        PROVE  pc'["main"] = "before" /\ generation' = generation + 1
                 /\ UNCHANGED <<docs, bdocs>>
    BY <1>0, <2>2, BecomeAt DEF DidChangeWatchedFiles, BeginUpdate, bridge, files
  <2>3. ASSUME NEW p \in PullIds, NEW u \in Uris, PullReceived(p, u)
        PROVE  /\ pc'["main"] = "pull" /\ (job'["main"].engine <=> ready)
               /\ UNCHANGED <<docs, generation, ready, bdocs, pc["bridge"], job["worker"]>>
    <3> DEFINE e == ready
               ps == {p}
               i == [NoJob EXCEPT !.op = "publish", !.uri = u, !.engine = e, !.pulls = ps]
    <3>1. Become("main", "pull", i)
      BY <2>3 DEF PullReceived
    <3> HIDE DEF e, ps
    <3>2. i.engine = e
      BY DEF NoJob
    <3> HIDE DEF i
    <3>3. pc'["main"] = "pull" /\ job'["main"] = i
          /\ pc'["bridge"] = pc["bridge"] /\ job'["worker"] = job["worker"]
      BY <1>0, <3>1, BecomeAt
    <3> QED
      BY <2>3, <3>2, <3>3 DEF PullReceived, e, files, coordinator, queues, bridge
  <2>4. ASSUME NEW label \in {"begin", "stamps", "stopbridge"},
               NEW j, Become("main", label, j)
        PROVE  pc'["main"] \notin {"before", "apply", "pull", "source", "submit"}
    BY <1>0, <2>4, BecomeAt
  <2>5. CASE \/ \E u \in Uris : DidOpen(u) \/ DidClose(u) \/ DidSave(u)
             \/ Reconnect \/ RequestStop
    BY <2>4, <2>5 DEF DidOpen, DidClose, DidSave, Reconnect, RequestStop
  <2>6. CASE \E p \in PullIds : CancelPull(p)
    BY <2>6 DEF CancelPull
  <2> QED
    BY <1>2, <2>1, <2>2, <2>3, <2>5, <2>6 DEF Client
<1>3. CASE MainStep
  <2>1. CASE PullRegister
    <3>1. CASE Return("main")
      BY <1>0, <3>1, ReturnAt
    <3>2. CASE ~Return("main")
      <4> DEFINE x == job["main"].uri
                 g == generation
                 i == [NoJob EXCEPT !.op = "publish", !.uri = x, !.gen = g]
      <4>1. Become("main", "source", i) /\ ~job["main"].engine /\ pc["main"] = "pull"
        BY <2>1, <3>2 DEF PullRegister
      <4> HIDE DEF x, g
      <4>2. ~i.engine
        BY DEF NoJob
      <4> HIDE DEF i
      <4> QED
        BY <1>0, <4>1, <4>2, BecomeAt
    <3> QED
      BY <3>1, <3>2
  <2>2. CASE ~PullRegister
    <3>1. \E label \in {"finish", "reject", "idle", "after", "join", "drain", "exited"} :
            Goto("main", label) \/ \E j : Become("main", label, j)
      BY <1>3, <2>2 DEF MainStep, UpdateDocument, RejectOpen, CloseDocument,
         StopBridge, JoinBridge, AnswerPending, Return
    <3> QED
      BY <1>0, <3>1, BecomeAt, GotoAt
  <2> QED
    BY <2>1, <2>2
<1>4. CASE WorkerStep \/ PickPoll \/ PickBackground
  <2>1. \E label : Goto("worker", label) \/ \E j : Become("worker", label, j)
    BY <1>4 DEF WorkerStep, PickDirty, PollScan, PollLock, WorkerExit, PickPoll,
       PickBackground, Return
  <2> QED
    BY <1>0, <1>1, <2>1
<1>5. CASE BridgeStep \/ BridgeState
  <2>1. \E label, j : Become("bridge", label, j)
    BY <1>5 DEF BridgeStep, BridgeState, EngineNotice, BridgeDrop, BridgeDone,
       BridgeExit, BridgeTake, Return
  <2> QED
    BY <1>0, <1>1, <2>1
<1>6. ASSUME NEW t \in Threads, Step(t), t # "main"
      PROVE  pc'["main"] = pc["main"] /\ job'["main"] = job["main"]
  BY <1>0, <1>6, StepFrame
<1>7. CASE Step("main")
  <2>1. CASE pc["main"] \in Publish
    BY <1>0, <1>7, <2>1, PublishStep, ReturnAt DEF Carries
  <2>2. CASE Begin("main")
    BY <1>0, <2>2, GotoAt DEF Begin, BeginUpdate, files, bridge
  <2>3. CASE pc["main"] \notin Publish /\ ~Begin("main")
    <3>1. CASE pc["main"] = "begin"
      BY <1>7, <2>3, <3>1 DEF Step, Before, RefreshFile, After, Finish, ScanStamps, ScanUris,
         ScheduleFull, ReadSource, Submit, Compute, ReadVersion, Accept
    <3>2. CASE pc["main"] # "begin"
      BY <1>0, <1>7, <2>3, <3>2, StepMoves DEF Moves, SameTask, ScanPath, Publish
    <3> QED
      BY <3>1, <3>2
  <2> QED
    BY <2>1, <2>2, <2>3
<1>8. CASE UNCHANGED vars \/ Exited \/ \E u \in Uris : DiskWrite(u) \/ WriteBuffer(u)
  BY <1>8 DEF vars, Exited, DiskWrite, WriteBuffer
<1> QED
  BY <1>2, <1>3, <1>4, <1>5, <1>6, <1>7, <1>8 DEF Next

(* A thread comes into its update by a new generation.                     *)
LEMMA UpdatesGoOn ==
  ASSUME TypeOK, [Next]_vars, NEW t \in {"main", "worker"}, pc'[t] \in AtUpdate
  PROVE  \/ generation' = generation + 1 /\ UNCHANGED <<docs, bdocs>>
         \/ /\ pc[t] \in AtUpdate
            /\ job'[t].op = job[t].op /\ job'[t].uri = job[t].uri
            /\ job'[t].todo \subseteq job[t].todo
<1>1. CASE t = "main"
  BY <1>1, MainMoves DEF AtUpdate, Carries
<1>2. CASE t = "worker"
  <2>0. "worker" \in Threads
    BY DEF Threads
  <2>1. CASE Begin("worker")
    BY <2>1 DEF Begin, BeginUpdate, files, bridge
  <2>2. CASE Step("worker") /\ ~Begin("worker")
    <3>1. pc["worker"] # "begin"
      BY <2>2 DEF Step, Before, RefreshFile, After, Finish, ScanStamps, ScanUris,
         ScheduleFull, ReadSource, Submit, Compute, ReadVersion, Accept
    <3> QED
      BY <1>2, <2>0, <2>2, <3>1, StepMoves DEF Moves, SameTask, ScanPath, Publish, AtUpdate
  <2> QED
    BY <1>2, <2>1, <2>2, WorkerSteps DEF AtUpdate
<1> QED
  BY <1>1, <1>2

LEMMA UntouchedNext ==
  ASSUME IInv, Tasks, Settled, Carried, Entered, Requested, Untouched, [Next]_vars
  PROVE  Untouched'
<1>0. /\ TypeOK /\ StopOrder /\ generation \in Nat /\ generation' \in Nat
      /\ generation <= generation'
  <2>1. TypeOK /\ StopOrder /\ generation \in Nat
    BY DEF IInv, TypeOK, PullInv
  <2> QED
    BY <2>1, GenerationMoves
<1>1. ASSUME generation' = generation + 1, UNCHANGED <<docs, bdocs>>
      PROVE  ~Stale' /\ \A u \in Uris : Held(u)' => bdocs'[u].rev # generation'
  <2>1. ~Stale'
    BY <1>0, <1>1, StaleFrom
  <2>2. ASSUME NEW u \in Uris, Held(u)' PROVE bdocs'[u].rev # generation'
    <3>1. Held(u) /\ bdocs[u].rev \in Nat
      BY <1>0, <1>1, <2>2 DEF Held, TypeOK, Entries
    <3>2. bdocs[u].rev <= generation
      BY <3>1 DEF Entered
    <3> QED
      BY <1>0, <1>1, <3>1, <3>2
  <2> QED
    BY <2>1, <2>2
<1>2. ASSUME NEW t \in {"main", "worker"}, NEW u \in Uris, Awaits(t, u)'
      PROVE  /\ Stale' => job'["worker"].uri # u
             /\ Held(u)' /\ bdocs'[u].rev = generation' => bdocs'[u].text = docs'[u].text
  <2>1. CASE generation' = generation + 1 /\ UNCHANGED <<docs, bdocs>>
    BY <1>1, <2>1
  <2>2. CASE ~(generation' = generation + 1 /\ UNCHANGED <<docs, bdocs>>)
    <3>0. Awaits(t, u)
      BY <1>0, <1>2, <2>2, UpdatesGoOn DEF Awaits
    <3>1. Held(u) => bdocs[u].rev \in Nat /\ bdocs[u].rev <= generation
      BY <1>0 DEF Held, TypeOK, Entries, Entered
    <3>2. CASE docs'[u].text = docs[u].text
      <4>1. ASSUME Stale' PROVE job'["worker"].uri # u
        BY <3>0, <3>2, <4>1, StaleFrom DEF Untouched
      <4>2. ASSUME Held(u)', bdocs'[u].rev = generation'
            PROVE  bdocs'[u].text = docs'[u].text
        <5>1. Held(u) /\ bdocs[u].rev = generation => bdocs[u].text = docs[u].text
          BY <3>0 DEF Untouched
        <5>2. CASE Held(u) /\ bdocs'[u].rev = bdocs[u].rev /\ bdocs'[u].text = bdocs[u].text
          BY <1>0, <3>1, <3>2, <4>2, <5>1, <5>2
        <5>3. ASSUME NEW s \in Threads, Submits(s, u) PROVE bdocs'[u].text = docs[u].text
          <6>1. pc[s] = "submit" /\ job[s].uri = u /\ job[s].gen = generation
                /\ bdocs'[u].text = job[s].text
            BY <4>2, <5>3 DEF Submits, Submit, OutOfDate
          <6>2. s \in {"main", "worker"}
            BY <6>1 DEF Threads, Carried, Asking, ScanPath
          <6>3. CASE s = "main"
            BY <6>1, <6>3 DEF Requested
          <6>4. CASE s = "worker"
            BY <3>0, <6>1, <6>4 DEF Untouched, Stale, AtWork
          <6> QED
            BY <6>2, <6>3, <6>4
        <5> QED
          BY <1>0, <3>2, <4>2, <5>2, <5>3, EntryFrame, TakeEffect DEF Requeues, Held
      <4> QED
        BY <4>1, <4>2
    <3>3. CASE docs'[u].text # docs[u].text
      <4>1. bdocs' = bdocs /\ pc["main"] \in AtUpdate /\ pc["worker"] \in AtUpdate
            /\ pc'["worker"] \notin AtWork
        <5>1. CASE t = "main"
          BY <1>2, <3>0, <3>3, <5>1, OnlyEdits DEF Awaits, AtUpdate, AtWork
        <5>2. CASE t = "worker"
          BY <1>2, <3>0, <3>3, <5>2, OnlyEdits DEF Awaits, AtUpdate, AtWork
        <5> QED
          BY <5>1, <5>2
      <4>2. ~Stale'
        BY <4>1 DEF Stale
      <4>3. ASSUME Held(u)', bdocs'[u].rev = generation' PROVE FALSE
        <5>1. Held(u) /\ bdocs[u].rev = generation'
          BY <4>1, <4>3 DEF Held
        <5>2. bdocs[u].rev # generation
          BY <4>1, <5>1 DEF Untouched
        <5> QED
          BY <1>0, <3>1, <5>1, <5>2
      <4> QED
        BY <4>2, <4>3
    <3> QED
      BY <3>2, <3>3
  <2> QED
    BY <2>1, <2>2
<1>3. ASSUME pc'["main"] \in AtUpdate, pc'["worker"] \in AtUpdate, NEW u \in Uris, Held(u)'
      PROVE  bdocs'[u].rev # generation'
  <2>1. CASE generation' = generation + 1 /\ UNCHANGED <<docs, bdocs>>
    BY <1>1, <1>3, <2>1
  <2>2. CASE ~(generation' = generation + 1 /\ UNCHANGED <<docs, bdocs>>)
    <3>1. pc["main"] \in AtUpdate /\ pc["worker"] \in AtUpdate
      BY <1>0, <1>3, <2>2, UpdatesGoOn
    <3>2. Held(u) => bdocs[u].rev \in Nat /\ bdocs[u].rev < generation
      <4>1. Held(u) => bdocs[u].rev \in Nat /\ bdocs[u].rev <= generation
        BY <1>0 DEF Held, TypeOK, Entries, Entered
      <4>2. Held(u) => bdocs[u].rev # generation
        BY <3>1 DEF Untouched
      <4> QED
        BY <1>0, <4>1, <4>2
    <3>3. \A s \in Threads : pc[s] # "submit"
      BY <3>1 DEF Threads, Carried, Asking, ScanPath, AtUpdate
    <3>4. \A s \in Threads : ~Submits(s, u)
      BY <3>3 DEF Submits, Submit
    <3>5. Held(u) /\ bdocs'[u].rev = bdocs[u].rev
      BY <1>0, <1>3, <3>4, EntryFrame, TakeEffect DEF Requeues, Held
    <3> QED
      BY <1>0, <3>2, <3>5
  <2> QED
    BY <2>1, <2>2
<1> QED
  BY <1>2, <1>3 DEF Untouched, Held

LEMMA RequestedNext ==
  ASSUME IInv, Tasks, Settled, Carried, Requested, [Next]_vars PROVE Requested'
<1>0. TypeOK /\ UriKnown /\ "main" \in Threads
  BY DEF IInv, Threads
<1>1. pc'["main"] \in {"source", "submit"} => ~job'["main"].engine
  BY <1>0, MainMoves DEF Requested, Carries
<1>2. ASSUME pc'["main"] = "submit"
      PROVE  job'["main"].text = docs'[job'["main"].uri].text
  <2>1. CASE pc'["main"] = pc["main"] /\ job'["main"] = job["main"]
    <3>1. job["main"].uri \in Uris /\ job["main"].text = docs[job["main"].uri].text
      BY <1>0, <1>2, <2>1 DEF UriKnown, Holders, Requested
    <3> QED
      BY <1>2, <2>1, <3>1, OnlyEdits
  <2>2. CASE Step("main") /\ pc["main"] = "source" /\ Carries("main")
    BY <1>0, <2>2, PublishStep DEF Carries, SameTask, Publish
  <2> QED
    BY <1>0, <1>2, <2>1, <2>2, MainMoves
<1>3. ASSUME pc'["main"] \in {"pull", "source", "submit"}, ~job'["main"].engine,
             ready', pc'["bridge"] \notin ScanPath, Stale'
      PROVE  FALSE
  <2>1. ready /\ pc["bridge"] \notin ScanPath
    BY <1>3, StaleReady
  <2>2. pc["main"] \in {"pull", "source", "submit"} /\ ~job["main"].engine
    BY <1>0, <1>3, <2>1, MainMoves DEF Requested, Carries
  <2>3. docs'[job["worker"].uri].text = docs[job["worker"].uri].text
    BY <1>3, <2>2, StaleFrom, OnlyEdits
  <2>4. Stale
    BY <1>3, <2>3, StaleFrom
  <2> QED
    BY <2>1, <2>2, <2>4 DEF Requested
<1> QED
  BY <1>1, <1>2, <1>3 DEF Requested

LEMMA UnservedNext ==
  ASSUME IInv, Tasks, Settled, Carried, Untouched, Requested, Unserved, [Next]_vars
  PROVE  Unserved'
<1> SUFFICES ASSUME Stale', ready', pc'["bridge"] \notin ScanPath,
                    NEW u, u = job'["worker"].uri, Served(u)'
             PROVE  FALSE
  BY DEF Unserved, Served, Held
<1>0. /\ TypeOK /\ StopOrder /\ u = job["worker"].uri /\ u \in Uris
      /\ generation' = generation /\ ready /\ pc["bridge"] \notin ScanPath
  BY StaleFrom, StaleReady DEF IInv, PullInv
<1>1. Held(u)' /\ bdocs'[u].rev = generation /\ bdocs'[u].text = docs'[u].text
  BY <1>0 DEF Served
<1>2. CASE docs'[u].text # docs[u].text
  <2>1. bdocs' = bdocs /\ Awaits("main", u)
    BY <1>0, <1>2, OnlyEdits DEF Stale, AtWork
  <2> QED
    BY <1>0, <1>1, <1>2, <2>1 DEF Untouched, Held
<1>3. CASE docs'[u].text = docs[u].text
  <2>1. Stale
    BY <1>0, <1>3, StaleFrom
  <2>2. ~Served(u)
    BY <1>0, <2>1 DEF Unserved
  <2>3. ASSUME NEW t \in Threads, Submits(t, u) PROVE FALSE
    <3>1. pc[t] = "submit" /\ job[t].text = docs[u].text
      BY <1>1, <1>3, <2>3 DEF Submits, Submit
    <3>2. t = "main"
      BY <1>0, <2>1, <3>1 DEF Threads, Carried, Asking, ScanPath, Stale
    <3> QED
      BY <1>0, <2>1, <3>1, <3>2 DEF Requested
  <2>4. ~(Held(u) /\ bdocs'[u].text = bdocs[u].text /\ bdocs'[u].rev = bdocs[u].rev)
    BY <1>1, <1>3, <2>2 DEF Served
  <2> QED
    BY <1>0, <1>1, <2>3, <2>4, EntryFrame, TakeEffect DEF Requeues, Held
<1> QED
  BY <1>2, <1>3

(***************************************************************************)
(* Who is behind what the bridge holds.                                    *)
(***************************************************************************)

LEMMA PicksLook ==
  ASSUME TypeOK, [Next]_vars, NEW u \in Uris, Picks(u) PROVE Looking(u)'
<1>0. "main" \in Threads /\ "worker" \in Threads /\ "bridge" \in Threads
  BY DEF Threads
<1>1. ASSUME NEW s \in Threads \ {"worker"},
             \E label : Goto(s, label) \/ \E j : Become(s, label, j)
      PROVE  FALSE
  BY <1>0, <1>1, BecomeAt, GotoAt DEF Picks
<1>2. CASE Client \/ MainStep
  <2>1. \/ \E label : Goto("main", label) \/ \E j : Become("main", label, j)
        \/ UNCHANGED <<pc, job>>
    <3>1. CASE Client
      BY <3>1 DEF Client, DidOpen, DidChange, DidClose, DidSave,
         DidChangeWatchedFiles, Reconnect, RequestStop, CancelPull, PullReceived
    <3>2. CASE MainStep
      BY <3>2 DEF MainStep, UpdateDocument, RejectOpen, CloseDocument, PullRegister,
         StopBridge, JoinBridge, AnswerPending, Return
    <3> QED
      BY <1>2, <3>1, <3>2
  <2> QED
    BY <1>0, <1>1, <2>1 DEF Picks
<1>3. CASE BridgeStep \/ BridgeState
  <2>1. \E label, j : Become("bridge", label, j)
    BY <1>3 DEF BridgeStep, BridgeState, EngineNotice, BridgeDrop, BridgeDone,
       BridgeExit, BridgeTake, Return
  <2> QED
    BY <1>0, <1>1, <2>1
<1>4. CASE PickDirty \/ PickBackground
  <2> DEFINE g == generation
             D(v) == [NoJob EXCEPT !.op = "publish", !.uri = v, !.gen = g,
                                   !.force = TRUE, !.notify = TRUE]
             B(v) == [NoJob EXCEPT !.op = "publish", !.uri = v, !.gen = g,
                                   !.notify = TRUE]
  <2>1. /\ generation' = g
        /\ \E v \in Uris : Become("worker", "source", D(v)) \/ Become("worker", "source", B(v))
    BY <1>4 DEF PickDirty, PickBackground, TypeOK
  <2> HIDE DEF g
  <2>2. \A v \in Uris : D(v).gen = g /\ B(v).gen = g
    BY DEF NoJob
  <2> HIDE DEF D, B
  <2>3. PICK i : Become("worker", "source", i) /\ i.gen = g
    BY <2>1, <2>2
  <2>4. pc'["worker"] = "source" /\ job'["worker"] = i
    BY <1>0, <2>3, BecomeAt
  <2> QED
    BY <2>1, <2>3, <2>4 DEF Picks, Looking
<1>5. CASE PollScan \/ PollLock \/ WorkerExit \/ PickPoll
  <2>1. \E label \in {"idle", "poll", "polllock", "begin", "exited"} :
           Goto("worker", label) \/ \E j : Become("worker", label, j)
    BY <1>5 DEF PickPoll, PollScan, PollLock, WorkerExit, Return
  <2> QED
    BY <1>0, <2>1, BecomeAt, GotoAt DEF Picks
<1>6. ASSUME NEW t \in Threads, Step(t) PROVE FALSE
  BY <1>0, <1>6, StepFrame, StepMoves DEF Picks, Moves, Publish, ScanPath
<1>7. CASE UNCHANGED vars \/ Exited \/ \E v \in Uris : DiskWrite(v) \/ WriteBuffer(v)
  BY <1>7 DEF vars, Exited, DiskWrite, WriteBuffer, Picks
<1> QED
  BY <1>2, <1>3, <1>4, <1>5, <1>6, <1>7 DEF Next, WorkerStep

LEMMA BehindKept ==
  ASSUME IInv, Tasks, Fresh, [Next]_vars, ~FullScan, ~stopping',
         generation' = generation, NEW u \in Uris, Behind(u)
  PROVE  \/ Behind(u)'
         \/ Submit("worker") /\ ~OutOfDate("worker") /\ job["worker"].uri = u
              /\ job["worker"].text = docs[u].text
<1>0. TypeOK /\ "worker" \in Threads /\ ~stopping
  BY StopsForGood DEF IInv, Threads
<1>1. CASE Pending(u)
  BY <1>0, <1>1, PendingKept, PicksLook DEF Behind
<1>2. CASE Looking(u) /\ ~Pending(u)
  <2>1. /\ pc["worker"] \in {"source", "submit"} /\ job["worker"].uri = u
        /\ job["worker"].gen = generation /\ job["worker"].notify
        /\ ~OutOfDate("worker")
    BY <1>0, <1>2 DEF Looking, OutOfDate
  <2>2. CASE pc'["worker"] = pc["worker"] /\ job'["worker"] = job["worker"]
    BY <2>1, <2>2 DEF Behind, Looking
  <2>3. CASE Step("worker")
    <3>1. ReadSource("worker") \/ Submit("worker")
      BY <2>1, <2>3 DEF Step, Begin, Before, RefreshFile, After, Finish, ScanStamps,
         ScanUris, ScheduleFull, Compute, ReadVersion, Accept
    <3>2. CASE ReadSource("worker")
      <4>1. ~Return("worker")
        <5>1. \E j : Become("worker", "submit", j)
          BY <2>1, <3>2 DEF ReadSource
        <5> QED
          BY <1>0, <5>1, BecomeAt, ReturnAt
      <4>2. Carries("worker") /\ pc["worker"] = "source"
        BY <1>0, <2>1, <2>3, <3>2, <4>1, PublishStep DEF Publish, ReadSource
      <4> QED
        BY <2>1, <4>2 DEF Carries, SameTask, Behind, Looking
    <3>3. CASE Submit("worker")
      BY <1>0, <1>2, <2>1, <3>3 DEF Fresh, AtWork, Submit
    <3> QED
      BY <3>1, <3>2, <3>3
  <2> QED
    BY <1>0, <2>1, <2>2, <2>3, OnlyItself DEF Underway, Publish
<1> QED
  BY <1>1, <1>2 DEF Behind

(* What is submitted is right, or somebody will look at the document.      *)
LEMMA SubmitFresh ==
  ASSUME IInv, Tasks, Fresh, Carried, Requested, [Next]_vars, ~stopping',
         NEW u \in Uris, NEW t \in Threads, Submits(t, u), ~Pending(u)'
  PROVE  job[t].text = docs[u].text /\ generation' = generation
<1>0. TypeOK /\ ~stopping /\ pc[t] = "submit" /\ job[t].uri = u /\ job[t].gen = generation
      /\ generation' = generation
  BY StopsForGood DEF IInv, Submits, Submit, OutOfDate
<1>1. t \in {"main", "worker"}
  BY <1>0 DEF Threads, Carried, Asking, ScanPath
<1>2. CASE t = "main"
  BY <1>0, <1>2 DEF Requested
<1>3. CASE t = "worker"
  <2>1. ~FullScan
    <3>1. generation # generation + 1
      BY <1>0 DEF TypeOK
    <3> QED
      BY <1>0, <3>1 DEF FullScan, ScheduleFull
  <2>2. ~Picks(u)
    BY <1>0, <1>3 DEF Picks
  <2>3. ~Pending(u)
    BY <2>1, <2>2, PendingKept
  <2> QED
    BY <1>0, <1>3, <2>3 DEF Fresh, AtWork
<1> QED
  BY <1>0, <1>1, <1>2, <1>3

LEMMA FreshEntriesNext ==
  ASSUME IInv, Tasks, Settled, Fresh, Carried, Entered, Requested, FreshEntries,
         [Next]_vars
  PROVE  FreshEntries'
<1> SUFFICES ASSUME ~stopping', NEW u \in Uris, Held(u)', bdocs'[u].rev = generation',
                    docs'[u].text # Absent, ~Behind(u)'
             PROVE  bdocs'[u].text = docs'[u].text
  BY DEF FreshEntries, Held, Behind, Pending, Looking, Updating
<1>0. TypeOK /\ StopOrder /\ ~stopping /\ generation \in Nat /\ ~Pending(u)'
  BY StopsForGood DEF IInv, TypeOK, PullInv, Behind
<1>1. docs'[u].text = docs[u].text
  BY <1>0, DocsChange
<1>2. ASSUME NEW t \in Threads, Submits(t, u) PROVE bdocs'[u].text = docs[u].text
  BY <1>0, <1>2, SubmitFresh DEF Submits
<1>3. CASE Held(u) /\ bdocs'[u].rev = bdocs[u].rev /\ bdocs'[u].text = bdocs[u].text
           /\ ~\E t \in Threads : Submits(t, u)
  <2>1. bdocs[u].rev \in Nat /\ bdocs[u].rev <= generation /\ CanConnect
    BY <1>0, <1>3 DEF Held, TypeOK, Entries, Entered
  <2>2. generation' = generation
    BY <1>0, <1>3, <2>1, GenerationMoves
  <2>3. ~FullScan
    <3>1. generation # generation + 1
      BY <1>0
    <3> QED
      BY <2>2, <3>1 DEF FullScan, ScheduleFull
  <2>4. ~Behind(u)
    <3>1. "worker" \in Threads
      BY DEF Threads
    <3> QED
      BY <1>0, <1>3, <2>1, <2>2, <2>3, <3>1, BehindKept, SubmitEffect
  <2> QED
    BY <1>0, <1>1, <1>3, <2>2, <2>4 DEF FreshEntries
<1> QED
  BY <1>0, <1>1, <1>2, <1>3, EntryFrame, TakeEffect DEF Requeues, Held

LEMMA FreshReportNext ==
  ASSUME IInv, Tasks, Settled, Fresh, Linked, Carried, Entered, Requested, FreshEntries,
         FreshReport, [Next]_vars
  PROVE  FreshReport'
<1> SUFFICES ASSUME ~stopping', NEW u \in Uris, AskingFor(u)',
                    job'["bridge"].gen = generation', docs'[u].text # Absent, ~Behind(u)',
                    job'["bridge"].text # docs'[u].text
             PROVE  Held(u)' /\ bdocs'[u].queued /\ bdocs'[u].text = docs'[u].text
  BY DEF FreshReport, AskingFor, Held, Behind, Pending, Looking, Updating
<1>0. /\ TypeOK /\ StopOrder /\ ~stopping /\ generation \in Nat /\ ~Pending(u)'
      /\ "bridge" \in Threads /\ "worker" \in Threads /\ docs'[u].text = docs[u].text
  <2>1. ~Pending(u)'
    BY DEF Behind
  <2> QED
    BY <2>1, StopsForGood, DocsChange DEF IInv, TypeOK, PullInv, Threads
<1>1. ASSUME generation' = generation, Behind(u)
      PROVE  /\ Submit("worker") /\ ~OutOfDate("worker") /\ job["worker"].uri = u
             /\ job["worker"].text = docs[u].text
  <2>1. ~FullScan
    <3>1. generation # generation + 1
      BY <1>0
    <3> QED
      BY <1>1, <3>1 DEF FullScan, ScheduleFull
  <2> QED
    BY <1>1, <2>1, BehindKept
<1>2. ASSUME NEW v \in Uris, BridgeTake(v) PROVE FALSE
  <2>1. /\ v = u /\ Held(u) /\ bdocs[u].rev = generation /\ generation' = generation
        /\ pc["bridge"] = "idle" /\ pc'["bridge"] = "busy"
        /\ bdocs[u].text # docs[u].text
    BY <1>0, <1>2, TakeEffect DEF AskingFor
  <2>2. Behind(u)
    BY <1>0, <2>1 DEF FreshEntries
  <2>3. Step("worker")
    BY <1>1, <2>1, <2>2 DEF Step
  <2> QED
    BY <1>0, <2>1, <2>3, StepFrame
<1>3. /\ AskingFor(u) /\ job'["bridge"].text = job["bridge"].text
      /\ job'["bridge"].gen = job["bridge"].gen
  BY <1>0, <1>2, BridgeMoves, DoneEffect
     DEF AskingFor, Asking, ScanPath, Carries, SameTask
<1>4. generation' = generation /\ CanConnect
  <2>1. job["bridge"].gen \in Nat /\ job["bridge"].gen <= generation
    BY <1>0 DEF TypeOK, Jobs, Carried
  <2>2. CanConnect
    BY <1>3 DEF Linked, Alone, AskingFor, Asking, ScanPath
  <2> QED
    BY <1>0, <1>3, <2>1, <2>2, GenerationMoves
<1>5. CASE Behind(u)
  <2>1. Submits("worker", u) /\ job["worker"].text = docs[u].text
    BY <1>0, <1>1, <1>4, <1>5, SubmitEffect
  <2>2. /\ Held(u)' /\ bdocs'[u].text = docs[u].text
        /\ bdocs'[u].queued \/ bdocs'[u] = bdocs[u]
    BY <1>0, <2>1 DEF Submits
  <2>3. ASSUME ~bdocs'[u].queued PROVE FALSE
    BY <1>0, <1>3, <2>2, <2>3 DEF Entered, Held
  <2> QED
    BY <1>0, <2>2, <2>3
<1>6. CASE ~Behind(u)
  <2>1. Held(u) /\ bdocs[u].queued /\ bdocs[u].text = docs[u].text
    BY <1>0, <1>3, <1>4, <1>6 DEF FreshReport
  <2>2. ASSUME NEW t \in Threads, Submits(t, u)
        PROVE  Held(u)' /\ bdocs'[u].queued /\ bdocs'[u].text = docs[u].text
    <3>1. job[t].text = docs[u].text
      BY <1>0, <2>2, SubmitFresh
    <3> QED
      BY <1>0, <2>1, <2>2, <3>1 DEF Submits
  <2> QED
    BY <1>0, <1>2, <2>1, <2>2, EntryFrame DEF Requeues, Held
<1> QED
  BY <1>5, <1>6

(***************************************************************************)
(* What the client is told.                                                *)
(***************************************************************************)

LEMMA AskingEnds ==
  ASSUME TypeOK, Carried, [Next]_vars, NEW u \in Uris, AskingFor(u), ~AskingFor(u)'
  PROVE  \/ BridgeState \/ BridgeDrop \/ BridgeExit
         \/ BridgeDone /\ Return("bridge")
         \/ Accept("bridge")
<1>0. "bridge" \in Threads /\ "main" \in Threads /\ "worker" \in Threads
  BY DEF Threads
<1>1. pc'["bridge"] # pc["bridge"] \/ job'["bridge"] # job["bridge"]
  BY DEF AskingFor
<1>2. ASSUME NEW s \in Threads \ {"bridge"},
             \E label : Goto(s, label) \/ \E j : Become(s, label, j)
      PROVE  FALSE
  BY <1>0, <1>1, <1>2, BecomeAt, GotoAt
<1>3. ~Client /\ ~MainStep
  <2>1. CASE Client
    <3>1. \/ \E label : Goto("main", label) \/ \E j : Become("main", label, j)
          \/ UNCHANGED <<pc, job>>
      BY <2>1 DEF Client, DidOpen, DidChange, DidClose, DidSave,
         DidChangeWatchedFiles, Reconnect, RequestStop, CancelPull, PullReceived
    <3> QED
      BY <1>0, <1>1, <1>2, <3>1
  <2>2. CASE MainStep
    <3>1. \E label : Goto("main", label) \/ \E j : Become("main", label, j)
      BY <2>2 DEF MainStep, UpdateDocument, RejectOpen, CloseDocument, PullRegister,
         StopBridge, JoinBridge, AnswerPending, Return
    <3> QED
      BY <1>0, <1>2, <3>1
  <2> QED
    BY <2>1, <2>2
<1>4. ~(WorkerStep \/ PickPoll \/ PickBackground)
  <2> SUFFICES ASSUME WorkerStep \/ PickPoll \/ PickBackground PROVE FALSE
    OBVIOUS
  <2>1. \E label : Goto("worker", label) \/ \E j : Become("worker", label, j)
    BY DEF WorkerStep, PickDirty, PollScan, PollLock, WorkerExit, PickPoll,
       PickBackground, Return
  <2> QED
    BY <1>0, <1>2, <2>1
<1>5. CASE BridgeStep
  <2>1. CASE BridgeDone
    <3>1. \/ Return("bridge")
          \/ Become("bridge", "version",
                    [job["bridge"] EXCEPT !.items = EngineItems(job["bridge"].text)])
      BY <2>1 DEF BridgeDone
    <3>2. CASE ~Return("bridge")
      <4>1. pc'["bridge"] = "version"
        BY <1>0, <3>1, <3>2, BecomeAt
      <4> QED
        BY <2>1, <4>1, DoneEffect DEF AskingFor, Asking, SameTask
    <3> QED
      BY <2>1, <3>2
  <2> QED
    BY <1>5, <2>1 DEF BridgeStep, EngineNotice, BridgeTake, AskingFor, Asking
<1>6. ASSUME NEW t \in Threads, Step(t) PROVE Accept("bridge")
  <2>1. t = "bridge"
    BY <1>0, <1>1, <1>6, StepFrame
  <2>2. pc["bridge"] \in {"version", "accept"}
    BY <1>6, <2>1 DEF AskingFor, Asking, Step, Begin, Before, RefreshFile, After, Finish,
       ScanStamps, ScanUris, ScheduleFull, ReadSource, Submit, Compute, ReadVersion, Accept
  <2>3. CASE pc["bridge"] = "version"
    <3>1. ReadVersion("bridge")
      BY <1>0, <1>6, <2>1, <2>3, PublishStep
         DEF Publish, ReadSource, Submit, Compute, Accept
    <3>2. ~Return("bridge")
      <4>1. \E j : Become("bridge", "accept", j)
        BY <3>1 DEF ReadVersion
      <4> QED
        BY <1>0, <4>1, BecomeAt, ReturnAt
    <3> QED
      BY <1>0, <1>6, <2>1, <2>3, <3>2, PublishStep
         DEF Publish, Carries, SameTask, AskingFor, Asking
  <2>4. CASE pc["bridge"] = "accept"
    BY <1>0, <1>6, <2>1, <2>4, PublishStep DEF Publish, ReadSource, Submit, Compute, ReadVersion
  <2> QED
    BY <2>2, <2>3, <2>4
<1>7. CASE UNCHANGED vars \/ Exited \/ \E v \in Uris : DiskWrite(v) \/ WriteBuffer(v)
  BY <1>1, <1>7 DEF vars, Exited, DiskWrite, WriteBuffer
<1> QED
  BY <1>3, <1>4, <1>5, <1>6, <1>7 DEF Next

LEMMA ToldNext ==
  ASSUME IInv, Tasks, Settled, Linked, Carried, Entered, Claimed, Untouched, Unserved,
         Told, [Next]_vars
  PROVE  Told'
<1> SUFFICES ASSUME ready', ~stopping', NEW u \in Uris, Served(u)', ~bdocs'[u].queued,
                    ~AskingFor(u)'
             PROVE  View(u)' = EngineItems(docs'[u].text)
  BY DEF Told, Served, Held, AskingFor, View
<1>0. /\ TypeOK /\ StopOrder /\ ~stopping /\ generation \in Nat
      /\ "worker" \in Threads /\ "bridge" \in Threads
      /\ Held(u)' /\ bdocs'[u].rev = generation' /\ bdocs'[u].text = docs'[u].text
  <2>1. Held(u)' /\ bdocs'[u].rev = generation' /\ bdocs'[u].text = docs'[u].text
    BY DEF Served
  <2> QED
    BY <2>1, StopsForGood DEF IInv, TypeOK, PullInv, Threads
<1>1. ready
  <2>1. ~BridgeState
    <3> SUFFICES ASSUME BridgeState PROVE FALSE
      OBVIOUS
    <3>1. bdocs'[u] = [bdocs[u] EXCEPT !.queued = TRUE] /\ bdocs[u] \in Entries
      BY <1>0 DEF BridgeState, Requeued, Held, TypeOK
    <3> QED
      BY <3>1 DEF Entries
  <2> QED
    BY <2>1, EngineFrame DEF Reconnect, StopBridge, BridgeDrop
<1>2. bdocs'[u] = bdocs[u]
  BY <1>0, EntryFrame, TakeEffect DEF Submits, Requeues, AskingFor, Asking
<1>3. generation' = generation
  <2>1. bdocs[u].rev \in Nat /\ bdocs[u].rev <= generation
    BY <1>0, <1>2 DEF Held, TypeOK, Entries, Entered
  <2> QED
    BY <1>0, <1>2, <2>1, GenerationMoves
<1>4. docs'[u].text = docs[u].text
  <2> SUFFICES ASSUME docs'[u].text # docs[u].text PROVE FALSE
    OBVIOUS
  <2>1. Awaits("main", u) \/ Awaits("worker", u)
    BY OnlyEdits
  <2>2. Held(u) /\ bdocs[u].rev = generation /\ bdocs[u].text # docs[u].text
    BY <1>0, <1>2, <1>3 DEF Held
  <2> QED
    BY <2>1, <2>2 DEF Untouched
<1>5. Served(u) /\ Held(u) /\ ~bdocs[u].queued /\ bdocs[u].text # Absent
      /\ pc["bridge"] \notin ScanPath
  BY <1>0, <1>1, <1>2, <1>3, <1>4 DEF Served, Held, Entered
<1>6. CASE AskingFor(u)
  <2> DEFINE j == job["bridge"]
  <2>1. j.uri = u /\ j.text = docs[u].text /\ j.gen = generation /\ j.notify
        /\ bdocs[u].rev = j.gen
    BY <1>5, <1>6 DEF Entered, Served, AskingFor, Carried
  <2>2. ~BridgeState
    BY <1>6 DEF BridgeState, AskingFor, Asking
  <2>3. ~BridgeDrop
    BY <1>0, <1>1 DEF BridgeDrop, Linked
  <2>4. ~BridgeExit
    BY <1>0 DEF BridgeExit, BridgeStopping, StopOrder, StopLabels
  <2>5. ~(BridgeDone /\ Return("bridge"))
    <3> SUFFICES ASSUME BridgeDone, Return("bridge") PROVE FALSE
      OBVIOUS
    <3>1. session = epoch
      BY <1>0, <1>1 DEF Linked
    <3>2. \E i : Become("bridge", "version", i)
      BY <1>5, <2>1, <3>1 DEF BridgeDone, Held
    <3> QED
      BY <1>0, <3>2, BecomeAt, ReturnAt
  <2>6. Accept("bridge")
    BY <1>0, <1>6, <2>2, <2>3, <2>4, <2>5, AskingEnds
  <2>7. Deliver("bridge") /\ j.items = EngineItems(j.text)
    BY <1>0, <1>1, <2>1, <2>6 DEF Accept, Carried, OutOfDate
  <2> QED
    BY <1>0, <1>4, <2>1, <2>7, Reported
<1>7. CASE ~AskingFor(u)
  <2>1. View(u) = EngineItems(docs[u].text)
    BY <1>0, <1>1, <1>5, <1>7 DEF Told
  <2>2. published'[u] = published[u]
    <3> SUFFICES ASSUME published'[u] # published[u] PROVE FALSE
      OBVIOUS
    <3>1. PICK t \in {"worker", "bridge"} :
             /\ Accept(t) /\ ~OutOfDate(t) /\ (job[t].engine <=> ready) /\ job[t].uri = u
      BY <1>0, Notifies
    <3>2. t # "bridge"
      BY <1>7, <3>1 DEF Accept, AskingFor, Asking
    <3>3. Stale
      BY <1>1, <1>5, <3>1, <3>2 DEF Accept, OutOfDate, Claimed, Stale, AtWork, Served
    <3> QED
      BY <1>1, <1>5, <3>1, <3>2, <3>3 DEF Unserved
  <2> QED
    BY <1>4, <2>1, <2>2 DEF View
<1> QED
  BY <1>6, <1>7

(***************************************************************************)
(* With an engine, no document that exists is lost.                        *)
(***************************************************************************)

(* What is delivered of a document nobody has yet to look at is right.     *)
LEMMA DeliveredEngine ==
  ASSUME IInv, Fresh, Carried, Claimed, FreshReport, NEW t \in {"worker", "bridge"},
         Accept(t), Deliver(t), ~OutOfDate(t), job[t].engine <=> ready,
         NEW u \in Uris, job[t].uri = u, job[t].notify, docs[u].text # Absent,
         ~Behind(u), ~AtEngine(u)
  PROVE  View(u)' = Current(u)
<1>0. TypeOK /\ t \in Threads /\ ~stopping /\ ~Pending(u)
  BY DEF IInv, Threads, OutOfDate, Behind
<1>1. CASE t = "worker"
  <2>1. job[t].text = docs[u].text /\ job[t].items = Standalone(docs, u)
    BY <1>0, <1>1 DEF Accept, OutOfDate, Fresh, AtWork
  <2>2. ~ready
    BY <1>1, <2>1 DEF Accept, Claimed
  <2> QED
    BY <1>0, <2>1, <2>2, Reported DEF Current
<1>2. CASE t = "bridge"
  <2>1. ready /\ job[t].items = EngineItems(job[t].text)
    BY <1>2 DEF Accept, Carried
  <2>2. job[t].text = docs[u].text
    BY <1>0, <1>2, <2>1 DEF Accept, OutOfDate, FreshReport, AskingFor, Asking, AtEngine, Held
  <2> QED
    BY <1>0, <2>1, <2>2, Reported DEF Current
<1> QED
  BY <1>1, <1>2

(* The worker's publication reports, hands u back, goes on, or leaves u to *)
(* the engine, which was told of it or has reported already.               *)
LEMMA WorkerPublishes ==
  ASSUME IInv, Tasks, Fresh, Linked, Carried, Entered, Told, [Next]_vars, ~stopping',
         NEW u \in Uris, docs[u].text # Absent, ready' = ready,
         docs'[u].text = docs[u].text, ~Pending(u), Publishing("worker", u)
  PROVE  \/ Publishing("worker", u)' \/ Pending(u)'
         \/ Publishing("bridge", u)' \/ AtEngine(u)'
         \/ ready /\ View(u) = EngineItems(docs[u].text)
         \/ /\ Accept("worker") /\ ~OutOfDate("worker") /\ Deliver("worker")
            /\ job["worker"].engine <=> ready
<1> DEFINE j == job["worker"]
<1>0. /\ TypeOK /\ StopOrder /\ "worker" \in Threads /\ "bridge" \in Threads /\ ~stopping
      /\ j.uri = u /\ j.notify /\ pc["worker"] \in Publish
  <2>1. j.uri = u /\ j.notify /\ pc["worker"] \in Publish
    BY DEF Publishing, Publish
  <2> QED
    BY <2>1, StopsForGood DEF IInv, PullInv, Threads
<1>1. CASE pc'["worker"] = pc["worker"] /\ job'["worker"] = job["worker"]
  BY <1>0, <1>1 DEF Publishing, Publish
<1>2. CASE Step("worker") /\ Return("worker")
  <2>1. CASE GiveUp("worker")
    BY <1>0, <2>1 DEF GiveUp, Pending
  <2>2. CASE ReadSource("worker") \/ Submit("worker")
    <3>1. ASSUME NEW i, Become("worker", "submit", i) PROVE FALSE
      BY <1>0, <1>2, <3>1, BecomeAt, ReturnAt
    <3>2. ASSUME Goto("worker", "compute") PROVE FALSE
      BY <1>0, <1>2, <3>2, GotoAt, ReturnAt
    <3> QED
      BY <2>1, <2>2, <3>1, <3>2 DEF ReadSource, Submit
  <2>3. CASE Compute("worker")
    <3>1. ASSUME NEW i, Become("worker", "version", i) PROVE FALSE
      BY <1>0, <1>2, <3>1, BecomeAt, ReturnAt
    <3> QED
      BY <2>3, <3>1 DEF Compute, Publishing
  <2>4. CASE ReadVersion("worker")
    <3>1. ASSUME NEW i, Become("worker", "accept", i) PROVE FALSE
      BY <1>0, <1>2, <3>1, BecomeAt, ReturnAt
    <3> QED
      BY <2>4, <3>1 DEF ReadVersion
  <2>5. CASE Accept("worker")
    BY <1>0, <2>1, <2>5 DEF Accept, Refuse, Pending
  <2> QED
    BY <1>0, <1>2, <2>2, <2>3, <2>4, <2>5, PublishStep
<1>3. CASE Step("worker") /\ Carries("worker")
  <2>1. CASE pc["worker"] = "submit"
    <3>1. /\ pc'["worker"] = "compute" /\ job'["worker"] = j /\ ~OutOfDate("worker")
          /\ j.text = docs[u].text
      BY <1>0, <1>3, <2>1 DEF Carries, Fresh, AtWork, OutOfDate
    <3>2. CASE ~ready
      BY <1>0, <3>1, <3>2 DEF Publishing
    <3>3. CASE ready
      <4>1. Submit("worker") /\ UNCHANGED <<generation, pc["bridge"], job["bridge"]>>
        BY <1>0, <1>3, <2>1, PublishStep, StepFrame
           DEF Publish, ReadSource, Compute, ReadVersion, Accept
      <4>2. Submits("worker", u)
        BY <1>0, <3>1, <3>3, <4>1, SubmitEffect DEF Linked, Alone
      <4>3. /\ Held(u)' /\ bdocs'[u].text = docs[u].text /\ bdocs'[u].rev = generation
            /\ bdocs'[u].queued \/ bdocs'[u] = bdocs[u]
        BY <3>1, <4>2 DEF Submits
      <4>4. CASE bdocs'[u].queued
        BY <3>3, <4>3, <4>4 DEF AtEngine, Held
      <4>5. CASE bdocs'[u] = bdocs[u] /\ ~bdocs[u].queued
        <5>1. Served(u) /\ Held(u)
          BY <4>3, <4>5 DEF Served, Held
        <5>2. CASE ~AskingFor(u)
          BY <1>0, <3>3, <4>5, <5>1, <5>2 DEF Told
        <5>3. CASE AskingFor(u) /\ pc["bridge"] = "busy"
          BY <3>3, <4>1, <4>3, <4>5, <5>1, <5>3 DEF AtEngine, Held, Entered, AskingFor
        <5>4. CASE AskingFor(u) /\ pc["bridge"] # "busy"
          BY <4>1, <5>4 DEF Publishing, AskingFor, Asking, Carried
        <5> QED
          BY <5>2, <5>3, <5>4
      <4> QED
        BY <4>3, <4>4, <4>5
    <3> QED
      BY <3>2, <3>3
  <2>2. CASE pc["worker"] # "submit"
    <3>1. /\ job'["worker"].uri = u /\ job'["worker"].notify = j.notify
          /\ pc'["worker"] \in {"submit", "version", "accept"}
      BY <1>0, <1>3, <2>2 DEF Carries, SameTask
    <3> QED
      BY <1>0, <3>1 DEF Publishing
  <2> QED
    BY <2>1, <2>2
<1> QED
  BY <1>0, <1>1, <1>2, <1>3, OnlyItself, PublishStep DEF Underway, Publish

(* What the engine is to report stays with it, or the report is on its way *)
(* to the client, or a scan is.                                            *)
LEMMA EngineKeeps ==
  ASSUME IInv, Tasks, Fresh, Linked, Carried, Entered, Requested, [Next]_vars, ~stopping',
         NEW u \in Uris, ready' = ready, docs'[u].text = docs[u].text, AtEngine(u)
  PROVE  AtEngine(u)' \/ Pending(u)' \/ Publishing("bridge", u)' \/ Scanning("bridge", u)'
<1>0. /\ TypeOK /\ StopOrder /\ "bridge" \in Threads /\ ~stopping
      /\ ready /\ Held(u) /\ bdocs[u].text = docs[u].text /\ docs[u].text # Absent
      /\ bdocs[u].rev \in Nat
  <2>1. ready /\ Held(u) /\ bdocs[u].text = docs[u].text /\ docs[u].text # Absent
    BY DEF AtEngine, Held
  <2>2. TypeOK /\ StopOrder /\ "bridge" \in Threads /\ ~stopping
    BY StopsForGood DEF IInv, PullInv, Threads
  <2>3. bdocs[u].rev \in Nat
    BY <2>1, <2>2 DEF TypeOK, Held, Entries
  <2> QED
    BY <2>1, <2>2, <2>3
<1>1. CASE /\ Held(u)' /\ bdocs'[u].text = bdocs[u].text
           /\ \/ bdocs'[u].queued
              \/ BridgeTake(u)
  BY <1>0, <1>1, TakeEffect DEF AtEngine, Held
<1>2. ASSUME NEW t \in Threads, Submits(t, u), ~Pending(u)'
      PROVE  \/ bdocs'[u] = bdocs[u]
             \/ Held(u)' /\ bdocs'[u].text = bdocs[u].text /\ bdocs'[u].queued
  <2>1. job[t].text = docs[u].text
    BY <1>0, <1>2, SubmitFresh
  <2> QED
    BY <1>0, <1>2, <2>1 DEF Submits
<1>3. CASE bdocs'[u] = bdocs[u] /\ bdocs[u].queued
  BY <1>0, <1>3 DEF AtEngine, Held
<1>4. CASE bdocs'[u] = bdocs[u] /\ ~bdocs[u].queued
  <2>1. /\ pc["bridge"] = "busy" /\ job["bridge"].uri = u /\ AskingFor(u)
        /\ bdocs[u].rev = job["bridge"].gen
    BY <1>4 DEF AtEngine, AskingFor, Asking
  <2>2. CASE AskingFor(u)'
    <3>1. CASE pc'["bridge"] = pc["bridge"] /\ job'["bridge"] = job["bridge"]
      BY <1>0, <1>4, <2>1, <3>1 DEF AtEngine, Held
    <3>2. CASE BridgeDone /\ pc'["bridge"] = "version"
      BY <1>0, <2>1, <3>2, DoneEffect DEF Publishing, SameTask, Carried, Asking
    <3> QED
      BY <1>0, <2>1, <2>2, <3>1, <3>2, BridgeMoves, TakeEffect
         DEF AskingFor, Asking, ScanPath
  <2>3. CASE ~AskingFor(u)'
    <3>1. CASE BridgeState
      <4>1. pc'["bridge"] = "stamps"
        BY <1>0, <3>1, BecomeAt DEF BridgeState
      <4> QED
        BY <1>0, <4>1 DEF Scanning
    <3>2. ~BridgeDrop
      BY <1>0 DEF BridgeDrop, Linked
    <3>3. ~BridgeExit
      BY <1>0 DEF BridgeExit, BridgeStopping, StopOrder, StopLabels
    <3>4. ~(BridgeDone /\ Return("bridge"))
      <4> SUFFICES ASSUME BridgeDone, Return("bridge") PROVE FALSE
        OBVIOUS
      <4>1. session = epoch
        BY <1>0 DEF Linked
      <4>2. \E i : Become("bridge", "version", i)
        BY <1>0, <2>1, <4>1 DEF BridgeDone, Held
      <4> QED
        BY <1>0, <4>2, BecomeAt, ReturnAt
    <3> QED
      BY <1>0, <2>1, <2>3, <3>1, <3>2, <3>3, <3>4, AskingEnds DEF Accept
  <2> QED
    BY <2>2, <2>3
<1> QED
  BY <1>0, <1>1, <1>2, <1>3, <1>4, EntryFrame, TakeEffect DEF Requeues

LEMMA LosePresentStep ==
  ASSUME IInv, Tasks, Settled, Fresh, Linked, Carried, Entered, Claimed, Requested, Told,
         FreshReport, [Next]_vars, ~FullScan, NEW u \in Uris, Lost(u)', docs'[u].text # Absent
  PROVE  Lost(u)
<1>0. /\ TypeOK /\ StopOrder /\ ~stopping' /\ ~stopping /\ View(u)' # Current(u)'
      /\ ~Pending(u)' /\ ~AtEngine(u)'
      /\ \A t \in Threads : ~Publishing(t, u)' /\ ~Scanning(t, u)'
  <2>1. ~stopping' /\ View(u)' # Current(u)' /\ ~InHand(u)'
    BY DEF Lost
  <2>2. ~Pending(u)' /\ ~AtEngine(u)'
        /\ \A t \in Threads : ~Publishing(t, u)' /\ ~Scanning(t, u)'
    BY <2>1 DEF InHand, Pending
  <2> QED
    BY <2>1, <2>2, StopsForGood DEF IInv, PullInv
<1>1. "main" \in Threads /\ "worker" \in Threads /\ "bridge" \in Threads
  BY DEF Threads
<1>2. docs'[u].text = docs[u].text /\ Standalone(docs', u) = Standalone(docs, u)
  BY <1>0, DocsChange
<1>3. ready' = ready
  <2>1. ~Reconnect
    <3> SUFFICES ASSUME Reconnect PROVE FALSE
      OBVIOUS
    <3>1. pc'["main"] = "stamps"
      BY <1>0, <1>1, BecomeAt DEF Reconnect
    <3> QED
      BY <1>0, <1>1, <3>1 DEF Scanning
  <2>2. ~BridgeState
    <3> SUFFICES ASSUME BridgeState PROVE FALSE
      OBVIOUS
    <3>1. pc'["bridge"] = "stamps"
      BY <1>0, <1>1, BecomeAt DEF BridgeState
    <3> QED
      BY <1>0, <1>1, <3>1 DEF Scanning
  <2> QED
    BY <2>1, <2>2, EngineFrame DEF StopBridge, BridgeDrop
<1>4. Current(u)' = Current(u)
  BY <1>2, <1>3 DEF Current
<1>5. ~Pending(u)
  <2>1. Picks(u) => Publishing("worker", u)'
    BY DEF Picks, Publishing
  <2> QED
    BY <1>0, <1>1, <2>1, PendingKept
<1>6. ASSUME NEW t \in Threads PROVE ~Scanning(t, u)
  BY <1>0, ScanningKept
<1>7. ~AtEngine(u)
  BY <1>0, <1>1, <1>2, <1>3, EngineKeeps
<1>8. ASSUME NEW t \in {"worker", "bridge"}, Accept(t), Deliver(t), ~OutOfDate(t),
             job[t].engine <=> ready, job[t].uri = u, job[t].notify
      PROVE  FALSE
  <2>1. ~Behind(u)
    <3> SUFFICES ASSUME Looking(u) PROVE FALSE
      BY <1>5 DEF Behind
    <3>1. t = "bridge"
      BY <1>8 DEF Looking, Accept
    <3>2. pc'["worker"] = pc["worker"] /\ job'["worker"] = job["worker"]
      BY <1>0, <1>1, <1>8, <3>1, StepFrame DEF Step
    <3>3. Publishing("worker", u)'
      BY <3>2 DEF Looking, Publishing
    <3> QED
      BY <1>0, <1>1, <3>3
  <2>2. View(u)' = Current(u)
    BY <1>2, <1>7, <1>8, <2>1, DeliveredEngine
  <2> QED
    BY <1>0, <1>4, <2>2
<1>9. View(u)' = View(u)
  <2>1. published'[u] = published[u]
    BY <1>0, <1>8, Notifies
  <2> QED
    BY <2>1 DEF View
<1>10. ~Publishing("worker", u)
  <2> SUFFICES ASSUME Publishing("worker", u) PROVE FALSE
    OBVIOUS
  <2>1. job["worker"].uri = u /\ job["worker"].notify
    BY DEF Publishing
  <2>2. ready => View(u) # EngineItems(docs[u].text)
    BY <1>0, <1>2, <1>4, <1>9 DEF Current
  <2> QED
    BY <1>0, <1>1, <1>2, <1>3, <1>5, <1>8, <2>1, <2>2, WorkerPublishes
<1>11. ~Publishing("main", u)
  BY <1>1 DEF Tasks, AllPlaced, Placed, Publishing
<1>12. ~Publishing("bridge", u)
  <2> SUFFICES ASSUME Publishing("bridge", u) PROVE FALSE
    OBVIOUS
  <2>1. /\ pc["bridge"] \in {"version", "accept"} /\ job["bridge"].uri = u
        /\ job["bridge"].notify
    BY DEF Publishing, Carried, Asking, ScanPath
  <2>2. CASE pc'["bridge"] = pc["bridge"] /\ job'["bridge"] = job["bridge"]
    BY <1>0, <1>1, <2>1, <2>2 DEF Publishing
  <2>3. CASE Step("bridge") /\ Carries("bridge")
    BY <1>0, <1>1, <2>1, <2>3 DEF Carries, SameTask, Publishing
  <2>4. CASE Step("bridge") /\ Return("bridge")
    <3>1. ~ReadVersion("bridge")
      <4>1. ASSUME NEW i, Become("bridge", "accept", i) PROVE FALSE
        BY <1>0, <1>1, <2>4, <4>1, BecomeAt, ReturnAt
      <4> QED
        BY <4>1 DEF ReadVersion
    <3>2. Accept("bridge")
      BY <1>0, <1>1, <2>1, <2>4, <3>1, PublishStep
         DEF Publish, ReadSource, Submit, Compute
    <3>3. ~Refuse("bridge")
      BY <1>0, <2>1 DEF Refuse, GiveUp, Pending
    <3>4. Deliver("bridge") /\ ~OutOfDate("bridge") /\ job["bridge"].engine = ready
      BY <3>2, <3>3 DEF Accept
    <3> QED
      BY <1>8, <2>1, <3>2, <3>4
  <2> QED
    BY <1>0, <1>1, <2>1, <2>2, <2>3, <2>4, OnlyItself, PublishStep DEF Underway, Publish
<1>13. ~InHand(u)
  BY <1>5, <1>6, <1>7, <1>10, <1>11, <1>12 DEF InHand, Pending, Threads
<1> QED
  BY <1>0, <1>4, <1>9, <1>13 DEF Lost

(* With or without an engine, in sessions whose files are written by the   *)
(* editor's saves alone, with the polls and the file events that notice    *)
(* them, no document that exists is lost: what the client believes of it   *)
(* differs from its diagnostics only while somebody has yet to tell it.    *)
(* The engine is asked about the text the index has, or somebody will look *)
(* again; a document it is not asked about any more was reported; and the  *)
(* deduplication of submit drops a submission only when the same text is   *)
(* on its way to the engine or was reported, because a thread that has     *)
(* an older text in hand never finds the newer one in the bridge, not even *)
(* while a save of the edit is refreshed before the edit is applied.  Only *)
(* schedule_full may lose one.                                             *)
THEOREM NothingPresentLost ==
  ASSUME "disk" \notin Traffic PROVE Spec => OnlyFullScanLosesPresent
<1> DEFINE Side == /\ Linked /\ Carried /\ Entered /\ Claimed /\ Untouched /\ Requested
                   /\ Unserved /\ Told /\ FreshEntries /\ FreshReport
           All == IInv /\ Kept /\ Settled /\ Fresh /\ Side
<1>1. Init => All
  <2> SUFFICES ASSUME Init PROVE All
    OBVIOUS
  <2>1. /\ IInv /\ Kept /\ ~ready /\ session = 0 /\ generation = 0 /\ ~stopping
        /\ pc["main"] = "stamps" /\ pc["worker"] = "idle" /\ pc["bridge"] = "idle"
        /\ job["bridge"] = NoJob /\ job["worker"] = NoJob
    BY InitIInv, InitKept DEF Init, Threads
  <2>2. \A u \in Uris : ~Held(u)
    BY DEF Init, Held
  <2>3. Settled
    BY DEF Init, Settled, OnDisk, FileStamps
  <2>4. Linked /\ Alone
    BY <2>1 DEF Linked, Alone
  <2>5. Carried
    BY <2>1, NoJobFields DEF Carried, Asking
  <2>6. Fresh /\ Claimed /\ ~Stale
    BY <2>1 DEF Fresh, Claimed, Stale, AtWork
  <2> QED
    BY <2>1, <2>2, <2>3, <2>4, <2>5, <2>6
       DEF Entered, Untouched, Requested, Unserved, Told, FreshEntries, FreshReport,
           AskingFor, Asking
<1>2. All /\ [Next]_vars => All'
  <2> SUFFICES ASSUME All, [Next]_vars PROVE All'
    OBVIOUS
  <2>1. IInv /\ TypeOK /\ Kept /\ Tasks
    BY DEF Kept, IInv
  <2>2. IInv' /\ Kept' /\ Settled' /\ Fresh'
    BY <2>1, KeptNext, SettledNext, FreshNext
  <2>3. Linked' /\ Carried' /\ Entered' /\ Claimed'
    BY <2>1, LinkedNext, CarriedNext, EnteredNext, ClaimedNext
  <2>4. Untouched' /\ Requested' /\ Unserved'
    BY <2>1, UntouchedNext, RequestedNext, UnservedNext
  <2>5. Told'
    BY <2>1, ToldNext
  <2>6. FreshEntries' /\ FreshReport'
    BY <2>1, FreshEntriesNext, FreshReportNext
  <2> QED
    BY <2>2, <2>3, <2>4, <2>5, <2>6
<1>3. All /\ [Next]_vars
        => [\A u \in Uris : ~Lost(u) /\ Lost(u)' /\ docs'[u].text # Absent => FullScan]_vars
  BY LosePresentStep DEF Kept
<1> HIDE DEF All
<1> QED
  BY <1>1, <1>2, <1>3, PTL DEF Spec, OnlyFullScanLosesPresent
=============================================================================
