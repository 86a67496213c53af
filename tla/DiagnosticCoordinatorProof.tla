--------------------- MODULE DiagnosticCoordinatorProof ---------------------
(***************************************************************************)
(* Proofs about DiagnosticCoordinator for every set of documents and       *)
(* requests, every dependency relation and every bound.                    *)
(***************************************************************************)
EXTENDS DiagnosticCoordinator, TLAPS

(***************************************************************************)
(* The inductive invariant.                                                *)
(***************************************************************************)

(* A thread that publishes, or handles a pull, has a document in hand.     *)
Holders == {"source", "submit", "compute", "version", "accept", "busy", "pull"}
UriKnown == \A t \in Threads : pc[t] \in Holders => job[t].uri \in Uris

(* The main thread keeps pulls to itself only while it registers one or    *)
(* answers those that wait at the shutdown; the worker and bridge never do.*)
StopLabels == {"stopbridge", "join", "drain"}
PullsHeld == job["main"].pulls # {} => pc["main"] \in StopLabels \cup {"pull"}

(* The shutdown, once begun, has emptied the coordinator for good.         *)
StopOrder ==
    /\ pc["main"] \in StopLabels \cup {"exited"} <=> stopping
    /\ stopping => pulls = {}

(* A request that was received is in exactly one of three places: waiting, *)
(* in the hands of the main thread, or answered.                           *)
Waiting(id) == id \in pulls /\ id \notin job["main"].pulls /\ replies[id] = 0
InHands(id) == id \notin pulls /\ id \in job["main"].pulls /\ replies[id] = 0
Answered(id) == id \notin pulls /\ id \notin job["main"].pulls /\ replies[id] = 1
Unasked(id) == id \notin pulls /\ id \notin job["main"].pulls /\ replies[id] = 0
PullPlaced ==
    \A id \in PullIds : IF asked[id] = None THEN Unasked(id)
                       ELSE Waiting(id) \/ InHands(id) \/ Answered(id)

(* Where the main thread can be while it handles an edit or a close, and   *)
(* what it knows of the editor's buffer.                                   *)
EditPlaced ==
    LET j == job["main"] IN
    /\ j.op \in {"open", "change", "close"} =>
          j.uri \in Uris /\ buffers[j.uri] = j.text
    /\ j.op = "open" =>
          j.text # Absent /\ pc["main"] \in {"begin", "apply", "reject", "finish"}
    /\ j.op = "change" => j.text # Absent /\ pc["main"] \in {"apply", "finish"}
    /\ j.op = "close" =>
          /\ j.text = Absent
          /\ pc["main"] \in {"begin", "before", "apply", "after", "finish"}
    /\ pc["main"] = "reject" => j.uri \in Outside

(* Index and editor agree on u, or the main thread is about to see to it.  *)
Agree(u) == IF buffers[u] = Absent THEN ~docs[u].buffer
            ELSE docs[u] = [text |-> buffers[u], buffer |-> TRUE]
Coming(u) == /\ job["main"].op \in {"open", "change", "close"}
             /\ job["main"].uri = u
             /\ pc["main"] \in {"begin", "before", "apply"}
BuffersAgree == \A u \in Uris \ Outside : Agree(u) \/ Coming(u)

(* What is edited again or closed is in the index as its buffer, until the *)
(* edit or the close is applied.                                           *)
Buffered ==
    LET j == job["main"] IN
    /\ j.op \in {"change", "close"} /\ j.uri \notin Outside
    /\ pc["main"] \in {"begin", "before", "apply"}
    => docs[j.uri].buffer /\ docs[j.uri].text # Absent

PullInv == PullsHeld /\ StopOrder /\ PullPlaced
IInv == TypeOK /\ UriKnown /\ PullInv /\ EditPlaced /\ BuffersAgree /\ Buffered

(***************************************************************************)
(* Types of the pieces.                                                    *)
(***************************************************************************)
LEMMA NoJobType == NoJob \in Jobs
  BY DEF NoJob, Jobs, Ops, Updates, Texts, Items, Absent

LEMMA BecomeType ==
  ASSUME pc \in [Threads -> Labels], job \in [Threads -> Jobs],
         NEW t \in Threads, NEW label \in Labels, NEW j \in Jobs,
         Become(t, label, j)
  PROVE  pc' \in [Threads -> Labels] /\ job' \in [Threads -> Jobs]
  BY DEF Become

LEMMA GotoType ==
  ASSUME pc \in [Threads -> Labels], job \in [Threads -> Jobs],
         NEW t \in Threads, NEW label \in Labels, Goto(t, label)
  PROVE  pc' \in [Threads -> Labels] /\ job' \in [Threads -> Jobs]
  BY DEF Goto

LEMMA ReturnType ==
  ASSUME pc \in [Threads -> Labels], job \in [Threads -> Jobs],
         NEW t \in Threads, Return(t)
  PROVE  pc' \in [Threads -> Labels] /\ job' \in [Threads -> Jobs]
  BY NoJobType, BecomeType DEF Return, Labels

LEMMA StandaloneType ==
  ASSUME NEW d \in [Uris -> Documents], NEW u \in Uris
  PROVE  Standalone(d, u) \in Items
  BY BoundsAssumption, ReadsAssumption DEF Standalone, Items, Texts, Documents

LEMMA EngineItemsType ==
  ASSUME NEW t \in Texts PROVE EngineItems(t) \in Items
  BY BoundsAssumption DEF EngineItems, Items, Texts

LEMMA OnDiskType ==
  ASSUME NEW t \in Texts PROVE OnDisk(t) \in Documents
  BY DEF OnDisk, Documents

LEMMA TypeClient ==
  ASSUME TypeOK, Client PROVE TypeOK'
<1>1. ASSUME NEW u \in Uris, DidOpen(u) PROVE TypeOK'
  <2> DEFINE j == [NoJob EXCEPT !.op = "open", !.uri = u, !.uris = {u}, !.text = clock + 1]
  <2>1. /\ clock + 1 \in Nat /\ generation + 1 \in Nat /\ sent + 1 \in Nat
        /\ clock + 1 \in Texts
    BY DEF TypeOK, Texts
  <2>2. j \in Jobs
    BY <2>1, NoJobType DEF Jobs, Ops, Updates
  <2>3. pc' \in [Threads -> Labels] /\ job' \in [Threads -> Jobs]
    BY <1>1, <2>2, BecomeType DEF DidOpen, TypeOK, Threads, Labels
  <2> QED
    BY <1>1, <2>3, <2>1 DEF TypeOK, DidOpen, Message, Texts, queues, bridge
<1>2. ASSUME NEW u \in Uris, DidChange(u) PROVE TypeOK'
  <2> DEFINE j == [NoJob EXCEPT !.op = "change", !.uri = u, !.uris = {u}, !.text = clock + 1]
  <2>1. /\ clock + 1 \in Nat /\ generation + 1 \in Nat /\ sent + 1 \in Nat
        /\ clock + 1 \in Texts
    BY DEF TypeOK, Texts
  <2>2. j \in Jobs
    BY <2>1, NoJobType DEF Jobs, Ops, Updates
  <2>3. pc' \in [Threads -> Labels] /\ job' \in [Threads -> Jobs]
    BY <1>2, <2>2, BecomeType DEF DidChange, TypeOK, Threads, Labels
  <2> QED
    BY <1>2, <2>3, <2>1 DEF TypeOK, DidChange, Message, BeginUpdate, Texts, bridge
<1>3. ASSUME NEW u \in Uris, DidClose(u) PROVE TypeOK'
  <2> DEFINE j == [NoJob EXCEPT !.op = "close", !.uri = u, !.uris = {u}]
  <2>1. j \in Jobs
    BY NoJobType DEF Jobs, Ops, Updates
  <2>2. pc' \in [Threads -> Labels] /\ job' \in [Threads -> Jobs]
    BY <1>3, <2>1, BecomeType DEF DidClose, TypeOK, Threads, Labels
  <2> QED
    BY <1>3, <2>2 DEF TypeOK, DidClose, Message, Texts, Absent, files, queues, bridge
<1>4. ASSUME NEW S \in SUBSET Uris, DidChangeWatchedFiles(S) PROVE TypeOK'
  <2> DEFINE changed == {u \in S : buffers[u] = Absent}
             j == [NoJob EXCEPT !.op = "watch", !.uris = changed, !.todo = changed]
  <2>1. j \in Jobs
    BY NoJobType DEF Jobs, Ops, Updates
  <2>2. pc' \in [Threads -> Labels] /\ job' \in [Threads -> Jobs]
    BY <1>4, <2>1, BecomeType DEF DidChangeWatchedFiles, TypeOK, Threads, Labels
  <2> QED
    BY <1>4, <2>2 DEF TypeOK, DidChangeWatchedFiles, Message, BeginUpdate, files, bridge
<1>5. ASSUME NEW u \in Uris, DidSave(u) PROVE TypeOK'
  <2> DEFINE j == [NoJob EXCEPT !.op = "scan"]
  <2>1. j \in Jobs
    BY NoJobType DEF Jobs, Ops
  <2>2. pc' \in [Threads -> Labels] /\ job' \in [Threads -> Jobs]
    BY <1>5, <2>1, BecomeType DEF DidSave, TypeOK, Threads, Labels
  <2>3. bdocs' \in [Uris -> Entries \cup {None}]
    BY <1>5 DEF DidSave, SavedDocument, TypeOK, Entries
  <2> QED
    BY <1>5, <2>2, <2>3 DEF TypeOK, DidSave, Message, files, coordinator, queues
<1>6. ASSUME Reconnect PROVE TypeOK'
  <2> DEFINE j == [NoJob EXCEPT !.op = "scan"]
  <2>1. j \in Jobs
    BY NoJobType DEF Jobs, Ops
  <2>2. pc' \in [Threads -> Labels] /\ job' \in [Threads -> Jobs]
    BY <1>6, <2>1, BecomeType DEF Reconnect, TypeOK, Threads, Labels
  <2>3. bdocs' \in [Uris -> Entries \cup {None}]
    BY <1>6 DEF Reconnect, Requeued, TypeOK, Entries
  <2>4. epoch + 1 \in Nat /\ sent + 1 \in Nat
    BY DEF TypeOK
  <2> QED
    BY <1>6, <2>2, <2>3, <2>4 DEF TypeOK, Reconnect, Message, files, coordinator, queues
<1>7. ASSUME RequestStop PROVE TypeOK'
  <2> DEFINE j == [NoJob EXCEPT !.op = "stop", !.pulls = pulls]
  <2>1. j \in Jobs
    BY NoJobType DEF TypeOK, Jobs, Ops
  <2>2. pc' \in [Threads -> Labels] /\ job' \in [Threads -> Jobs]
    BY <1>7, <2>1, BecomeType DEF RequestStop, TypeOK, Threads, Labels
  <2>3. generation + 1 \in Nat
    BY DEF TypeOK
  <2> QED
    BY <1>7, <2>2, <2>3 DEF TypeOK, RequestStop, files, client, bridge
<1>8. ASSUME NEW p \in PullIds, CancelPull(p) PROVE TypeOK'
  BY <1>8 DEF TypeOK, CancelPull, Message, files, queues, bridge
<1>9. ASSUME NEW p \in PullIds, NEW u \in Uris, PullReceived(p, u) PROVE TypeOK'
  <2> DEFINE j == [NoJob EXCEPT !.op = "publish", !.uri = u, !.engine = ready, !.pulls = {p}]
  <2>1. j \in Jobs
    BY NoJobType DEF TypeOK, Jobs, Ops
  <2>2. pc' \in [Threads -> Labels] /\ job' \in [Threads -> Jobs]
    BY <1>9, <2>1, BecomeType DEF PullReceived, TypeOK, Threads, Labels
  <2> QED
    BY <1>9, <2>2 DEF TypeOK, PullReceived, files, coordinator, queues, bridge
<1> QED
  BY <1>1, <1>2, <1>3, <1>4, <1>5, <1>6, <1>7, <1>8, <1>9 DEF Client

LEMMA AffectedType ==
  ASSUME NEW d, NEW S \in SUBSET Uris PROVE Affected(d, S) \in SUBSET Uris
  BY DEF Affected

LEMMA StampsType ==
  ASSUME TypeOK PROVE FileStamps \in [Uris -> Texts]
  BY DEF TypeOK, FileStamps, Texts, Absent

LEMMA TypeDiskWrite ==
  ASSUME TypeOK, NEW u \in Uris, DiskWrite(u) PROVE TypeOK'
<1>1. clock + 1 \in Nat /\ Absent \in Texts
  BY DEF TypeOK, Texts, Absent
<1>2. PICK x \in {Absent, clock + 1} : disk' = [disk EXCEPT ![u] = x]
  BY DEF DiskWrite
<1>3. disk' \in [Uris -> Texts]
  BY <1>1, <1>2 DEF TypeOK, Texts
<1> QED
  BY <1>1, <1>3 DEF TypeOK, DiskWrite, client, coordinator, queues, bridge

LEMMA TypeWriteBuffer ==
  ASSUME TypeOK, NEW u \in Uris, WriteBuffer(u) PROVE TypeOK'
<1>1. disk' \in [Uris -> Texts]
  BY DEF TypeOK, WriteBuffer
<1> QED
  BY <1>1 DEF TypeOK, WriteBuffer, client, coordinator, queues, bridge

LEMMA TypeUpdate ==
  ASSUME TypeOK, NEW t \in Threads,
         Begin(t) \/ Before(t) \/ RefreshFile(t) \/ After(t) \/ Finish(t)
  PROVE  TypeOK'
<1>1. job[t] \in Jobs /\ job[t].uris \in SUBSET Uris /\ job[t].scope \in SUBSET Uris
  BY DEF TypeOK, Jobs
<1>2. CASE Begin(t)
  <2>1. pc' \in [Threads -> Labels] /\ job' \in [Threads -> Jobs]
    BY <1>2, GotoType DEF Begin, TypeOK, Labels
  <2> QED
    BY <1>2, <2>1 DEF TypeOK, Begin, BeginUpdate, files, client, bridge
<1>3. CASE Before(t)
  <2> DEFINE j == [job[t] EXCEPT !.scope = Affected(docs, job[t].uris)]
  <2>1. j \in Jobs
    BY <1>1, AffectedType DEF Jobs
  <2>2. pc' \in [Threads -> Labels] /\ job' \in [Threads -> Jobs]
    BY <1>3, <2>1, BecomeType DEF Before, TypeOK, Labels
  <2> QED
    BY <1>3, <2>2 DEF TypeOK, Before, files, client, coordinator, queues, bridge
<1>4. CASE RefreshFile(t)
  <2>1. PICK u \in job[t].todo :
           /\ docs' = IF docs[u].buffer THEN docs
                      ELSE [docs EXCEPT ![u] = OnDisk(disk[u])]
           /\ job' = [job EXCEPT ![t].todo = @ \ {u}]
    BY <1>4 DEF RefreshFile
  <2>2. u \in Uris
    BY <1>1 DEF Jobs
  <2>3. docs' \in [Uris -> Documents]
    BY <2>1, <2>2, OnDiskType DEF TypeOK
  <2>4. [job[t] EXCEPT !.todo = @ \ {u}] \in Jobs
    BY <1>1 DEF Jobs
  <2>5. job' \in [Threads -> Jobs]
    BY <2>1, <2>4 DEF TypeOK
  <2> QED
    BY <1>4, <2>3, <2>5 DEF TypeOK, RefreshFile, client, coordinator, queues, bridge
<1>5. CASE After(t)
  <2> DEFINE j == [job[t] EXCEPT !.scope = @ \cup Affected(docs, job[t].uris)]
  <2>1. j \in Jobs
    BY <1>1, AffectedType DEF Jobs
  <2>2. pc' \in [Threads -> Labels] /\ job' \in [Threads -> Jobs]
    BY <1>5, <2>1, BecomeType DEF After, TypeOK, Labels
  <2> QED
    BY <1>5, <2>2 DEF TypeOK, After, files, client, coordinator, queues, bridge
<1>6. CASE Finish(t)
  <2>1. pc' \in [Threads -> Labels] /\ job' \in [Threads -> Jobs]
    BY <1>6, ReturnType DEF Finish, TypeOK
  <2>2. dirty' \in SUBSET Uris /\ background' \in SUBSET Uris
    BY <1>1, <1>6 DEF Finish, TypeOK
  <2> QED
    BY <1>6, <2>1, <2>2 DEF TypeOK, Finish, files, client, bridge
<1> QED
  BY <1>2, <1>3, <1>4, <1>5, <1>6

LEMMA TypeScan ==
  ASSUME TypeOK, NEW t \in Threads,
         ScanStamps(t) \/ ScanUris(t) \/ ScheduleFull(t)
  PROVE  TypeOK'
<1>1. job[t] \in Jobs /\ job[t].uris \in SUBSET Uris
      /\ job[t].stamps \in [Uris -> Texts]
  BY DEF TypeOK, Jobs
<1>2. CASE ScanStamps(t)
  <2> DEFINE j == [job[t] EXCEPT !.stamps = FileStamps]
  <2>1. j \in Jobs
    BY <1>1, StampsType DEF Jobs
  <2>2. pc' \in [Threads -> Labels] /\ job' \in [Threads -> Jobs]
    BY <1>2, <2>1, BecomeType DEF ScanStamps, TypeOK, Labels
  <2> QED
    BY <1>2, <2>2 DEF TypeOK, ScanStamps, files, client, coordinator, queues, bridge
<1>3. CASE ScanUris(t)
  <2> DEFINE j == [job[t] EXCEPT !.uris = DocumentUris]
  <2>1. j \in Jobs
    BY <1>1 DEF Jobs, DocumentUris
  <2>2. pc' \in [Threads -> Labels] /\ job' \in [Threads -> Jobs]
    BY <1>3, <2>1, BecomeType DEF ScanUris, TypeOK, Labels
  <2> QED
    BY <1>3, <2>2 DEF TypeOK, ScanUris, files, client, coordinator, queues, bridge
<1>4. CASE ScheduleFull(t)
  <2>1. pc' \in [Threads -> Labels] /\ job' \in [Threads -> Jobs]
    BY <1>4, ReturnType, NoJobType, BecomeType DEF ScheduleFull, TypeOK, Labels
  <2> QED
    BY <1>1, <1>4, <2>1 DEF TypeOK, ScheduleFull, files, client, bridge
<1> QED
  BY <1>2, <1>3, <1>4

LEMMA GiveUpType ==
  ASSUME TypeOK, NEW t \in Threads, job[t].uri \in Uris, GiveUp(t)
  PROVE  /\ dirty' \in SUBSET Uris /\ background' \in SUBSET Uris
         /\ pc' \in [Threads -> Labels] /\ job' \in [Threads -> Jobs]
  BY ReturnType DEF GiveUp, TypeOK

LEMMA TypePublish ==
  ASSUME TypeOK, UriKnown, NEW t \in Threads,
         ReadSource(t) \/ Submit(t) \/ Compute(t) \/ ReadVersion(t) \/ Accept(t)
  PROVE  TypeOK'
<1>1. job[t] \in Jobs /\ job[t].uri \in Uris /\ job[t].text \in Texts
      /\ job[t].items \in Items /\ job[t].version \in Texts
      /\ job[t].engine \in BOOLEAN
  BY DEF TypeOK, Jobs, UriKnown, Holders, ReadSource, Submit, Compute,
         ReadVersion, Accept
<1>2. docs[job[t].uri] \in Documents
  BY <1>1 DEF TypeOK
<1>3. CASE ReadSource(t)
  <2> DEFINE j == [job[t] EXCEPT !.text = docs[job[t].uri].text]
  <2>1. j \in Jobs
    BY <1>1, <1>2 DEF Jobs, Documents
  <2>2. /\ pc' \in [Threads -> Labels] /\ job' \in [Threads -> Jobs]
        /\ dirty' \in SUBSET Uris /\ background' \in SUBSET Uris
    <3>1. CASE OutOfDate(t)
      BY <1>1, <1>3, <3>1, GiveUpType DEF ReadSource
    <3>2. CASE ~OutOfDate(t)
      BY <1>3, <2>1, <3>2, BecomeType DEF ReadSource, TypeOK, Labels
    <3> QED
      BY <3>1, <3>2
  <2> QED
    BY <1>3, <2>2 DEF TypeOK, ReadSource, files, client, bridge
<1>4. CASE Submit(t)
  <2>1. /\ pc' \in [Threads -> Labels] /\ job' \in [Threads -> Jobs]
        /\ dirty' \in SUBSET Uris /\ background' \in SUBSET Uris
    <3>1. CASE OutOfDate(t)
      BY <1>1, <1>4, <3>1, GiveUpType DEF Submit
    <3>2. CASE ~OutOfDate(t)
      BY <1>4, <3>2, GotoType DEF Submit, TypeOK, Labels
    <3> QED
      BY <3>1, <3>2
  <2>2. bdocs' \in [Uris -> Entries \cup {None}]
    <3> DEFINE entry == [text |-> job[t].text, rev |-> generation,
                         open |-> job[t].uri \in open, queued |-> TRUE]
    <3>1. entry \in Entries
      BY <1>1 DEF TypeOK, Entries
    <3>2. \/ bdocs' = bdocs \/ bdocs' = [bdocs EXCEPT ![job[t].uri] = entry]
          \/ bdocs' = [bdocs EXCEPT ![job[t].uri] = None]
      BY <1>4 DEF Submit, SubmitDocument, ForgetDocument
    <3> QED
      BY <3>1, <3>2 DEF TypeOK
  <2> QED
    BY <1>4, <2>1, <2>2 DEF TypeOK, Submit, files, client
<1>5. CASE Compute(t)
  <2> DEFINE j == [job[t] EXCEPT !.items = Standalone(docs, job[t].uri)]
  <2>0. Standalone(docs, job[t].uri) \in Items
    BY <1>1, StandaloneType DEF TypeOK
  <2>1. j \in Jobs
    BY <1>1, <2>0 DEF Jobs
  <2>2. pc' \in [Threads -> Labels] /\ job' \in [Threads -> Jobs]
    BY <1>5, <2>1, BecomeType, ReturnType DEF Compute, TypeOK, Labels
  <2> QED
    BY <1>5, <2>2 DEF TypeOK, Compute, files, client, coordinator, queues, bridge
<1>6. CASE ReadVersion(t)
  <2> DEFINE v == Version(job[t].uri)
             e == IF t = "bridge" THEN TRUE ELSE job[t].text = Absent /\ ready
             j == [job[t] EXCEPT !.version = v, !.engine = e]
  <2>1. v \in Texts /\ e \in BOOLEAN
    BY <1>2 DEF Version, Documents, Texts, Absent, TypeOK
  <2> HIDE DEF v, e
  <2>2. j \in Jobs
    BY <1>1, <2>1 DEF Jobs
  <2>3. Become(t, "accept", j)
    BY <1>6 DEF ReadVersion, v, e
  <2>4. pc' \in [Threads -> Labels] /\ job' \in [Threads -> Jobs]
    BY <2>2, <2>3, BecomeType DEF TypeOK, Labels
  <2> QED
    BY <1>6, <2>4 DEF TypeOK, ReadVersion, files, client, coordinator, queues, bridge
<1>7. CASE Accept(t)
  <2>1. /\ pc' \in [Threads -> Labels] /\ job' \in [Threads -> Jobs]
        /\ dirty' \in SUBSET Uris /\ background' \in SUBSET Uris
        /\ snapshots' \in [Uris -> Snapshots \cup {None}]
        /\ pulls' \in SUBSET PullIds /\ replies' \in [PullIds -> Nat]
        /\ published' \in [Uris -> Reports \cup {None}]
    <3>1. CASE Refuse(t)
      <4>1. /\ pc' \in [Threads -> Labels] /\ job' \in [Threads -> Jobs]
            /\ dirty' \in SUBSET Uris /\ background' \in SUBSET Uris
        <5>1. CASE GiveUp(t)
          BY <1>1, <5>1, GiveUpType
        <5>2. CASE dirty' = dirty \cup {job[t].uri} /\ UNCHANGED background /\ Return(t)
          BY <1>1, <5>2, ReturnType DEF TypeOK
        <5> QED
          BY <3>1, <5>1, <5>2 DEF Refuse
      <4> QED
        BY <3>1, <4>1 DEF Refuse, TypeOK
    <3>2. CASE Deliver(t)
      <4>1. pc' \in [Threads -> Labels] /\ job' \in [Threads -> Jobs]
        BY <3>2, ReturnType DEF Deliver, TypeOK
      <4>2. snapshots' \in [Uris -> Snapshots \cup {None}]
        <5>1. [gen |-> generation, engine |-> job[t].engine] \in Snapshots
          BY <1>1 DEF Snapshots, TypeOK
        <5> QED
          BY <3>2, <5>1 DEF Deliver, TypeOK
      <4>3. published' \in [Uris -> Reports \cup {None}]
        <5>1. [items |-> job[t].items, version |-> job[t].version] \in Reports
          BY <1>1 DEF Reports
        <5> QED
          BY <3>2, <5>1 DEF Deliver, TypeOK
      <4>4. replies' \in [PullIds -> Nat]
        BY <3>2 DEF Deliver, TypeOK
      <4> QED
        BY <3>2, <4>1, <4>2, <4>3, <4>4 DEF Deliver, TypeOK
    <3> QED
      BY <1>7, <3>1, <3>2 DEF Accept
  <2> QED
    BY <1>7, <2>1 DEF TypeOK, Accept, files, bridge
<1> QED
  BY <1>3, <1>4, <1>5, <1>6, <1>7

LEMMA TypeMain ==
  ASSUME TypeOK, UriKnown, EditPlaced, MainStep
  PROVE  TypeOK'
<1>0. /\ "main" \in Threads /\ job["main"] \in Jobs
      /\ job["main"].text \in Texts /\ job["main"].pulls \in SUBSET PullIds
  BY DEF TypeOK, Threads, Jobs
<1>1. CASE UpdateDocument
  <2> DEFINE m == job["main"]
             entry == [text |-> m.text, buffer |-> TRUE]
             new == [docs EXCEPT ![m.uri] = entry]
             scope == Affected(docs, {m.uri}) \cup Affected(new, {m.uri})
             j == [m EXCEPT !.scope = scope]
  <2>0. entry \in Documents /\ m.uri \in Uris
    BY <1>0, <1>1 DEF Documents, EditPlaced, UpdateDocument
  <2>1. new \in [Uris -> Documents]
    BY <2>0 DEF TypeOK
  <2>2. scope \in SUBSET Uris
    BY <2>0, AffectedType
  <2> HIDE DEF new, scope
  <2>3. j \in Jobs
    BY <1>0, <2>2 DEF Jobs
  <2>4. \/ docs' = new /\ Become("main", "finish", j)
        \/ docs' = docs /\ (Goto("main", "reject") \/ Return("main"))
    BY <1>1 DEF UpdateDocument, new, scope
  <2>5. pc' \in [Threads -> Labels] /\ job' \in [Threads -> Jobs]
    BY <1>0, <2>3, <2>4, BecomeType, GotoType, ReturnType DEF TypeOK, Labels
  <2> QED
    BY <1>1, <2>1, <2>4, <2>5
       DEF TypeOK, UpdateDocument, client, coordinator, queues, bridge
<1>2. CASE RejectOpen
  <2>1. pc' \in [Threads -> Labels] /\ job' \in [Threads -> Jobs]
    BY <1>0, <1>2, ReturnType DEF RejectOpen, TypeOK
  <2> QED
    BY <1>2, <2>1 DEF TypeOK, RejectOpen, files, client, queues, bridge
<1>3. CASE CloseDocument
  <2>1. pc' \in [Threads -> Labels] /\ job' \in [Threads -> Jobs]
    BY <1>0, <1>3, GotoType, ReturnType DEF CloseDocument, TypeOK, Labels
  <2>2. job["main"].uri \in Uris
    BY <1>3 DEF CloseDocument, EditPlaced
  <2>3. docs' \in [Uris -> Documents]
    BY <1>3, <2>2, OnDiskType DEF CloseDocument, TypeOK
  <2> QED
    BY <1>3, <2>1, <2>3 DEF TypeOK, CloseDocument, client, coordinator, queues, bridge
<1>4. CASE PullRegister
  <2> DEFINE j == [NoJob EXCEPT !.op = "publish", !.uri = job["main"].uri,
                                !.gen = generation]
  <2>1. job["main"].uri \in Uris
    BY <1>0, <1>4 DEF PullRegister, UriKnown, Holders
  <2>2. j \in Jobs
    BY <2>1, NoJobType DEF Jobs, Ops, TypeOK
  <2>3. pc' \in [Threads -> Labels] /\ job' \in [Threads -> Jobs]
    BY <1>0, <1>4, <2>2, BecomeType, ReturnType DEF PullRegister, TypeOK, Labels
  <2>4. /\ replies' \in [PullIds -> Nat] /\ pulls' \in SUBSET PullIds
        /\ dirty' \in SUBSET Uris
    BY <1>0, <1>4, <2>1 DEF PullRegister, TypeOK
  <2> QED
    BY <1>4, <2>3, <2>4 DEF TypeOK, PullRegister, files, bridge
<1>5. CASE StopBridge
  <2>1. pc' \in [Threads -> Labels] /\ job' \in [Threads -> Jobs]
    BY <1>0, <1>5, GotoType DEF StopBridge, TypeOK, Labels
  <2> QED
    BY <1>5, <2>1 DEF TypeOK, StopBridge, files, client, coordinator, queues
<1>6. CASE JoinBridge
  <2>1. pc' \in [Threads -> Labels] /\ job' \in [Threads -> Jobs]
    BY <1>0, <1>6, GotoType DEF JoinBridge, TypeOK, Labels
  <2> QED
    BY <1>6, <2>1 DEF TypeOK, JoinBridge, files, client, coordinator, queues, bridge
<1>7. CASE AnswerPending
  <2>1. pc' \in [Threads -> Labels] /\ job' \in [Threads -> Jobs]
    BY <1>0, <1>7, NoJobType, BecomeType DEF AnswerPending, TypeOK, Labels
  <2>2. replies' \in [PullIds -> Nat]
    BY <1>7 DEF AnswerPending, TypeOK
  <2> QED
    BY <1>7, <2>1, <2>2 DEF TypeOK, AnswerPending, files, coordinator, queues, bridge
<1> QED
  BY <1>1, <1>2, <1>3, <1>4, <1>5, <1>6, <1>7 DEF MainStep

LEMMA TypeWorker ==
  ASSUME TypeOK, WorkerStep \/ PickPoll \/ PickBackground
  PROVE  TypeOK'
<1>0. "worker" \in Threads /\ job["worker"] \in Jobs
      /\ job["worker"].stamps \in [Uris -> Texts]
  BY DEF TypeOK, Threads, Jobs
<1>1. CASE PickDirty
  <2>1. PICK u \in dirty :
           /\ dirty' = dirty \ {u}
           /\ Become("worker", "source", [NoJob EXCEPT !.op = "publish",
                !.uri = u, !.gen = generation, !.force = TRUE, !.notify = TRUE])
    BY <1>1 DEF PickDirty
  <2> DEFINE j == [NoJob EXCEPT !.op = "publish", !.uri = u,
                     !.gen = generation, !.force = TRUE, !.notify = TRUE]
  <2>2. j \in Jobs
    BY NoJobType DEF Jobs, Ops, TypeOK
  <2>3. pc' \in [Threads -> Labels] /\ job' \in [Threads -> Jobs]
    BY <1>0, <2>1, <2>2, BecomeType DEF TypeOK, Labels
  <2> QED
    BY <1>1, <2>1, <2>3 DEF TypeOK, PickDirty, files, client, bridge
<1>2. CASE PickBackground
  <2>1. PICK u \in background :
           /\ background' = background \ {u}
           /\ Become("worker", "source", [NoJob EXCEPT !.op = "publish",
                !.uri = u, !.gen = generation, !.notify = TRUE])
    BY <1>2 DEF PickBackground
  <2> DEFINE j == [NoJob EXCEPT !.op = "publish", !.uri = u,
                     !.gen = generation, !.notify = TRUE]
  <2>2. j \in Jobs
    BY NoJobType DEF Jobs, Ops, TypeOK
  <2>3. pc' \in [Threads -> Labels] /\ job' \in [Threads -> Jobs]
    BY <1>0, <2>1, <2>2, BecomeType DEF TypeOK, Labels
  <2> QED
    BY <1>2, <2>1, <2>3 DEF TypeOK, PickBackground, files, client, bridge
<1>3. CASE PickPoll
  <2> DEFINE j == [NoJob EXCEPT !.op = "poll"]
  <2>1. j \in Jobs
    BY NoJobType DEF Jobs, Ops, Updates
  <2>2. pc' \in [Threads -> Labels] /\ job' \in [Threads -> Jobs]
    BY <1>0, <1>3, <2>1, BecomeType DEF PickPoll, TypeOK, Labels
  <2> QED
    BY <1>3, <2>2 DEF TypeOK, PickPoll, files, client, coordinator, queues, bridge
<1>4. CASE PollScan
  <2> DEFINE j == [job["worker"] EXCEPT !.stamps = FileStamps]
  <2>1. j \in Jobs
    BY <1>0, StampsType DEF Jobs
  <2>2. pc' \in [Threads -> Labels] /\ job' \in [Threads -> Jobs]
    BY <1>0, <1>4, <2>1, BecomeType DEF PollScan, TypeOK, Labels
  <2> QED
    BY <1>4, <2>2 DEF TypeOK, PollScan, files, client, coordinator, queues, bridge
<1>5. CASE PollLock
  <2> DEFINE changed == {u \in Uris : job["worker"].stamps[u] # stamps[u]} \ open
             j == [NoJob EXCEPT !.op = "poll", !.uris = changed, !.todo = changed]
  <2>1. j \in Jobs
    BY NoJobType DEF Jobs, Ops, Updates
  <2>2. pc' \in [Threads -> Labels] /\ job' \in [Threads -> Jobs]
    BY <1>0, <1>5, <2>1, BecomeType, ReturnType DEF PollLock, TypeOK, Labels
  <2> QED
    BY <1>0, <1>5, <2>2 DEF TypeOK, PollLock, files, client, queues, bridge
<1>6. CASE WorkerExit
  <2>1. pc' \in [Threads -> Labels] /\ job' \in [Threads -> Jobs]
    BY <1>0, <1>6, GotoType DEF WorkerExit, TypeOK, Labels
  <2> QED
    BY <1>6, <2>1 DEF TypeOK, WorkerExit, files, client, coordinator, queues, bridge
<1> QED
  BY <1>1, <1>2, <1>3, <1>4, <1>5, <1>6 DEF WorkerStep

LEMMA RequeuedType ==
  ASSUME TypeOK PROVE Requeued \in [Uris -> Entries \cup {None}]
  BY DEF Requeued, TypeOK, Entries

LEMMA TypeBridge ==
  ASSUME TypeOK, UriKnown, PullPlaced, BridgeStep \/ BridgeState
  PROVE  TypeOK'
<1>0. "bridge" \in Threads /\ job["bridge"] \in Jobs
      /\ job["bridge"].text \in Texts
  BY DEF TypeOK, Threads, Jobs
<1>1. CASE EngineNotice
  <2>1. pc' \in [Threads -> Labels] /\ job' \in [Threads -> Jobs]
    BY <1>0, <1>1, ReturnType DEF EngineNotice, TypeOK
  <2>2. \A id \in pulls : asked[id] \in Uris
    BY DEF TypeOK, PullPlaced, Unasked
  <2>3. dirty' \in SUBSET Uris
    BY <1>1, <2>2 DEF EngineNotice, TypeOK
  <2> QED
    BY <1>1, <2>1, <2>3 DEF TypeOK, EngineNotice, files, client, bridge
<1>2. CASE BridgeDrop
  <2>1. pc' \in [Threads -> Labels] /\ job' \in [Threads -> Jobs]
    BY <1>0, <1>2, ReturnType DEF BridgeDrop, TypeOK
  <2> QED
    BY <1>2, <2>1 DEF TypeOK, BridgeDrop, files, client, coordinator, queues
<1>3. CASE BridgeDone
  <2> DEFINE items == EngineItems(job["bridge"].text)
             j == [job["bridge"] EXCEPT !.items = items]
  <2>1. items \in Items
    BY <1>0, EngineItemsType
  <2> HIDE DEF items
  <2>2. j \in Jobs
    BY <1>0, <2>1 DEF Jobs
  <2>3. Become("bridge", "version", j) \/ Return("bridge")
    BY <1>3 DEF BridgeDone, items
  <2>4. pc' \in [Threads -> Labels] /\ job' \in [Threads -> Jobs]
    BY <1>0, <2>2, <2>3, BecomeType, ReturnType DEF TypeOK, Labels
  <2> QED
    BY <1>3, <2>4 DEF TypeOK, BridgeDone, files, client, coordinator, queues, bridge
<1>4. CASE BridgeExit
  <2>1. pc' \in [Threads -> Labels] /\ job' \in [Threads -> Jobs]
    BY <1>0, <1>4, NoJobType, BecomeType DEF BridgeExit, TypeOK, Labels
  <2> QED
    BY <1>4, <2>1 DEF TypeOK, BridgeExit, files, client, coordinator, queues, bridge
<1>5. ASSUME NEW u \in Uris, BridgeTake(u) PROVE TypeOK'
  <2> DEFINE j == [NoJob EXCEPT !.op = "publish", !.uri = u, !.gen = bdocs[u].rev,
                                !.text = bdocs[u].text, !.notify = TRUE]
  <2>0. bdocs[u] \in Entries
    BY <1>5 DEF TypeOK, BridgeTake
  <2>1. j \in Jobs
    BY <2>0, NoJobType DEF Jobs, Ops, Entries
  <2>2. pc' \in [Threads -> Labels] /\ job' \in [Threads -> Jobs]
    BY <1>0, <1>5, <2>1, BecomeType DEF BridgeTake, TypeOK, Labels
  <2>3. [bdocs[u] EXCEPT !.queued = FALSE] \in Entries
    BY <2>0 DEF Entries
  <2>4. bdocs' \in [Uris -> Entries \cup {None}]
    BY <1>5, <2>3 DEF BridgeTake, TypeOK
  <2> QED
    BY <1>5, <2>2, <2>4 DEF TypeOK, BridgeTake, files, client, coordinator, queues
<1>6. CASE BridgeState
  <2> DEFINE j == [NoJob EXCEPT !.op = "scan"]
  <2>1. j \in Jobs
    BY NoJobType DEF Jobs, Ops
  <2>2. pc' \in [Threads -> Labels] /\ job' \in [Threads -> Jobs]
    BY <1>0, <1>6, <2>1, BecomeType DEF BridgeState, TypeOK, Labels
  <2>3. /\ ready' \in BOOLEAN /\ session' \in Nat /\ states' \in Nat
        /\ bdocs' \in [Uris -> Entries \cup {None}]
    <3>1. states + 1 \in Nat /\ epoch \in Nat
      BY DEF TypeOK
    <3>2. bdocs' = Requeued \/ bdocs' = bdocs
      BY <1>6 DEF BridgeState
    <3>3. bdocs' \in [Uris -> Entries \cup {None}]
      BY <3>2, RequeuedType DEF TypeOK
    <3>4. states' = states + 1 /\ session' \in {0, epoch}
      BY <1>6 DEF BridgeState
    <3>5. ready' \in BOOLEAN
      BY <1>6 DEF BridgeState
    <3> QED
      BY <3>1, <3>3, <3>4, <3>5
  <2> QED
    BY <1>6, <2>2, <2>3 DEF TypeOK, BridgeState, files, client, coordinator, queues
<1> QED
  BY <1>1, <1>2, <1>3, <1>4, <1>5, <1>6 DEF BridgeStep

LEMMA TypeStep ==
  ASSUME TypeOK, UriKnown, PullPlaced, EditPlaced, [Next]_vars
  PROVE  TypeOK'
<1>1. CASE UNCHANGED vars
  BY <1>1 DEF TypeOK, vars, files, client, coordinator, queues, bridge
<1>2. CASE Exited
  BY <1>1, <1>2 DEF Exited
<1>3. ASSUME NEW t \in Threads, Step(t) PROVE TypeOK'
  BY <1>3, TypeUpdate, TypeScan, TypePublish DEF Step
<1> QED
  BY <1>1, <1>2, <1>3, TypeClient, TypeMain, TypeWorker, TypeBridge,
     TypeDiskWrite, TypeWriteBuffer DEF Next

(***************************************************************************)
(* What the steps of the shared functions do to threads and buffers.       *)
(***************************************************************************)
Quiet == StopLabels \cup {"exited", "pull", "reject", "busy"}

LEMMA BecomeAt ==
  ASSUME TypeOK, NEW t \in Threads, NEW label, NEW j, Become(t, label, j)
  PROVE  /\ pc'[t] = label /\ job'[t] = j
         /\ \A s \in Threads \ {t} : pc'[s] = pc[s] /\ job'[s] = job[s]
  BY DEF Become, TypeOK

LEMMA GotoAt ==
  ASSUME TypeOK, NEW t \in Threads, NEW label, Goto(t, label)
  PROVE  /\ pc'[t] = label /\ job' = job
         /\ \A s \in Threads \ {t} : pc'[s] = pc[s]
  BY DEF Goto, TypeOK

LEMMA ReturnAt ==
  ASSUME TypeOK, NEW t \in Threads, Return(t)
  PROVE  /\ pc'[t] = "idle" /\ job'[t] = NoJob
         /\ \A s \in Threads \ {t} : pc'[s] = pc[s] /\ job'[s] = job[s]
  BY BecomeAt DEF Return

LEMMA StepFrame ==
  ASSUME TypeOK, NEW t \in Threads, Step(t)
  PROVE  /\ UNCHANGED <<asked, buffers, stopping>>
         /\ \A s \in Threads \ {t} : pc'[s] = pc[s] /\ job'[s] = job[s]
         /\ pc[t] \notin Quiet /\ pc'[t] \notin Quiet
         /\ job'[t].pulls \in {job[t].pulls, {}}
<1>0. job[t] \in Jobs /\ NoJob.pulls = {}
  BY DEF TypeOK, NoJob
<1>1. CASE Begin(t)
  BY <1>0, <1>1, GotoAt DEF Begin, Quiet, StopLabels, client
<1>2. CASE Before(t)
  BY <1>0, <1>2, BecomeAt DEF Before, Quiet, StopLabels, client, coordinator, Jobs
<1>3. CASE RefreshFile(t)
  BY <1>0, <1>3 DEF RefreshFile, Quiet, StopLabels, client, coordinator, TypeOK, Jobs
<1>4. CASE After(t)
  BY <1>0, <1>4, BecomeAt DEF After, Quiet, StopLabels, client, coordinator, Jobs
<1>5. CASE Finish(t)
  BY <1>0, <1>5, ReturnAt DEF Finish, Quiet, StopLabels, client
<1>6. CASE ScanStamps(t)
  BY <1>0, <1>6, BecomeAt DEF ScanStamps, Quiet, StopLabels, client, coordinator, Jobs
<1>7. CASE ScanUris(t)
  BY <1>0, <1>7, BecomeAt DEF ScanUris, Quiet, StopLabels, client, coordinator, Jobs
<1>8. CASE ScheduleFull(t)
  BY <1>0, <1>8, BecomeAt, ReturnAt DEF ScheduleFull, Quiet, StopLabels, client
<1>9. CASE ReadSource(t)
  <2>1. CASE GiveUp(t)
    BY <1>0, <1>9, <2>1, ReturnAt DEF GiveUp, ReadSource, Quiet, StopLabels, client
  <2>2. CASE ~GiveUp(t)
    BY <1>0, <1>9, <2>2, BecomeAt DEF ReadSource, Quiet, StopLabels, client, Jobs
  <2> QED
    BY <2>1, <2>2
<1>10. CASE Submit(t)
  <2>1. CASE GiveUp(t)
    BY <1>0, <1>10, <2>1, ReturnAt DEF GiveUp, Submit, Quiet, StopLabels, client
  <2>2. CASE ~GiveUp(t)
    BY <1>0, <1>10, <2>2, GotoAt DEF Submit, Quiet, StopLabels, client, Jobs
  <2> QED
    BY <2>1, <2>2
<1>11. CASE Compute(t)
  BY <1>0, <1>11, BecomeAt, ReturnAt
     DEF Compute, Quiet, StopLabels, client, coordinator, Jobs
<1>12. CASE ReadVersion(t)
  <2> DEFINE v == Version(job[t].uri)
             e == IF t = "bridge" THEN TRUE ELSE job[t].text = Absent /\ ready
             j == [job[t] EXCEPT !.version = v, !.engine = e]
  <2>1. Become(t, "accept", j)
    BY <1>12 DEF ReadVersion
  <2> HIDE DEF v, e
  <2>2. j.pulls = job[t].pulls
    BY <1>0 DEF Jobs
  <2>3. job'[t].pulls = job[t].pulls
    BY <2>1, <2>2, BecomeAt
  <2> QED
    BY <1>12, <2>1, <2>3, BecomeAt
       DEF ReadVersion, Quiet, StopLabels, client, coordinator
<1>13. CASE Accept(t)
  <2>1. Return(t)
    BY <1>13 DEF Accept, Refuse, Deliver, GiveUp
  <2> QED
    BY <1>0, <1>13, <2>1, ReturnAt DEF Accept, Quiet, StopLabels
<1> QED
  BY <1>1, <1>2, <1>3, <1>4, <1>5, <1>6, <1>7, <1>8, <1>9, <1>10, <1>11, <1>12,
     <1>13 DEF Step

(* How an edit or a close begins on the main thread.                       *)
EditTaken(u) ==
    LET j == job'["main"] IN
    /\ pc["main"] = "idle" /\ ~stopping
    /\ j.uri = u /\ j.pulls = {} /\ buffers' = [buffers EXCEPT ![u] = j.text]
    /\ j.op # "open" => buffers[u] # Absent
    /\ \/ j.op = "open" /\ pc'["main"] = "begin" /\ j.text # Absent
       \/ j.op = "change" /\ pc'["main"] = "apply" /\ j.text # Absent
       \/ j.op = "close" /\ pc'["main"] = "begin" /\ j.text = Absent

LEMMA EditBegins ==
  ASSUME TypeOK, NEW u \in Uris, DidOpen(u) \/ DidChange(u) \/ DidClose(u)
  PROVE  EditTaken(u)
<1>0. "main" \in Threads /\ clock + 1 # Absent
  BY DEF Threads, TypeOK, Absent
<1>1. CASE DidOpen(u)
  <2> DEFINE x == clock + 1
             j == [NoJob EXCEPT !.op = "open", !.uri = u, !.uris = {u}, !.text = x]
  <2>1. /\ Become("main", "begin", j) /\ buffers' = [buffers EXCEPT ![u] = x]
        /\ pc["main"] = "idle" /\ ~stopping
    BY <1>1 DEF DidOpen, Message, MainReady
  <2> HIDE DEF x
  <2>2. j.op = "open" /\ j.uri = u /\ j.text = x /\ j.pulls = {}
    BY DEF NoJob
  <2> HIDE DEF j
  <2>3. x # Absent
    BY <1>0 DEF x
  <2>4. job'["main"] = j /\ pc'["main"] = "begin"
    BY <1>0, <2>1, BecomeAt
  <2>5. buffers' = [buffers EXCEPT ![u] = j.text]
    BY <2>1, <2>2
  <2> QED
    BY <2>1, <2>2, <2>3, <2>4, <2>5 DEF EditTaken
<1>2. CASE DidChange(u)
  <2> DEFINE x == clock + 1
             j == [NoJob EXCEPT !.op = "change", !.uri = u, !.uris = {u}, !.text = x]
  <2>1. /\ Become("main", "apply", j) /\ buffers' = [buffers EXCEPT ![u] = x]
        /\ pc["main"] = "idle" /\ ~stopping /\ buffers[u] # Absent
    BY <1>2 DEF DidChange, Message, MainReady
  <2> HIDE DEF x
  <2>2. j.op = "change" /\ j.uri = u /\ j.text = x /\ j.pulls = {}
    BY DEF NoJob
  <2> HIDE DEF j
  <2>3. x # Absent
    BY <1>0 DEF x
  <2>4. job'["main"] = j /\ pc'["main"] = "apply"
    BY <1>0, <2>1, BecomeAt
  <2>5. buffers' = [buffers EXCEPT ![u] = j.text]
    BY <2>1, <2>2
  <2> QED
    BY <2>1, <2>2, <2>3, <2>4, <2>5 DEF EditTaken
<1>3. CASE DidClose(u)
  <2> DEFINE j == [NoJob EXCEPT !.op = "close", !.uri = u, !.uris = {u}]
  <2>1. /\ Become("main", "begin", j) /\ buffers' = [buffers EXCEPT ![u] = Absent]
        /\ pc["main"] = "idle" /\ ~stopping /\ buffers[u] # Absent
    BY <1>3 DEF DidClose, Message, MainReady
  <2>2. j.op = "close" /\ j.uri = u /\ j.text = Absent /\ j.pulls = {}
    BY DEF NoJob
  <2> HIDE DEF j
  <2>3. job'["main"] = j /\ pc'["main"] = "begin"
    BY <1>0, <2>1, BecomeAt
  <2>4. buffers' = [buffers EXCEPT ![u] = j.text]
    BY <2>1, <2>2
  <2> QED
    BY <2>1, <2>2, <2>3, <2>4 DEF EditTaken
<1> QED
  BY <1>1, <1>2, <1>3

(***************************************************************************)
(* Requests: each is waiting, in hand or answered, never two of these.     *)
(***************************************************************************)
LEMMA PullFrame ==
  ASSUME TypeOK, PullInv, UNCHANGED <<asked, stopping, pulls, replies>>,
         \/ pc'["main"] = pc["main"] /\ job'["main"].pulls = job["main"].pulls
         \/ /\ {pc["main"], pc'["main"]} \cap (StopLabels \cup {"exited", "pull"}) = {}
            /\ job'["main"].pulls \in {job["main"].pulls, {}}
  PROVE  PullInv'
<1>1. CASE pc'["main"] = pc["main"] /\ job'["main"].pulls = job["main"].pulls
  BY <1>1 DEF PullInv, PullsHeld, StopOrder, PullPlaced, Waiting, InHands,
              Answered, Unasked
<1>2. CASE /\ {pc["main"], pc'["main"]} \cap (StopLabels \cup {"exited", "pull"}) = {}
           /\ job'["main"].pulls \in {job["main"].pulls, {}}
  <2>1. job["main"].pulls = {} /\ job'["main"].pulls = {}
    BY <1>2 DEF PullInv, PullsHeld
  <2> QED
    BY <1>2, <2>1 DEF PullInv, PullsHeld, StopOrder, PullPlaced, Waiting,
                      InHands, Answered, Unasked
<1> QED
  BY <1>1, <1>2

(* accept answers the pulls for its document, and takes them off the list. *)
LEMMA PullDeliver ==
  ASSUME TypeOK, PullInv, NEW t \in Threads, Step(t), Deliver(t)
  PROVE  PullInv'
<1> DEFINE answered == {id \in pulls : asked[id] = job[t].uri}
<1>1. /\ pulls' = pulls \ answered
      /\ replies' = [id \in PullIds |->
                       replies[id] + (IF id \in answered THEN 1 ELSE 0)]
  BY DEF Deliver
<1>2. /\ UNCHANGED <<asked, stopping>>
      /\ job'["main"].pulls = job["main"].pulls
      /\ \/ pc'["main"] = pc["main"]
         \/ {pc["main"], pc'["main"]} \cap (StopLabels \cup {"exited", "pull"}) = {}
  <2>1. CASE t = "main"
    <3>1. job["main"].pulls = {}
      BY <2>1, StepFrame DEF Quiet, PullInv, PullsHeld
    <3> QED
      BY <2>1, <3>1, StepFrame DEF Quiet
  <2>2. CASE t # "main"
    BY <2>2, StepFrame DEF Threads
  <2> QED
    BY <2>1, <2>2
<1>3. PullPlaced'
  <2> SUFFICES ASSUME NEW id \in PullIds
               PROVE  (IF asked[id] = None THEN Unasked(id)
                       ELSE Waiting(id) \/ InHands(id) \/ Answered(id))'
    BY DEF PullPlaced
  <2>1. replies[id] \in Nat
    BY DEF TypeOK
  <2>2. IF asked[id] = None THEN Unasked(id)
        ELSE Waiting(id) \/ InHands(id) \/ Answered(id)
    BY DEF PullInv, PullPlaced
  <2>3. CASE id \in answered
    BY <1>1, <1>2, <2>1, <2>2, <2>3 DEF Waiting, InHands, Answered, Unasked
  <2>4. CASE id \notin answered
    BY <1>1, <1>2, <2>1, <2>2, <2>4 DEF Waiting, InHands, Answered, Unasked
  <2> QED
    BY <2>3, <2>4
<1>4. PullsHeld' /\ StopOrder'
  BY <1>1, <1>2 DEF PullInv, PullsHeld, StopOrder
<1> QED
  BY <1>3, <1>4 DEF PullInv

LEMMA PullStep ==
  ASSUME TypeOK, PullInv, NEW t \in Threads, Step(t)
  PROVE  PullInv'
<1>1. CASE Deliver(t)
  BY <1>1, PullDeliver
<1>2. CASE ~Deliver(t)
  <2>1. UNCHANGED <<pulls, replies>>
    BY <1>2 DEF Step, Begin, Before, RefreshFile, After, Finish, ScanStamps,
         ScanUris, ScheduleFull, ReadSource, Submit, Compute, ReadVersion,
         Accept, Refuse, client, coordinator
  <2>2. CASE t = "main"
    BY <2>1, <2>2, StepFrame, PullFrame DEF Quiet
  <2>3. CASE t # "main"
    BY <2>1, <2>3, StepFrame, PullFrame DEF Threads
  <2> QED
    BY <2>2, <2>3
<1> QED
  BY <1>1, <1>2

LEMMA PullClient ==
  ASSUME TypeOK, PullInv, Client
  PROVE  PullInv'
<1>0. "main" \in Threads /\ NoJob.pulls = {}
  BY DEF Threads, NoJob
<1>1. ASSUME NEW u \in Uris, DidOpen(u) \/ DidChange(u) \/ DidClose(u) \/ DidSave(u)
      PROVE  PullInv'
  <2>1. /\ UNCHANGED <<asked, stopping, pulls, replies>>
        /\ pc["main"] = "idle" /\ pc'["main"] \in {"begin", "apply", "stamps"}
        /\ job'["main"].pulls = {}
    <3>1. CASE DidOpen(u) \/ DidChange(u) \/ DidClose(u)
      BY <1>0, <3>1, EditBegins, BecomeAt
         DEF EditTaken, DidOpen, DidChange, DidClose, Message, MainReady
    <3>2. CASE DidSave(u)
      BY <1>0, <3>2, BecomeAt DEF DidSave, Message, MainReady, NoJob, coordinator
    <3> QED
      BY <1>1, <3>1, <3>2
  <2> QED
    BY <2>1, PullFrame DEF StopLabels
<1>2. ASSUME NEW S \in SUBSET Uris, DidChangeWatchedFiles(S) PROVE PullInv'
  <2>1. /\ UNCHANGED <<asked, stopping, pulls, replies>>
        /\ pc["main"] = "idle" /\ pc'["main"] = "before"
        /\ job'["main"].pulls = {}
    <3> DEFINE changed == {u \in S : buffers[u] = Absent}
               j == [NoJob EXCEPT !.op = "watch", !.uris = changed, !.todo = changed]
    <3>1. j.pulls = {}
      BY DEF NoJob
    <3>2. Become("main", "before", j)
      BY <1>2 DEF DidChangeWatchedFiles
    <3> HIDE DEF j
    <3> QED
      BY <1>0, <1>2, <3>1, <3>2, BecomeAt DEF DidChangeWatchedFiles, Message, MainReady
  <2> QED
    BY <2>1, PullFrame DEF StopLabels
<1>3. CASE Reconnect
  <2>1. /\ UNCHANGED <<asked, stopping, pulls, replies>>
        /\ pc["main"] = "idle" /\ pc'["main"] = "stamps"
        /\ job'["main"].pulls = {}
    BY <1>0, <1>3, BecomeAt DEF Reconnect, Message, MainReady, coordinator, NoJob
  <2> QED
    BY <2>1, PullFrame DEF StopLabels
<1>4. CASE RequestStop
  <2>1. /\ UNCHANGED <<asked, replies>> /\ pulls' = {} /\ stopping' = TRUE
        /\ pc["main"] = "idle" /\ pc'["main"] = "stopbridge"
        /\ job'["main"].pulls = pulls
    <3>1. [NoJob EXCEPT !.op = "stop", !.pulls = pulls].pulls = pulls
      BY DEF NoJob
    <3> QED
      BY <1>0, <1>4, <3>1, BecomeAt DEF RequestStop, MainReady, client
  <2>2. job["main"].pulls = {}
    BY <2>1 DEF PullInv, PullsHeld, StopLabels
  <2> QED
    BY <2>1, <2>2 DEF PullInv, PullsHeld, StopOrder, PullPlaced, Waiting,
         InHands, Answered, Unasked, StopLabels
<1>5. ASSUME NEW p \in PullIds, CancelPull(p) PROVE PullInv'
  <2>1. /\ UNCHANGED <<asked, stopping, pc, job>>
        /\ pulls' = pulls \ {p} /\ asked[p] # None
        /\ replies' = [replies EXCEPT ![p] = @ + (IF p \in pulls THEN 1 ELSE 0)]
    BY <1>5 DEF CancelPull
  <2>2. PullPlaced'
    <3> SUFFICES ASSUME NEW id \in PullIds
                 PROVE  (IF asked[id] = None THEN Unasked(id)
                         ELSE Waiting(id) \/ InHands(id) \/ Answered(id))'
      BY DEF PullPlaced
    <3>1. replies \in [PullIds -> Nat]
      BY DEF TypeOK
    <3>2. IF asked[id] = None THEN Unasked(id)
          ELSE Waiting(id) \/ InHands(id) \/ Answered(id)
      BY DEF PullInv, PullPlaced
    <3>3. CASE id = p /\ p \in pulls
      BY <2>1, <3>1, <3>2, <3>3 DEF Waiting, InHands, Answered, Unasked
    <3>4. CASE id # p \/ p \notin pulls
      BY <2>1, <3>1, <3>2, <3>4 DEF Waiting, InHands, Answered, Unasked
    <3> QED
      BY <3>3, <3>4
  <2> QED
    BY <2>1, <2>2 DEF PullInv, PullsHeld, StopOrder
<1>6. ASSUME NEW p \in PullIds, NEW u \in Uris, PullReceived(p, u) PROVE PullInv'
  <2>1. [NoJob EXCEPT !.op = "publish", !.uri = u, !.engine = ready,
                      !.pulls = {p}].pulls = {p}
    BY DEF NoJob
  <2>2. /\ UNCHANGED <<stopping, pulls, replies>>
        /\ asked' = [asked EXCEPT ![p] = u] /\ asked[p] = None
        /\ pc["main"] = "idle" /\ pc'["main"] = "pull"
        /\ job'["main"].pulls = {p}
    BY <1>0, <1>6, <2>1, BecomeAt DEF PullReceived, MainReady, coordinator
  <2>3. job["main"].pulls = {} /\ u # None /\ asked \in [PullIds -> Uris \cup {None}]
    BY <2>2, NoneAssumption DEF PullInv, PullsHeld, StopLabels, TypeOK
  <2>4. PullPlaced'
    BY <2>2, <2>3 DEF PullInv, PullPlaced, Waiting, InHands, Answered, Unasked
  <2> QED
    BY <2>2, <2>4 DEF PullInv, PullsHeld, StopOrder, StopLabels
<1> QED
  BY <1>1, <1>2, <1>3, <1>4, <1>5, <1>6 DEF Client

LEMMA PullMain ==
  ASSUME TypeOK, PullInv, MainStep
  PROVE  PullInv'
<1>0. "main" \in Threads /\ NoJob.pulls = {} /\ job["main"] \in Jobs
  BY DEF Threads, NoJob, TypeOK
<1>1. CASE UpdateDocument \/ RejectOpen \/ CloseDocument
  <2>1. /\ UNCHANGED <<asked, stopping, pulls, replies>>
        /\ pc["main"] \in {"apply", "reject"}
    BY <1>1 DEF UpdateDocument, RejectOpen, CloseDocument, client, coordinator
  <2>2. /\ pc'["main"] \in {"finish", "reject", "idle", "after"}
        /\ job'["main"].pulls \in {job["main"].pulls, {}}
    <3>1. CASE UpdateDocument
      <4> DEFINE m == job["main"]
                 new == [docs EXCEPT ![m.uri] = [text |-> m.text, buffer |-> TRUE]]
                 scope == Affected(docs, {m.uri}) \cup Affected(new, {m.uri})
                 j == [m EXCEPT !.scope = scope]
      <4>1. \/ Become("main", "finish", j)
            \/ Goto("main", "reject") \/ Return("main")
        BY <3>1 DEF UpdateDocument
      <4> HIDE DEF scope
      <4>2. j.pulls = m.pulls
        BY <1>0 DEF Jobs
      <4> HIDE DEF j
      <4>3. CASE Become("main", "finish", j)
        BY <1>0, <4>2, <4>3, BecomeAt
      <4>4. CASE Goto("main", "reject")
        BY <1>0, <4>4, GotoAt
      <4>5. CASE Return("main")
        BY <1>0, <4>5, ReturnAt
      <4> QED
        BY <4>1, <4>3, <4>4, <4>5
    <3>2. CASE RejectOpen
      BY <1>0, <3>2, ReturnAt DEF RejectOpen
    <3>3. CASE CloseDocument
      BY <1>0, <3>3, GotoAt, ReturnAt DEF CloseDocument
    <3> QED
      BY <1>1, <3>1, <3>2, <3>3
  <2> QED
    BY <2>1, <2>2, PullFrame DEF StopLabels
<1>2. CASE PullRegister
  <2> DEFINE held == job["main"].pulls
  <2>1. /\ UNCHANGED <<asked, stopping>> /\ pc["main"] = "pull"
        /\ job'["main"].pulls = {} /\ pc'["main"] \in {"idle", "source"}
    <3> DEFINE j == [NoJob EXCEPT !.op = "publish", !.uri = job["main"].uri,
                                  !.gen = generation]
    <3>1. j.pulls = {}
      BY DEF NoJob
    <3>2. Return("main") \/ Become("main", "source", j)
      BY <1>2 DEF PullRegister
    <3> HIDE DEF j
    <3>3. job'["main"].pulls = {} /\ pc'["main"] \in {"idle", "source"}
      BY <1>0, <3>1, <3>2, BecomeAt, ReturnAt
    <3> QED
      BY <1>2, <3>3 DEF PullRegister
  <2>2. \/ /\ replies' = [id \in PullIds |->
                            replies[id] + (IF id \in held THEN 1 ELSE 0)]
           /\ pulls' = pulls
        \/ replies' = replies /\ pulls' = pulls \cup held
    BY <1>2 DEF PullRegister
  <2>3. PullPlaced'
    <3> SUFFICES ASSUME NEW id \in PullIds
                 PROVE  (IF asked[id] = None THEN Unasked(id)
                         ELSE Waiting(id) \/ InHands(id) \/ Answered(id))'
      BY DEF PullPlaced
    <3>1. replies[id] \in Nat
      BY DEF TypeOK
    <3>2. IF asked[id] = None THEN Unasked(id)
          ELSE Waiting(id) \/ InHands(id) \/ Answered(id)
      BY DEF PullInv, PullPlaced
    <3>3. CASE id \in held
      BY <2>1, <2>2, <3>1, <3>2, <3>3 DEF Waiting, InHands, Answered, Unasked
    <3>4. CASE id \notin held
      BY <2>1, <2>2, <3>1, <3>2, <3>4 DEF Waiting, InHands, Answered, Unasked
    <3> QED
      BY <3>3, <3>4
  <2>4. ~stopping
    BY <2>1 DEF PullInv, StopOrder, StopLabels
  <2> QED
    BY <2>1, <2>3, <2>4 DEF PullInv, PullsHeld, StopOrder, StopLabels
<1>3. CASE StopBridge \/ JoinBridge
  <2>1. /\ UNCHANGED <<asked, stopping, pulls, replies, job>>
        /\ pc["main"] \in StopLabels /\ pc'["main"] \in StopLabels
    BY <1>0, <1>3, GotoAt DEF StopBridge, JoinBridge, client, coordinator, StopLabels
  <2> QED
    BY <2>1 DEF PullInv, PullsHeld, StopOrder, PullPlaced, Waiting, InHands,
         Answered, Unasked, StopLabels
<1>4. CASE AnswerPending
  <2> DEFINE held == job["main"].pulls
  <2>1. /\ UNCHANGED <<asked, stopping, pulls>> /\ pc["main"] = "drain"
        /\ job'["main"].pulls = {} /\ pc'["main"] = "exited"
        /\ replies' = [id \in PullIds |->
                         replies[id] + (IF id \in held THEN 1 ELSE 0)]
    BY <1>0, <1>4, BecomeAt DEF AnswerPending, coordinator
  <2>2. PullPlaced'
    <3> SUFFICES ASSUME NEW id \in PullIds
                 PROVE  (IF asked[id] = None THEN Unasked(id)
                         ELSE Waiting(id) \/ InHands(id) \/ Answered(id))'
      BY DEF PullPlaced
    <3>1. replies[id] \in Nat
      BY DEF TypeOK
    <3>2. IF asked[id] = None THEN Unasked(id)
          ELSE Waiting(id) \/ InHands(id) \/ Answered(id)
      BY DEF PullInv, PullPlaced
    <3>3. CASE id \in held
      BY <2>1, <3>1, <3>2, <3>3 DEF Waiting, InHands, Answered, Unasked
    <3>4. CASE id \notin held
      BY <2>1, <3>1, <3>2, <3>4 DEF Waiting, InHands, Answered, Unasked
    <3> QED
      BY <3>3, <3>4
  <2> QED
    BY <2>1, <2>2 DEF PullInv, PullsHeld, StopOrder, StopLabels
<1> QED
  BY <1>1, <1>2, <1>3, <1>4 DEF MainStep

(* A step of the worker, the bridge or the disk leaves the main thread.    *)
LEMMA MainKept ==
  ASSUME TypeOK,
         \/ WorkerStep \/ PickPoll \/ PickBackground \/ BridgeStep \/ BridgeState
         \/ \E u \in Uris : DiskWrite(u) \/ WriteBuffer(u)
  PROVE  /\ UNCHANGED <<asked, stopping, pulls, replies, buffers, docs>>
         /\ pc'["main"] = pc["main"] /\ job'["main"] = job["main"]
<1>1. UNCHANGED <<asked, stopping, pulls, replies, buffers, docs>>
  BY DEF WorkerStep, PickPoll, PickBackground, BridgeStep, BridgeState, DiskWrite, WriteBuffer,
       PickDirty, PollScan, PollLock, WorkerExit, EngineNotice, BridgeDrop,
       BridgeDone, BridgeExit, BridgeTake, client, coordinator, files
<1>2. pc'["main"] = pc["main"] /\ job'["main"] = job["main"]
  <2>0. /\ "worker" \in Threads /\ "bridge" \in Threads
        /\ "main" \in Threads \ {"worker"} /\ "main" \in Threads \ {"bridge"}
    BY DEF Threads
  <2>1. CASE \E label, j : Become("worker", label, j) \/ Become("bridge", label, j)
    BY <2>0, <2>1, BecomeAt
  <2>2. CASE WorkerExit
    BY <2>0, <2>2, GotoAt DEF WorkerExit
  <2>3. CASE \E u \in Uris : DiskWrite(u) \/ WriteBuffer(u)
    BY <2>3 DEF DiskWrite, WriteBuffer
  <2>4. CASE PickDirty \/ PollScan \/ PollLock \/ PickPoll \/ PickBackground
    <3>1. \E label, j : Become("worker", label, j)
      BY <2>4 DEF PickDirty, PollScan, PollLock, PickPoll, PickBackground, Return
    <3> QED
      BY <2>1, <3>1
  <2>5. CASE BridgeStep \/ BridgeState
    <3>1. \E label, j : Become("bridge", label, j)
      BY <2>5 DEF BridgeStep, BridgeState, EngineNotice, BridgeDrop, BridgeDone,
                  BridgeExit, BridgeTake, Return
    <3> QED
      BY <2>1, <3>1
  <2> QED
    BY <2>2, <2>3, <2>4, <2>5 DEF WorkerStep
<1> QED
  BY <1>1, <1>2

LEMMA PullNext ==
  ASSUME TypeOK, PullInv, [Next]_vars
  PROVE  PullInv'
<1>1. CASE UNCHANGED vars \/ Exited
  BY <1>1, PullFrame DEF vars, Exited, client, coordinator
<1>2. ASSUME NEW t \in Threads, Step(t) PROVE PullInv'
  BY <1>2, PullStep
<1>3. CASE \/ WorkerStep \/ PickPoll \/ PickBackground \/ BridgeStep \/ BridgeState
           \/ \E u \in Uris : DiskWrite(u) \/ WriteBuffer(u)
  BY <1>3, MainKept, PullFrame
<1> QED
  BY <1>1, <1>2, <1>3, PullClient, PullMain DEF Next

(***************************************************************************)
(* What a thread carries from step to step, and the documents in hand.     *)
(***************************************************************************)
Publish == {"source", "submit", "compute", "version", "accept"}
ScanPath == {"stamps", "uris", "scanlock"}

LEMMA StepCarries ==
  ASSUME TypeOK, NEW t \in Threads, Step(t)
  PROVE  \/ /\ job'[t] = NoJob /\ pc'[t] \in {"idle", "notice"}
            /\ pc[t] \in {"finish", "scanlock"} \cup Publish
         \/ /\ job'[t].op = job[t].op /\ job'[t].uri = job[t].uri
            /\ pc[t] \notin Publish => job'[t].text = job[t].text
            /\ \/ /\ pc[t] = "begin"
                  /\ pc'[t] = IF job[t].op = "open" THEN "apply" ELSE "before"
               \/ pc[t] = "before" /\ pc'[t] = "apply"
               \/ /\ pc[t] = "apply" /\ job[t].op \in {"watch", "poll"}
                  /\ pc'[t] \in {"apply", "finish"}
               \/ pc[t] = "after" /\ pc'[t] = "finish"
               \/ pc[t] \in ScanPath /\ pc'[t] \in ScanPath
               \/ pc[t] \in Publish /\ pc'[t] \in Publish
<1>0. job[t] \in Jobs
  BY DEF TypeOK
<1>1. CASE Begin(t)
  BY <1>0, <1>1, GotoAt DEF Begin
<1>2. CASE Before(t)
  <2> DEFINE s == Affected(docs, job[t].uris)
             j == [job[t] EXCEPT !.scope = s]
  <2>1. Become(t, "apply", j) /\ pc[t] = "before"
    BY <1>2 DEF Before
  <2> HIDE DEF s
  <2>2. j.op = job[t].op /\ j.uri = job[t].uri /\ j.text = job[t].text
    BY <1>0 DEF Jobs
  <2> HIDE DEF j
  <2> QED
    BY <2>1, <2>2, BecomeAt
<1>3. CASE RefreshFile(t)
  BY <1>0, <1>3 DEF RefreshFile, TypeOK, Jobs
<1>4. CASE After(t)
  <2> DEFINE s == Affected(docs, job[t].uris)
             j == [job[t] EXCEPT !.scope = @ \cup s]
  <2>1. Become(t, "finish", j)
    BY <1>4 DEF After
  <2>2. \/ pc[t] = "after"
        \/ pc[t] = "apply" /\ job[t].op \in {"watch", "poll"}
    BY <1>4 DEF After
  <2> HIDE DEF s
  <2>3. j.op = job[t].op /\ j.uri = job[t].uri /\ j.text = job[t].text
    BY <1>0 DEF Jobs
  <2> HIDE DEF j
  <2> QED
    BY <2>1, <2>2, <2>3, BecomeAt
<1>5. CASE Finish(t)
  BY <1>5, ReturnAt DEF Finish
<1>6. CASE ScanStamps(t)
  BY <1>0, <1>6, BecomeAt DEF ScanStamps, ScanPath, Publish, Jobs
<1>7. CASE ScanUris(t)
  BY <1>0, <1>7, BecomeAt DEF ScanUris, ScanPath, Publish, Jobs
<1>8. CASE ScheduleFull(t)
  BY <1>8, BecomeAt, ReturnAt DEF ScheduleFull
<1>9. CASE ReadSource(t) \/ Submit(t)
  <2>1. CASE GiveUp(t)
    BY <1>9, <2>1, ReturnAt DEF GiveUp, ReadSource, Submit, Publish
  <2>2. CASE ReadSource(t) /\ ~GiveUp(t)
    BY <1>0, <2>2, BecomeAt DEF ReadSource, Publish, Jobs
  <2>3. CASE Submit(t) /\ ~GiveUp(t)
    BY <1>0, <2>3, GotoAt DEF Submit, Publish, Jobs
  <2> QED
    BY <1>9, <2>1, <2>2, <2>3
<1>10. CASE Compute(t)
  BY <1>0, <1>10, BecomeAt, ReturnAt DEF Compute, Publish, Jobs
<1>11. CASE ReadVersion(t)
  <2> DEFINE v == Version(job[t].uri)
             e == IF t = "bridge" THEN TRUE ELSE job[t].text = Absent /\ ready
             j == [job[t] EXCEPT !.version = v, !.engine = e]
  <2>1. Become(t, "accept", j) /\ pc[t] = "version"
    BY <1>11 DEF ReadVersion
  <2> HIDE DEF v, e
  <2>2. j.op = job[t].op /\ j.uri = job[t].uri
    BY <1>0 DEF Jobs
  <2> HIDE DEF j
  <2> QED
    BY <2>1, <2>2, BecomeAt DEF Publish
<1>12. CASE Accept(t)
  <2>1. Return(t) /\ pc[t] = "accept"
    BY <1>12 DEF Accept, Refuse, Deliver, GiveUp
  <2> QED
    BY <2>1, ReturnAt DEF Publish
<1> QED
  BY <1>1, <1>2, <1>3, <1>4, <1>5, <1>6, <1>7, <1>8, <1>9, <1>10, <1>11, <1>12
     DEF Step

LEMMA KnownFrame ==
  ASSUME TypeOK, UriKnown, NEW t \in Threads,
         \A s \in Threads \ {t} : pc'[s] = pc[s] /\ job'[s] = job[s],
         pc'[t] \in Holders => job'[t].uri \in Uris
  PROVE  UriKnown'
  BY DEF UriKnown

LEMMA KnownNext ==
  ASSUME TypeOK, UriKnown, EditPlaced, [Next]_vars
  PROVE  UriKnown'
<1>0. "main" \in Threads /\ "worker" \in Threads /\ "bridge" \in Threads
  BY DEF Threads
<1>1. CASE UNCHANGED vars \/ Exited \/ \E u \in Uris : DiskWrite(u) \/ WriteBuffer(u)
  BY <1>1 DEF vars, Exited, DiskWrite, WriteBuffer, UriKnown
<1>2. ASSUME NEW t \in Threads, Step(t) PROVE UriKnown'
  <2>1. pc'[t] \in Holders => pc[t] \in Holders /\ job'[t].uri = job[t].uri
    BY <1>2, StepCarries DEF Holders, Publish, ScanPath
  <2> QED
    BY <1>2, <2>1, StepFrame, KnownFrame DEF UriKnown
<1>3. ASSUME NEW t \in Threads, NEW label, NEW j, Become(t, label, j),
             label \in Holders => j.uri \in Uris
      PROVE  UriKnown'
  BY <1>3, BecomeAt, KnownFrame
<1>4. ASSUME NEW t \in Threads, NEW label \in Labels \ Holders,
             Goto(t, label) \/ \E j : Become(t, label, j)
      PROVE  UriKnown'
  BY <1>4, GotoAt, BecomeAt, KnownFrame
<1>5. CASE Client
  <2>1. ASSUME NEW p \in PullIds, NEW u \in Uris, PullReceived(p, u)
        PROVE  UriKnown'
    <3>1. [NoJob EXCEPT !.op = "publish", !.uri = u, !.engine = ready,
                        !.pulls = {p}].uri = u
      BY DEF NoJob
    <3> QED
      BY <1>0, <1>3, <2>1, <3>1 DEF PullReceived
  <2>2. ASSUME NEW p \in PullIds, CancelPull(p) PROVE UriKnown'
    BY <2>2 DEF CancelPull, UriKnown
  <2>3. ASSUME NEW u \in Uris, DidOpen(u) \/ DidChange(u) \/ DidClose(u) \/ DidSave(u)
        PROVE  UriKnown'
    <3>1. \E label \in {"begin", "apply", "stamps"} : \E j : Become("main", label, j)
      BY <2>3 DEF DidOpen, DidChange, DidClose, DidSave
    <3> QED
      BY <1>0, <1>4, <3>1 DEF Labels, Holders
  <2>4. ASSUME NEW S \in SUBSET Uris, DidChangeWatchedFiles(S) PROVE UriKnown'
    <3>1. \E j : Become("main", "before", j)
      BY <2>4 DEF DidChangeWatchedFiles
    <3> QED
      BY <1>0, <1>4, <3>1 DEF Labels, Holders
  <2>5. CASE Reconnect \/ RequestStop
    <3>1. \E label \in {"stamps", "stopbridge"} : \E j : Become("main", label, j)
      BY <2>5 DEF Reconnect, RequestStop
    <3> QED
      BY <1>0, <1>4, <3>1 DEF Labels, Holders
  <2> QED
    BY <1>5, <2>1, <2>2, <2>3, <2>4, <2>5 DEF Client
<1>6. CASE MainStep
  <2>1. CASE PullRegister
    <3> DEFINE j == [NoJob EXCEPT !.op = "publish", !.uri = job["main"].uri,
                                  !.gen = generation]
    <3>1. j.uri = job["main"].uri
      BY DEF NoJob
    <3>2. Return("main") \/ Become("main", "source", j)
      BY <2>1 DEF PullRegister
    <3>3. job["main"].uri \in Uris
      BY <1>0, <2>1 DEF PullRegister, UriKnown, Holders
    <3> QED
      BY <1>0, <1>3, <3>1, <3>2, <3>3 DEF Return, Holders
  <2>2. CASE ~PullRegister
    <3>1. \E label \in {"finish", "reject", "idle", "after", "join", "drain", "exited"} :
             Goto("main", label) \/ \E j : Become("main", label, j)
      BY <1>6, <2>2 DEF MainStep, UpdateDocument, RejectOpen, CloseDocument,
           StopBridge, JoinBridge, AnswerPending, Return
    <3> QED
      BY <1>0, <1>4, <3>1 DEF Labels, Holders
  <2> QED
    BY <2>1, <2>2
<1>7. CASE WorkerStep \/ PickPoll \/ PickBackground
  <2>1. ASSUME NEW u \in Uris, NEW b \in BOOLEAN,
               Become("worker", "source", [NoJob EXCEPT !.op = "publish",
                 !.uri = u, !.gen = generation, !.force = b, !.notify = TRUE])
        PROVE  UriKnown'
    <3>1. [NoJob EXCEPT !.op = "publish", !.uri = u, !.gen = generation,
                        !.force = b, !.notify = TRUE].uri = u
      BY DEF NoJob
    <3> QED
      BY <1>0, <1>3, <2>1, <3>1
  <2>2. ASSUME NEW u \in Uris,
               Become("worker", "source", [NoJob EXCEPT !.op = "publish",
                 !.uri = u, !.gen = generation, !.notify = TRUE])
        PROVE  UriKnown'
    <3>1. [NoJob EXCEPT !.op = "publish", !.uri = u, !.gen = generation,
                        !.notify = TRUE].uri = u
      BY DEF NoJob
    <3> QED
      BY <1>0, <1>3, <2>2, <3>1
  <2>3. CASE PickDirty
    BY <2>1, <2>3 DEF PickDirty, TypeOK
  <2>4. CASE PickBackground
    BY <2>2, <2>4 DEF PickBackground, TypeOK
  <2>5. CASE PickPoll \/ PollScan \/ PollLock \/ WorkerExit
    <3>1. \E label \in {"poll", "polllock", "idle", "begin", "exited"} :
             Goto("worker", label) \/ \E j : Become("worker", label, j)
      BY <2>5 DEF PickPoll, PollScan, PollLock, WorkerExit, Return
    <3> QED
      BY <1>0, <1>4, <3>1 DEF Labels, Holders
  <2> QED
    BY <1>7, <2>3, <2>4, <2>5 DEF WorkerStep
<1>8. CASE BridgeStep \/ BridgeState
  <2>1. ASSUME NEW u \in Uris, BridgeTake(u) PROVE UriKnown'
    <3> DEFINE j == [NoJob EXCEPT !.op = "publish", !.uri = u, !.gen = bdocs[u].rev,
                                  !.text = bdocs[u].text, !.notify = TRUE]
    <3>1. j.uri = u
      BY DEF NoJob
    <3>2. Become("bridge", "busy", j)
      BY <2>1 DEF BridgeTake
    <3> QED
      BY <1>0, <1>3, <3>1, <3>2
  <2>2. CASE BridgeDone
    <3> DEFINE items == EngineItems(job["bridge"].text)
               j == [job["bridge"] EXCEPT !.items = items]
    <3>1. Become("bridge", "version", j) \/ Return("bridge")
      BY <2>2 DEF BridgeDone
    <3> HIDE DEF items
    <3>2. j.uri = job["bridge"].uri
      BY <1>0 DEF TypeOK, Jobs
    <3>3. job["bridge"].uri \in Uris
      BY <1>0, <2>2 DEF BridgeDone, UriKnown, Holders
    <3> QED
      BY <1>0, <1>3, <3>1, <3>2, <3>3 DEF Return, Holders
  <2>3. CASE EngineNotice \/ BridgeDrop \/ BridgeExit \/ BridgeState
    <3>1. \E label \in {"idle", "exited", "stamps"} : \E j : Become("bridge", label, j)
      BY <2>3 DEF EngineNotice, BridgeDrop, BridgeExit, BridgeState, Return
    <3> QED
      BY <1>0, <1>4, <3>1 DEF Labels, Holders
  <2> QED
    BY <1>8, <2>1, <2>2, <2>3 DEF BridgeStep
<1> QED
  BY <1>1, <1>2, <1>5, <1>6, <1>7, <1>8 DEF Next

(***************************************************************************)
(* Editor buffers and the index.                                           *)
(***************************************************************************)
EditOps == {"open", "change", "close"}

(* Steps of the shared functions: the worker and the bridge leave the main *)
(* thread alone, and a refresh never touches a buffer.                     *)
LEMMA RefreshKeepsBuffers ==
  ASSUME TypeOK, NEW t \in Threads, Step(t), NEW u \in Uris
  PROVE  /\ docs'[u].buffer = docs[u].buffer
         /\ docs[u].buffer => docs'[u] = docs[u]
<1>1. CASE RefreshFile(t)
  <2>1. PICK v \in job[t].todo :
           docs' = IF docs[v].buffer THEN docs
                   ELSE [docs EXCEPT ![v] = OnDisk(disk[v])]
    BY <1>1 DEF RefreshFile
  <2>2. docs \in [Uris -> Documents] /\ OnDisk(disk[v]).buffer = FALSE
    BY DEF TypeOK, OnDisk
  <2>3. CASE docs' = docs
    BY <2>3
  <2>4. CASE docs' = [docs EXCEPT ![v] = OnDisk(disk[v])] /\ ~docs[v].buffer
    <3>1. CASE u = v
      <4>1. docs'[u].buffer = FALSE
        BY <2>2, <2>4, <3>1
      <4>2. docs[u] \in Documents /\ docs[u].buffer \in BOOLEAN
        BY <2>2 DEF Documents
      <4> QED
        BY <2>4, <3>1, <4>1, <4>2
    <3>2. CASE u # v
      BY <2>2, <2>4, <3>2
    <3> QED
      BY <3>1, <3>2
  <2> QED
    BY <2>1, <2>3, <2>4
<1>2. CASE ~RefreshFile(t)
  <2>1. docs' = docs
    BY <1>2 DEF Step, Begin, Before, After, Finish, ScanStamps, ScanUris,
         ScheduleFull, ReadSource, Submit, Compute, ReadVersion, Accept, files
  <2> QED
    BY <2>1
<1> QED
  BY <1>1, <1>2

LEMMA AgreeKept ==
  ASSUME NEW u, Agree(u), buffers'[u] = buffers[u],
         docs'[u].buffer = docs[u].buffer,
         docs[u].buffer => docs'[u] = docs[u]
  PROVE  Agree(u)'
  BY DEF Agree

LEMMA EditStep ==
  ASSUME TypeOK, EditPlaced, BuffersAgree, NEW t \in Threads, Step(t)
  PROVE  EditPlaced' /\ BuffersAgree'
<1>0. buffers' = buffers
  BY StepFrame
<1>1. CASE t # "main"
  <2>1. pc'["main"] = pc["main"] /\ job'["main"] = job["main"]
    BY <1>1, StepFrame DEF Threads
  <2>2. EditPlaced'
    BY <1>0, <2>1 DEF EditPlaced
  <2>3. ASSUME NEW u \in Uris \ Outside PROVE Agree(u)' \/ Coming(u)'
    <3>1. CASE Agree(u)
      BY <1>0, <3>1, RefreshKeepsBuffers, AgreeKept
    <3>2. CASE Coming(u)
      BY <2>1, <3>2 DEF Coming
    <3> QED
      BY <3>1, <3>2 DEF BuffersAgree
  <2> QED
    BY <2>2, <2>3 DEF BuffersAgree
<1>2. CASE t = "main"
  <2>0. NoJob.op = "none"
    BY DEF NoJob
  <2>1. CASE job'["main"] = NoJob /\ pc["main"] \in {"finish", "scanlock"} \cup Publish
    <3>1. pc'["main"] # "reject"
      BY <1>2, StepFrame DEF Quiet
    <3>2. EditPlaced'
      BY <2>0, <2>1, <3>1 DEF EditPlaced
    <3>3. ASSUME NEW u \in Uris \ Outside PROVE Agree(u)'
      <4>1. Agree(u)
        BY <2>1 DEF BuffersAgree, Coming, Publish
      <4> QED
        BY <1>0, <4>1, RefreshKeepsBuffers, AgreeKept
    <3> QED
      BY <3>2, <3>3 DEF BuffersAgree
  <2>2. CASE ~(job'["main"] = NoJob /\ pc["main"] \in {"finish", "scanlock"} \cup Publish)
    <3>1. /\ job'["main"].op = job["main"].op /\ job'["main"].uri = job["main"].uri
          /\ pc["main"] \notin Publish => job'["main"].text = job["main"].text
          /\ \/ /\ pc["main"] = "begin"
                /\ pc'["main"] = IF job["main"].op = "open" THEN "apply" ELSE "before"
             \/ pc["main"] = "before" /\ pc'["main"] = "apply"
             \/ /\ pc["main"] = "apply" /\ job["main"].op \in {"watch", "poll"}
                /\ pc'["main"] \in {"apply", "finish"}
             \/ pc["main"] = "after" /\ pc'["main"] = "finish"
             \/ pc["main"] \in ScanPath /\ pc'["main"] \in ScanPath
             \/ pc["main"] \in Publish /\ pc'["main"] \in Publish
      BY <1>2, <2>2, StepCarries
    <3>2. EditPlaced'
      BY <1>0, <3>1 DEF EditPlaced, Publish, ScanPath
    <3>3. ASSUME NEW u \in Uris \ Outside PROVE Agree(u)' \/ Coming(u)'
      <4>1. CASE Agree(u)
        BY <1>0, <4>1, RefreshKeepsBuffers, AgreeKept
      <4>2. CASE Coming(u)
        BY <3>1, <4>2 DEF Coming, ScanPath, Publish
      <4> QED
        BY <4>1, <4>2 DEF BuffersAgree
    <3> QED
      BY <3>2, <3>3 DEF BuffersAgree
  <2> QED
    BY <2>1, <2>2
<1> QED
  BY <1>1, <1>2

(* Steps of the main thread that have nothing to do with edits.            *)
LEMMA EditFrame ==
  ASSUME EditPlaced, BuffersAgree, UNCHANGED <<buffers, docs>>,
         \/ pc'["main"] = pc["main"] /\ job'["main"] = job["main"]
         \/ /\ job["main"].op \notin EditOps /\ job'["main"].op \notin EditOps
            /\ pc'["main"] # "reject"
  PROVE  EditPlaced' /\ BuffersAgree'
<1>1. CASE pc'["main"] = pc["main"] /\ job'["main"] = job["main"]
  BY <1>1 DEF EditPlaced, BuffersAgree, Agree, Coming
<1>2. CASE /\ job["main"].op \notin EditOps /\ job'["main"].op \notin EditOps
           /\ pc'["main"] # "reject"
  BY <1>2 DEF EditPlaced, BuffersAgree, Agree, Coming, EditOps
<1> QED
  BY <1>1, <1>2

LEMMA EditClient ==
  ASSUME TypeOK, EditPlaced, BuffersAgree, Client
  PROVE  EditPlaced' /\ BuffersAgree'
<1>0. "main" \in Threads
  BY DEF Threads
<1>1. ASSUME NEW u \in Uris, DidOpen(u) \/ DidChange(u) \/ DidClose(u)
      PROVE  EditPlaced' /\ BuffersAgree'
  <2>1. EditTaken(u)
    BY <1>1, EditBegins
  <2>2. docs' = docs /\ buffers \in [Uris -> Texts]
    BY <1>1 DEF DidOpen, DidChange, DidClose, files, TypeOK
  <2>3. buffers'[u] = job'["main"].text
    BY <2>1, <2>2 DEF EditTaken
  <2>4. EditPlaced'
    BY <2>1, <2>3 DEF EditTaken, EditPlaced
  <2>5. job["main"].op \notin EditOps
    BY <2>1 DEF EditTaken, EditPlaced, EditOps
  <2>6. ASSUME NEW v \in Uris \ Outside PROVE Agree(v)' \/ Coming(v)'
    <3>1. CASE v = u
      BY <2>1, <3>1 DEF EditTaken, Coming
    <3>2. CASE v # u
      <4>1. Agree(v)
        BY <2>5 DEF BuffersAgree, Coming, EditOps
      <4>2. buffers'[v] = buffers[v]
        BY <2>1, <2>2, <3>2 DEF EditTaken
      <4> QED
        BY <2>2, <4>1, <4>2 DEF Agree
    <3> QED
      BY <3>1, <3>2
  <2> QED
    BY <2>4, <2>6 DEF BuffersAgree
<1>2. ASSUME NEW p \in PullIds, CancelPull(p) PROVE EditPlaced' /\ BuffersAgree'
  BY <1>2, EditFrame DEF CancelPull, files
<1>3. ASSUME NEW j, NEW label, Become("main", label, j), label # "reject",
             j.op \in {"scan", "stop", "publish", "watch"}, pc["main"] = "idle",
             UNCHANGED <<docs, buffers>>
      PROVE  EditPlaced' /\ BuffersAgree'
  <2>1. job["main"].op \notin EditOps
    BY <1>3 DEF EditPlaced, EditOps
  <2>2. job'["main"] = j /\ pc'["main"] = label
    BY <1>0, <1>3, BecomeAt
  <2> QED
    BY <1>3, <2>1, <2>2, EditFrame DEF EditOps
<1>4. ASSUME NEW u \in Uris, DidSave(u) PROVE EditPlaced' /\ BuffersAgree'
  <2>1. [NoJob EXCEPT !.op = "scan"].op = "scan"
    BY DEF NoJob
  <2> QED
    BY <1>3, <1>4, <2>1 DEF DidSave, Message, MainReady, files
<1>5. CASE Reconnect
  <2>1. [NoJob EXCEPT !.op = "scan"].op = "scan"
    BY DEF NoJob
  <2> QED
    BY <1>3, <1>5, <2>1 DEF Reconnect, Message, MainReady, files
<1>6. CASE RequestStop
  <2>1. [NoJob EXCEPT !.op = "stop", !.pulls = pulls].op = "stop"
    BY DEF NoJob
  <2> QED
    BY <1>3, <1>6, <2>1 DEF RequestStop, MainReady, files
<1>7. ASSUME NEW S \in SUBSET Uris, DidChangeWatchedFiles(S)
      PROVE  EditPlaced' /\ BuffersAgree'
  <2> DEFINE changed == {u \in S : buffers[u] = Absent}
             j == [NoJob EXCEPT !.op = "watch", !.uris = changed, !.todo = changed]
  <2>1. /\ Become("main", "before", j) /\ pc["main"] = "idle"
        /\ UNCHANGED <<docs, buffers>>
    BY <1>7 DEF DidChangeWatchedFiles, Message, MainReady, files
  <2>2. j.op = "watch"
    BY DEF NoJob
  <2> HIDE DEF j
  <2> QED
    BY <1>3, <2>1, <2>2
<1>8. ASSUME NEW p \in PullIds, NEW u \in Uris, PullReceived(p, u)
      PROVE  EditPlaced' /\ BuffersAgree'
  <2> DEFINE j == [NoJob EXCEPT !.op = "publish", !.uri = u, !.engine = ready,
                                !.pulls = {p}]
  <2>1. /\ Become("main", "pull", j) /\ pc["main"] = "idle"
        /\ UNCHANGED <<docs, buffers>>
    BY <1>8 DEF PullReceived, MainReady, files
  <2>2. j.op = "publish"
    BY DEF NoJob
  <2> HIDE DEF j
  <2> QED
    BY <1>3, <2>1, <2>2
<1> QED
  BY <1>1, <1>2, <1>4, <1>5, <1>6, <1>7, <1>8 DEF Client

LEMMA EditMain ==
  ASSUME TypeOK, EditPlaced, BuffersAgree, Buffered, MainStep
  PROVE  EditPlaced' /\ BuffersAgree'
<1>0. "main" \in Threads /\ job["main"] \in Jobs /\ NoJob.op = "none"
  BY DEF Threads, TypeOK, NoJob
<1>1. CASE UpdateDocument
  <2> DEFINE m == job["main"]
             entry == [text |-> m.text, buffer |-> TRUE]
             new == [docs EXCEPT ![m.uri] = entry]
             scope == Affected(docs, {m.uri}) \cup Affected(new, {m.uri})
             j == [m EXCEPT !.scope = scope]
  <2>1. /\ m.uri \in Uris /\ buffers[m.uri] = m.text /\ m.text # Absent
        /\ m.op \in {"open", "change"} /\ pc["main"] = "apply"
        /\ buffers' = buffers
    BY <1>1 DEF UpdateDocument, EditPlaced
  <2>2. CASE m.uri \notin Outside
    <3>1. docs' = new /\ Become("main", "finish", j)
      BY <1>1, <2>2 DEF UpdateDocument
    <3> HIDE DEF scope
    <3>2. j.op = m.op /\ j.uri = m.uri /\ j.text = m.text
      BY <1>0 DEF Jobs
    <3> HIDE DEF j
    <3>3. job'["main"] = j /\ pc'["main"] = "finish"
      BY <1>0, <3>1, BecomeAt
    <3>4. EditPlaced'
      BY <2>1, <3>2, <3>3 DEF EditPlaced
    <3>5. ASSUME NEW u \in Uris \ Outside PROVE Agree(u)'
      <4>1. CASE u = m.uri
        <5>1. docs'[u] = entry
          BY <3>1, <4>1 DEF TypeOK
        <5> QED
          BY <2>1, <4>1, <5>1 DEF Agree
      <4>2. CASE u # m.uri
        <5>1. docs'[u] = docs[u]
          BY <3>1, <4>2 DEF TypeOK
        <5>2. Agree(u)
          BY <4>2 DEF BuffersAgree, Coming
        <5> QED
          BY <2>1, <5>1, <5>2 DEF Agree
      <4> QED
        BY <4>1, <4>2
    <3> QED
      BY <3>4, <3>5 DEF BuffersAgree
  <2>3. CASE m.uri \in Outside
    <3>1. docs' = docs /\ IF m.op = "open" THEN Goto("main", "reject")
                                           ELSE Return("main")
      BY <1>1, <2>3 DEF UpdateDocument
    <3>2. \/ m.op = "open" /\ job'["main"] = m /\ pc'["main"] = "reject"
          \/ job'["main"] = NoJob /\ pc'["main"] = "idle"
      BY <1>0, <3>1, GotoAt, ReturnAt
    <3>3. EditPlaced'
      BY <1>0, <2>1, <2>3, <3>2 DEF EditPlaced
    <3>4. ASSUME NEW u \in Uris \ Outside PROVE Agree(u)'
      <4>1. Agree(u)
        BY <2>3 DEF BuffersAgree, Coming
      <4> QED
        BY <2>1, <3>1, <4>1 DEF Agree
    <3> QED
      BY <3>3, <3>4 DEF BuffersAgree
  <2> QED
    BY <2>2, <2>3
<1>2. CASE CloseDocument
  <2> DEFINE m == job["main"]
  <2>1. /\ m.uri \in Uris /\ buffers[m.uri] = Absent /\ m.text = Absent
        /\ m.op = "close" /\ pc["main"] = "apply" /\ buffers' = buffers
    BY <1>2 DEF CloseDocument, EditPlaced
  <2>2. \/ m.uri \in Outside /\ docs' = docs /\ Return("main")
        \/ /\ docs' = [docs EXCEPT ![m.uri] = OnDisk(disk[m.uri])]
           /\ Goto("main", "after")
    BY <1>2, <2>1 DEF CloseDocument, Buffered
  <2>3. \/ job'["main"] = NoJob /\ pc'["main"] = "idle"
        \/ job'["main"] = m /\ pc'["main"] = "after"
    BY <1>0, <2>2, GotoAt, ReturnAt
  <2>4. EditPlaced'
    BY <1>0, <2>1, <2>3 DEF EditPlaced
  <2>5. ASSUME NEW u \in Uris \ Outside PROVE Agree(u)'
    <3>1. CASE u = m.uri
      <4>1. docs'[u] = OnDisk(disk[u])
        BY <2>2, <3>1 DEF TypeOK
      <4> QED
        BY <2>1, <3>1, <4>1 DEF Agree, OnDisk
    <3>2. CASE u # m.uri
      <4>1. docs'[u] = docs[u]
        BY <2>2, <3>2 DEF TypeOK
      <4>2. Agree(u)
        BY <3>2 DEF BuffersAgree, Coming
      <4> QED
        BY <2>1, <4>1, <4>2 DEF Agree
    <3> QED
      BY <3>1, <3>2
  <2> QED
    BY <2>4, <2>5 DEF BuffersAgree
<1>3. CASE RejectOpen
  <2>1. /\ pc["main"] = "reject" /\ job'["main"] = NoJob /\ pc'["main"] = "idle"
        /\ UNCHANGED <<docs, buffers>>
    BY <1>0, <1>3, ReturnAt DEF RejectOpen, files
  <2>2. EditPlaced'
    BY <1>0, <2>1 DEF EditPlaced
  <2>3. ASSUME NEW u \in Uris \ Outside PROVE Agree(u)'
    <3>1. Agree(u)
      BY <2>1 DEF BuffersAgree, Coming
    <3> QED
      BY <2>1, <3>1 DEF Agree
  <2> QED
    BY <2>2, <2>3 DEF BuffersAgree
<1>4. CASE StopBridge \/ JoinBridge \/ AnswerPending
  <2>1. /\ pc["main"] \in StopLabels /\ pc'["main"] # "reject"
        /\ job'["main"] \in {job["main"], NoJob} /\ UNCHANGED <<docs, buffers>>
    BY <1>0, <1>4, BecomeAt, GotoAt
       DEF StopBridge, JoinBridge, AnswerPending, StopLabels, files
  <2> QED
    BY <1>0, <2>1, EditFrame DEF EditPlaced, EditOps, StopLabels
<1>5. CASE PullRegister
  <2> DEFINE j == [NoJob EXCEPT !.op = "publish", !.uri = job["main"].uri,
                                !.gen = generation]
  <2>1. j.op = "publish"
    BY DEF NoJob
  <2>2. /\ Return("main") \/ Become("main", "source", j)
        /\ pc["main"] = "pull" /\ UNCHANGED <<docs, buffers>>
    BY <1>5 DEF PullRegister, files
  <2> HIDE DEF j
  <2>3. pc'["main"] \in {"idle", "source"} /\ job'["main"].op \in {"none", "publish"}
    BY <1>0, <2>1, <2>2, BecomeAt, ReturnAt
  <2> QED
    BY <2>2, <2>3, EditFrame DEF EditPlaced, EditOps
<1> QED
  BY <1>1, <1>2, <1>3, <1>4, <1>5 DEF MainStep

LEMMA EditNext ==
  ASSUME TypeOK, EditPlaced, BuffersAgree, Buffered, [Next]_vars
  PROVE  EditPlaced' /\ BuffersAgree'
<1>1. CASE UNCHANGED vars \/ Exited
  BY <1>1, EditFrame DEF vars, Exited, files
<1>2. CASE \/ WorkerStep \/ PickPoll \/ PickBackground \/ BridgeStep \/ BridgeState
           \/ \E u \in Uris : DiskWrite(u) \/ WriteBuffer(u)
  BY <1>2, MainKept, EditFrame
<1>3. CASE \E t \in Threads : Step(t)
  BY <1>3, EditStep
<1> QED
  BY <1>1, <1>2, <1>3, EditClient, EditMain DEF Next

LEMMA BufferedNext ==
  ASSUME TypeOK, EditPlaced, BuffersAgree, Buffered, [Next]_vars
  PROVE  Buffered'
<1> DEFINE u == job'["main"].uri
           OnItsWay == {"begin", "before", "apply"}
<1> SUFFICES ASSUME job'["main"].op \in {"change", "close"}, u \notin Outside,
                    pc'["main"] \in OnItsWay
             PROVE  docs'[u].buffer /\ docs'[u].text # Absent
  BY DEF Buffered
<1>0. "main" \in Threads
  BY DEF Threads
<1>1. CASE /\ pc["main"] \in OnItsWay
           /\ job["main"].op = job'["main"].op /\ job["main"].uri = u
           /\ docs' = docs \/ \E t \in Threads : Step(t)
  <2>1. u \in Uris /\ docs[u].buffer /\ docs[u].text # Absent
    BY <1>1 DEF Buffered, EditPlaced
  <2>2. docs'[u] = docs[u]
    BY <1>1, <2>1, RefreshKeepsBuffers
  <2> QED
    BY <2>1, <2>2
<1>2. CASE UNCHANGED vars \/ Exited
  BY <1>1, <1>2 DEF vars, Exited, files
<1>3. CASE \/ WorkerStep \/ PickPoll \/ PickBackground \/ BridgeStep \/ BridgeState
           \/ \E v \in Uris : DiskWrite(v) \/ WriteBuffer(v)
  BY <1>1, <1>3, MainKept
<1>4. ASSUME NEW t \in Threads, Step(t)
      PROVE  /\ pc["main"] \in OnItsWay
             /\ job["main"].op = job'["main"].op /\ job["main"].uri = u
  <2>1. CASE t = "main"
    <3>1. job'["main"] # NoJob
      BY DEF NoJob
    <3> QED
      BY <1>4, <2>1, <3>1, StepCarries DEF Publish, ScanPath
  <2>2. CASE t # "main"
    BY <1>0, <1>4, <2>2, StepFrame
  <2> QED
    BY <2>1, <2>2
<1>5. CASE Client
  <2>1. ASSUME NEW v \in Uris, DidOpen(v) \/ DidChange(v) \/ DidClose(v)
        PROVE  docs'[u].buffer /\ docs'[u].text # Absent
    <3>1. EditTaken(v) /\ docs' = docs
      BY <2>1, EditBegins DEF DidOpen, DidChange, DidClose, files
    <3>2. v = u /\ pc["main"] = "idle" /\ buffers[v] # Absent
      BY <3>1 DEF EditTaken
    <3>3. Agree(v)
      BY <3>2 DEF BuffersAgree, Coming
    <3> QED
      BY <3>1, <3>2, <3>3 DEF Agree
  <2>2. ASSUME NEW j, NEW label, Become("main", label, j),
               \/ label \notin OnItsWay
               \/ j.op = "watch"
        PROVE  FALSE
    BY <1>0, <2>2, BecomeAt
  <2>3. ASSUME NEW S \in SUBSET Uris, DidChangeWatchedFiles(S) PROVE FALSE
    <3> DEFINE changed == {v \in S : buffers[v] = Absent}
               j == [NoJob EXCEPT !.op = "watch", !.uris = changed, !.todo = changed]
    <3>1. Become("main", "before", j)
      BY <2>3 DEF DidChangeWatchedFiles
    <3>2. j.op = "watch"
      BY DEF NoJob
    <3> HIDE DEF j
    <3> QED
      BY <2>2, <3>1, <3>2
  <2>4. CASE \E p \in PullIds : CancelPull(p)
    BY <1>1, <2>4 DEF CancelPull, files
  <2>5. CASE \/ \E v \in Uris : DidSave(v) \/ \E p \in PullIds : PullReceived(p, v)
             \/ Reconnect \/ RequestStop
    BY <2>2, <2>5 DEF DidSave, PullReceived, Reconnect, RequestStop
  <2> QED
    BY <1>5, <2>1, <2>3, <2>4, <2>5 DEF Client
<1>6. CASE MainStep
  <2>1. \E label \in {"finish", "reject", "idle", "after", "source", "join", "drain",
                      "exited"} :
          Goto("main", label) \/ \E j : Become("main", label, j)
    BY <1>6 DEF MainStep, UpdateDocument, RejectOpen, CloseDocument, PullRegister,
       StopBridge, JoinBridge, AnswerPending, Return
  <2> QED
    BY <1>0, <2>1, BecomeAt, GotoAt
<1> QED
  BY <1>1, <1>2, <1>3, <1>4, <1>5, <1>6 DEF Next

(***************************************************************************)
(* The theorems.                                                           *)
(***************************************************************************)
LEMMA InitIInv == Init => IInv
<1> SUFFICES ASSUME Init PROVE IInv
  OBVIOUS
<1>1. disk \in [Uris -> {Absent, 1}] /\ docs = [u \in Uris |-> OnDisk(FileStamps[u])]
  BY DEF Init
<1>2. disk \in [Uris -> Texts] /\ docs \in [Uris -> Documents]
  BY <1>1, OnDiskType DEF Texts, Absent, FileStamps
<1>3. [NoJob EXCEPT !.op = "scan"] \in Jobs /\ NoJob \in Jobs
  BY NoJobType DEF Jobs, Ops
<1>4. /\ job \in [Threads -> Jobs] /\ pc \in [Threads -> Labels]
      /\ pc["main"] = "stamps" /\ pc["worker"] = "idle" /\ pc["bridge"] = "idle"
      /\ job["main"] = [NoJob EXCEPT !.op = "scan"]
  BY <1>3 DEF Init, Threads, Labels
<1>5. job["main"].op = "scan" /\ job["main"].pulls = {}
  BY <1>4 DEF NoJob
<1>6. TypeOK
  BY <1>2, <1>4 DEF Init, TypeOK, Texts, Absent
<1>7. UriKnown
  BY <1>4 DEF UriKnown, Threads, Holders
<1>8. PullInv
  BY <1>4, <1>5 DEF Init, PullInv, PullsHeld, StopOrder, PullPlaced, Unasked,
                    StopLabels
<1>9. EditPlaced
  BY <1>4, <1>5 DEF EditPlaced
<1>10. BuffersAgree
  <2> SUFFICES ASSUME NEW u \in Uris PROVE buffers[u] = Absent /\ ~docs[u].buffer
    BY DEF BuffersAgree, Agree
  <2> QED
    BY <1>1 DEF Init, OnDisk
<1>11. Buffered
  BY <1>5 DEF Buffered
<1> QED
  BY <1>6, <1>7, <1>8, <1>9, <1>10, <1>11 DEF IInv

LEMMA IInvNext == IInv /\ [Next]_vars => IInv'
  BY TypeStep, KnownNext, PullNext, EditNext, BufferedNext DEF IInv, PullInv

(* The strengthened invariant holds of every behaviour: what every other   *)
(* theorem here is read off from.                                          *)
THEOREM Inductive == Spec => []IInv
  BY InitIInv, IInvNext, PTL DEF Spec

(* Every variable keeps its type, for any number of documents, requests,   *)
(* edits and engine connections.                                           *)
THEOREM TypeCorrect == Spec => []TypeOK
<1>1. IInv => TypeOK
  BY DEF IInv
<1> QED
  BY <1>1, Inductive, PTL

(* No request is ever answered twice (pull, accept, cancel_pull and        *)
(* request_stop all take it off the list in the critical section that      *)
(* decides to answer it).                                                  *)
THEOREM RepliesOnce == Spec => []ReplyOnce
<1>1. IInv => ReplyOnce
  BY DEF IInv, PullInv, PullPlaced, ReplyOnce, Waiting, InHands, Answered, Unasked
<1> QED
  BY <1>1, Inductive, PTL

(* Once shutdown has been answered, every request that was received has    *)
(* been answered exactly once.                                             *)
THEOREM StopAnswersAll == Spec => []ShutdownAnswersAll
<1>1. IInv => ShutdownAnswersAll
  <2> SUFFICES ASSUME IInv, pc["main"] = "exited", NEW id \in PullIds,
                      asked[id] # None
               PROVE  replies[id] = 1
    BY DEF ShutdownAnswersAll
  <2>1. pulls = {} /\ job["main"].pulls = {}
    BY DEF IInv, PullInv, StopOrder, PullsHeld, StopLabels
  <2> QED
    BY <2>1 DEF IInv, PullInv, PullPlaced, Waiting, InHands, Answered
<1> QED
  BY <1>1, Inductive, PTL

(* An unsaved editor buffer is never replaced in the index by what is on   *)
(* the disk, and never outlives its editor, whatever file events, polls    *)
(* and scans interleave with the edits.                                    *)
THEOREM BuffersWin == Spec => []OpenBufferWins
<1>1. IInv => OpenBufferWins
  <2> SUFFICES ASSUME IInv, NEW u \in Uris \ Outside
               PROVE  \/ job["main"].op \in {"open", "change", "close"}
                            /\ job["main"].uri = u
                      \/ buffers[u] = Absent /\ ~docs[u].buffer
                      \/ buffers[u] # Absent
                            /\ docs[u] = [text |-> buffers[u], buffer |-> TRUE]
    BY DEF OpenBufferWins
  <2> QED
    BY DEF IInv, BuffersAgree, Agree, Coming
<1> QED
  BY <1>1, Inductive, PTL
=============================================================================
