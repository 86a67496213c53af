------------------------ MODULE DiagnosticCoordinator ------------------------
(***************************************************************************)
(* The scheduler of diagnostics (src/src/lsp/diagnostic_coordinator.cpp)   *)
(* with the three threads that call it, the part of the workspace index    *)
(* they share, and the contract of the engine bridge it drives.            *)
(*                                                                         *)
(*   main    the message loop of main.cpp: one client message at a time;   *)
(*   worker  DiagnosticCoordinatorImpl::run: publishes, polls the disk;    *)
(*   bridge  EngineBridge::run and the callbacks it makes.                 *)
(*                                                                         *)
(* A step is one critical section (of the coordinator, the bridge or the   *)
(* workspace), or one read of the disk: what lies between two steps of a   *)
(* thread is what other threads may overtake.                              *)
(*                                                                         *)
(* A text is a number drawn from a clock, so no two edits or disk writes   *)
(* produce the same text; 0 is a missing file.  A file stamp (modification *)
(* time and size) stands for the text that is on the disk.                 *)
(***************************************************************************)
EXTENDS Naturals

CONSTANTS
    Uris,          \* documents
    Outside,       \* those outside the root: update_document refuses them, the
                   \* poll does not see them, refresh_file indexes them
    Reads,         \* Reads[u]: the documents u's standalone diagnostics look at
    Faulty,        \* texts with a problem; 0 \in Faulty: a missing file is one
    PullIds,       \* ids of diagnostic requests
    Traffic,       \* the kinds of events the environment produces
    CanConnect,    \* an engine is configured and may accept the bridge
    MaxText,       \* bound: edits and disk writes
    MaxMessages,   \* bound: client messages other than pulls
    MaxStates,     \* bound: state changes of the bridge
    None

Kinds == {"disk", "poll", "open", "close", "watch", "save", "reconnect",
          "pull", "cancel", "shutdown"}

ASSUME ReadsAssumption ==
    /\ Reads \in [Uris -> SUBSET Uris]
    /\ \A u \in Uris : /\ u \in Reads[u]
                       /\ \A v \in Reads[u] : Reads[v] \subseteq Reads[u]
ASSUME BoundsAssumption ==
    /\ MaxText \in Nat /\ MaxMessages \in Nat /\ MaxStates \in Nat
    /\ Faulty \subseteq Nat /\ CanConnect \in BOOLEAN
    /\ Outside \subseteq Uris /\ Traffic \subseteq Kinds
ASSUME NoneAssumption ==
    /\ None \notin Uris
    /\ None \notin [items : SUBSET ({"standalone", "engine"} \X Nat), version : Nat]
    /\ None \notin [text : Nat, rev : Nat, open : BOOLEAN, queued : BOOLEAN]

VARIABLES
    disk, docs, clock,                              \* workspace and its files
    sent, asked, replies, published,                \* what the client did, saw
    buffers,                                        \* main.cpp: open editors
    generation, dirty, background, open, snapshots, \* DiagnosticCoordinatorImpl
    pulls, stamps, polling, stopping,
    ready, epoch, session, bdocs, states,           \* EngineBridge
    pc, job                                         \* the three threads

files == <<disk, docs, clock>>
client == <<sent, asked, replies, published>>
queues == <<generation, dirty, background>>
coordinator == <<queues, open, snapshots, pulls, stamps, polling, stopping>>
bridge == <<ready, epoch, session, bdocs, states>>
vars == <<files, client, buffers, coordinator, bridge, pc, job>>

-----------------------------------------------------------------------------
(* Texts, diagnostics and dependents.                                      *)

Absent == 0
Texts == Nat
Items == SUBSET ({"standalone", "engine"} \X Texts)
Documents == [text : Texts, buffer : BOOLEAN]
OnDisk(t) == [text |-> t, buffer |-> FALSE]
Version(u) == IF docs[u].buffer THEN docs[u].text ELSE Absent

(* Workspace::diagnostics: what is wrong in u given every document it      *)
(* looks at; nothing for a document that is not indexed.                   *)
Standalone(d, u) ==
    IF d[u].text = Absent THEN {}
    ELSE {"standalone"} \X (Faulty \cap {d[v].text : v \in Reads[u]})

(* What the Godot editor reports for one text.                             *)
EngineItems(t) == {"engine"} \X (Faulty \cap {t})

(* Mutant: the dependents are not followed.                                *)
AffectedDirect(d, S) == S

(* affected_documents: the changed documents and the indexed documents     *)
(* that depend on one of them (Reads is transitive).                       *)
Affected(d, S) ==
    S \cup {u \in Uris : d[u].text # Absent /\ Reads[u] \cap S # {}}

DocumentUris == {u \in Uris : docs[u].text # Absent}

(* file_stamps walks the workspace root.                                   *)
FileStamps == [u \in Uris |-> IF u \in Outside THEN Absent ELSE disk[u]]

-----------------------------------------------------------------------------
(* Threads.                                                                *)

Threads == {"main", "worker", "bridge"}
Updates == {"open", "change", "close", "watch", "poll"}

(* The local variables of whatever a thread is running.                    *)
NoJob == [op |-> "none", uri |-> None, gen |-> 0, force |-> FALSE,
          notify |-> FALSE, text |-> Absent, items |-> {}, engine |-> FALSE,
          version |-> Absent, uris |-> {}, todo |-> {}, scope |-> {},
          stamps |-> [u \in Uris |-> Absent], pulls |-> {}]

Goto(t, label) == pc' = [pc EXCEPT ![t] = label] /\ UNCHANGED job
Become(t, label, j) == /\ pc' = [pc EXCEPT ![t] = label]
                       /\ job' = [job EXCEPT ![t] = j]
Return(t) == Become(t, "idle", NoJob)

MainReady == pc["main"] = "idle" /\ ~stopping
Message(kind) ==
    /\ kind \in Traffic /\ MainReady /\ sent < MaxMessages
    /\ sent' = sent + 1

-----------------------------------------------------------------------------
(* The bridge's methods, called with the coordinator's mutex held or not.  *)

BridgeStopping == pc["main"] \in {"join", "drain", "exited"}
Requeued == [u \in Uris |-> IF bdocs[u] = None THEN None
                            ELSE [bdocs[u] EXCEPT !.queued = TRUE]]

(* Mutant: a document of the same revision counts as unchanged.            *)
SubmitByRevision(u, t) ==
    bdocs' = IF ~CanConnect \/ BridgeStopping THEN bdocs
             ELSE IF bdocs[u] # None /\ bdocs[u].rev = generation THEN bdocs
             ELSE [bdocs EXCEPT ![u] = [text |-> t, rev |-> generation,
                                        open |-> u \in open, queued |-> TRUE]]

(* EngineBridge::submit: nothing new, nothing queued.                      *)
SubmitDocument(u, t) ==
    LET entry == [text |-> t, rev |-> generation, open |-> u \in open,
                  queued |-> TRUE]
        same == /\ bdocs[u] # None
                /\ [bdocs[u] EXCEPT !.queued = TRUE] = entry
    IN  bdocs' = IF ~CanConnect \/ BridgeStopping \/ same THEN bdocs
                 ELSE [bdocs EXCEPT ![u] = entry]

ForgetDocument(u) == bdocs' = [bdocs EXCEPT ![u] = None]

(* EngineBridge::saved: a held document is sent again.                     *)
SavedDocument(u) ==
    bdocs' = IF bdocs[u] = None \/ ~CanConnect THEN bdocs
             ELSE [bdocs EXCEPT ![u].queued = TRUE]

-----------------------------------------------------------------------------
(* The file system, outside the program.                                   *)

(* A file is written or removed by another program.                        *)
DiskWrite(u) ==
    /\ "disk" \in Traffic /\ clock < MaxText
    /\ clock' = clock + 1
    /\ \E t \in {Absent, clock + 1} :
          t # disk[u] /\ disk' = [disk EXCEPT ![u] = t]
    /\ UNCHANGED <<docs, client, buffers, coordinator, bridge, pc, job>>

(* The editor saves: its buffer becomes the file.  didSave comes later, and *)
(* the poll may see the file before.                                       *)
WriteBuffer(u) ==
    /\ "save" \in Traffic /\ buffers[u] \notin {Absent, disk[u]}
    /\ disk' = [disk EXCEPT ![u] = buffers[u]]
    /\ UNCHANGED <<clock, docs, client, buffers, coordinator, bridge, pc, job>>

-----------------------------------------------------------------------------
(* Updates: an edit, a close, a batch of file events, a poll that found    *)
(* changes.  begin_update, the change of the index, finish_update.         *)

(* Mutant: the urgent queue is emptied before it is carried over.          *)
BeginUpdateSwapped ==
    /\ generation' = generation + 1
    /\ dirty' = {}
    /\ background' = background \cup dirty'

BeginUpdate ==
    /\ generation' = generation + 1
    /\ background' = background \cup dirty
    /\ dirty' = {}

(* textDocument/didOpen up to set_open.                                    *)
DidOpen(u) ==
    /\ Message("open") /\ buffers[u] = Absent /\ clock < MaxText
    /\ clock' = clock + 1
    /\ buffers' = [buffers EXCEPT ![u] = clock + 1]
    /\ open' = open \cup {u}
    /\ Become("main", "begin", [NoJob EXCEPT !.op = "open", !.uri = u,
                                  !.uris = {u}, !.text = clock + 1])
    /\ UNCHANGED <<disk, docs, asked, replies, published, queues, snapshots,
                   pulls, stamps, polling, stopping, bridge>>

(* textDocument/didChange up to begin_update.                              *)
DidChange(u) ==
    /\ Message("open") /\ buffers[u] # Absent /\ clock < MaxText
    /\ clock' = clock + 1
    /\ buffers' = [buffers EXCEPT ![u] = clock + 1]
    /\ BeginUpdate
    /\ Become("main", "apply", [NoJob EXCEPT !.op = "change", !.uri = u,
                                  !.uris = {u}, !.text = clock + 1])
    /\ UNCHANGED <<disk, docs, asked, replies, published, open, snapshots,
                   pulls, stamps, polling, stopping, bridge>>

(* textDocument/didClose up to set_open.                                   *)
DidClose(u) ==
    /\ Message("close") /\ buffers[u] # Absent
    /\ buffers' = [buffers EXCEPT ![u] = Absent]
    /\ open' = open \ {u}
    /\ Become("main", "begin",
              [NoJob EXCEPT !.op = "close", !.uri = u, !.uris = {u}])
    /\ UNCHANGED <<files, asked, replies, published, queues, snapshots, pulls,
                   stamps, polling, stopping, bridge>>

(* workspace/didChangeWatchedFiles up to begin_update: the files the       *)
(* client has open are dropped from the batch.                             *)
DidChangeWatchedFiles(S) ==
    /\ Message("watch") /\ S # {}
    /\ BeginUpdate
    /\ LET changed == {u \in S : buffers[u] = Absent} IN
       Become("main", "before", [NoJob EXCEPT !.op = "watch",
                                   !.uris = changed, !.todo = changed])
    /\ UNCHANGED <<files, asked, replies, published, buffers, open, snapshots,
                   pulls, stamps, polling, stopping, bridge>>

Begin(t) ==
    /\ pc[t] = "begin"
    /\ BeginUpdate
    /\ Goto(t, IF job[t].op = "open" THEN "apply" ELSE "before")
    /\ UNCHANGED <<files, client, buffers, open, snapshots, pulls, stamps,
                   polling, stopping, bridge>>

(* The dependents before the change.                                       *)
Before(t) ==
    /\ pc[t] = "before"
    /\ Become(t, "apply",
              [job[t] EXCEPT !.scope = Affected(docs, job[t].uris)])
    /\ UNCHANGED <<files, client, buffers, coordinator, bridge>>

(* Workspace::update_document, the dependents before and after included;   *)
(* a document outside the workspace is refused.                            *)
UpdateDocument ==
    LET j == job["main"]
        new == [docs EXCEPT ![j.uri] = [text |-> j.text, buffer |-> TRUE]]
    IN  /\ pc["main"] = "apply" /\ j.op \in {"open", "change"}
        /\ \/ /\ j.uri \notin Outside
              /\ docs' = new
              /\ Become("main", "finish", [j EXCEPT !.scope =
                     Affected(docs, {j.uri}) \cup Affected(new, {j.uri})])
           \/ /\ j.uri \in Outside
              /\ UNCHANGED docs
              /\ IF j.op = "open" THEN Goto("main", "reject")
                                  ELSE Return("main")
        /\ UNCHANGED <<disk, clock, client, buffers, coordinator, bridge>>

(* The else branch of didOpen: set_open(uri, false).                       *)
RejectOpen ==
    /\ pc["main"] = "reject"
    /\ open' = open \ {job["main"].uri}
    /\ Return("main")
    /\ UNCHANGED <<files, client, buffers, queues, snapshots, pulls, stamps,
                   polling, stopping, bridge>>

(* Workspace::close_document: back to the file, or out of the index; there *)
(* is nothing to close when the document is not indexed.                   *)
CloseDocument ==
    LET j == job["main"] IN
    /\ pc["main"] = "apply" /\ j.op = "close"
    /\ IF docs[j.uri].text = Absent
       THEN UNCHANGED docs /\ Return("main")
       ELSE /\ docs' = [docs EXCEPT ![j.uri] = OnDisk(disk[j.uri])]
            /\ Goto("main", "after")
    /\ UNCHANGED <<disk, clock, client, buffers, coordinator, bridge>>

(* Mutant: no check for a buffer the index already holds.                  *)
RefreshAnyFile(t) ==
    /\ pc[t] = "apply" /\ job[t].op \in {"watch", "poll"}
    /\ \E u \in job[t].todo :
          /\ docs' = [docs EXCEPT ![u] = OnDisk(disk[u])]
          /\ job' = [job EXCEPT ![t].todo = @ \ {u}]
    /\ UNCHANGED <<disk, clock, client, buffers, coordinator, bridge, pc>>

(* Workspace::refresh_file, once per changed file: an editor buffer that   *)
(* the index already holds is kept.  It does not ask for the root, so the  *)
(* client's file events bring documents from outside into the index.       *)
RefreshFile(t) ==
    /\ pc[t] = "apply" /\ job[t].op \in {"watch", "poll"}
    /\ \E u \in job[t].todo :
          /\ docs' = IF docs[u].buffer THEN docs
                     ELSE [docs EXCEPT ![u] = OnDisk(disk[u])]
          /\ job' = [job EXCEPT ![t].todo = @ \ {u}]
    /\ UNCHANGED <<disk, clock, client, buffers, coordinator, bridge, pc>>

(* The dependents after the change.                                        *)
After(t) ==
    /\ \/ pc[t] = "after"
       \/ pc[t] = "apply" /\ job[t].op \in {"watch", "poll"} /\ job[t].todo = {}
    /\ Become(t, "finish", [job[t] EXCEPT !.scope =
                              @ \cup Affected(docs, job[t].uris)])
    /\ UNCHANGED <<files, client, buffers, coordinator, bridge>>

(* finish_update: what was edited goes first, the dependents after.        *)
Finish(t) ==
    LET j == job[t]
        immediate == IF j.op \in {"watch", "poll"} THEN {} ELSE j.uris
    IN  /\ pc[t] = "finish"
        /\ IF stopping THEN UNCHANGED <<dirty, background>>
           ELSE /\ dirty' = dirty \cup immediate
                /\ background' = (background \ immediate) \cup (j.scope \ dirty')
        /\ Return(t)
        /\ UNCHANGED <<files, client, buffers, generation, open, snapshots,
                       pulls, stamps, polling, stopping, bridge>>

-----------------------------------------------------------------------------
(* schedule_full: every indexed document is checked again.  It serves      *)
(* initialized, didSave, reconnect and every state change of the bridge.   *)

(* textDocument/didSave up to the bridge's saved().                        *)
DidSave(u) ==
    /\ Message("save")
    /\ SavedDocument(u)
    /\ Become("main", "stamps", [NoJob EXCEPT !.op = "scan"])
    /\ UNCHANGED <<files, asked, replies, published, buffers, coordinator,
                   ready, epoch, session, states>>

(* gdscript/reconnectDiagnosticEngine: authority is withdrawn at once.     *)
Reconnect ==
    /\ Message("reconnect")
    /\ epoch' = epoch + 1 /\ ready' = FALSE /\ bdocs' = Requeued
    /\ Become("main", "stamps", [NoJob EXCEPT !.op = "scan"])
    /\ UNCHANGED <<files, asked, replies, published, buffers, coordinator,
                   session, states>>

ScanStamps(t) ==
    /\ pc[t] = "stamps"
    /\ Become(t, "uris", [job[t] EXCEPT !.stamps = FileStamps])
    /\ UNCHANGED <<files, client, buffers, coordinator, bridge>>

ScanUris(t) ==
    /\ pc[t] = "uris"
    /\ Become(t, "scanlock", [job[t] EXCEPT !.uris = DocumentUris])
    /\ UNCHANGED <<files, client, buffers, coordinator, bridge>>

ScheduleFull(t) ==
    /\ pc[t] = "scanlock"
    /\ generation' = generation + 1
    /\ dirty' = {}
    /\ background' = job[t].uris
    /\ stamps' = job[t].stamps
    /\ polling' = TRUE
    /\ IF t = "bridge" THEN Become(t, "notice", NoJob) ELSE Return(t)
    /\ UNCHANGED <<files, client, buffers, open, snapshots, pulls, stopping,
                   bridge>>

(* Mutants: every request is taken up, answered or not; none is.           *)
NoticeAll ==
    /\ pc["bridge"] = "notice"
    /\ dirty' = IF stopping THEN dirty ELSE dirty \cup {asked[p] : p \in PullIds}
    /\ Return("bridge")
    /\ UNCHANGED <<files, client, buffers, generation, background, open,
                   snapshots, pulls, stamps, polling, stopping, bridge>>
NoticeNone ==
    /\ pc["bridge"] = "notice"
    /\ Return("bridge")
    /\ UNCHANGED <<files, client, buffers, coordinator, bridge>>

(* The end of engine_state: pulls still waiting are taken up again.        *)
EngineNotice ==
    /\ pc["bridge"] = "notice"
    /\ dirty' = IF stopping THEN dirty ELSE dirty \cup {asked[p] : p \in pulls}
    /\ Return("bridge")
    /\ UNCHANGED <<files, client, buffers, generation, background, open,
                   snapshots, pulls, stamps, polling, stopping, bridge>>

-----------------------------------------------------------------------------
(* The disk poll: refresh_external_files.                                  *)

PickPoll ==
    /\ pc["worker"] = "idle" /\ ~stopping
    /\ "poll" \in Traffic /\ polling /\ dirty = {}
    /\ Become("worker", "poll", [NoJob EXCEPT !.op = "poll"])
    /\ UNCHANGED <<files, client, buffers, coordinator, bridge>>

PollScan ==
    /\ pc["worker"] = "poll"
    /\ Become("worker", "polllock", [job["worker"] EXCEPT !.stamps = FileStamps])
    /\ UNCHANGED <<files, client, buffers, coordinator, bridge>>

(* Mutant: files that had no stamp are not compared.                       *)
PollKnownFiles ==
    LET seen == job["worker"].stamps
        changed == {u \in Uris : stamps[u] \notin {Absent, seen[u]}} \ open
    IN  /\ pc["worker"] = "polllock"
        /\ stamps' = seen
        /\ IF changed = {} THEN Return("worker")
           ELSE Become("worker", "begin", [NoJob EXCEPT !.op = "poll",
                                             !.uris = changed, !.todo = changed])
        /\ UNCHANGED <<files, client, buffers, queues, open, snapshots, pulls,
                       polling, stopping, bridge>>

(* The stamps are exchanged and compared, the open files left out.         *)
PollLock ==
    LET seen == job["worker"].stamps
        changed == {u \in Uris : seen[u] # stamps[u]} \ open
    IN  /\ pc["worker"] = "polllock"
        /\ stamps' = seen
        /\ IF changed = {} THEN Return("worker")
           ELSE Become("worker", "begin", [NoJob EXCEPT !.op = "poll",
                                             !.uris = changed, !.todo = changed])
        /\ UNCHANGED <<files, client, buffers, queues, open, snapshots, pulls,
                       polling, stopping, bridge>>

-----------------------------------------------------------------------------
(* Publishing one document: the worker's choice, then publish and accept.  *)

PickDirty ==
    /\ pc["worker"] = "idle" /\ ~stopping
    /\ \E u \in dirty :
          /\ dirty' = dirty \ {u}
          /\ Become("worker", "source", [NoJob EXCEPT !.op = "publish",
                !.uri = u, !.gen = generation, !.force = TRUE, !.notify = TRUE])
    /\ UNCHANGED <<files, client, buffers, generation, background, open,
                   snapshots, pulls, stamps, polling, stopping, bridge>>

PickBackground ==
    /\ pc["worker"] = "idle" /\ ~stopping /\ dirty = {}
    /\ \E u \in background :
          /\ background' = background \ {u}
          /\ Become("worker", "source", [NoJob EXCEPT !.op = "publish",
                !.uri = u, !.gen = generation, !.notify = TRUE])
    /\ UNCHANGED <<files, client, buffers, generation, dirty, open, snapshots,
                   pulls, stamps, polling, stopping, bridge>>

(* Mutant: the work is dropped.                                            *)
GiveUpForgets(t) == UNCHANGED <<dirty, background>> /\ Return(t)

(* A thread whose work is out of date hands the document back and gives up.*)
GiveUp(t) ==
    /\ background' = IF stopping THEN background
                     ELSE background \cup {job[t].uri}
    /\ UNCHANGED dirty
    /\ Return(t)
OutOfDate(t) == stopping \/ job[t].gen # generation

(* The first check of publish, and document_text.                          *)
ReadSource(t) ==
    /\ pc[t] = "source"
    /\ IF OutOfDate(t) THEN GiveUp(t)
       ELSE /\ Become(t, "submit", [job[t] EXCEPT !.text = docs[job[t].uri].text])
            /\ UNCHANGED <<dirty, background>>
    /\ UNCHANGED <<files, client, buffers, generation, open, snapshots, pulls,
                   stamps, polling, stopping, bridge>>

(* The second check, with submit or forget under the same lock.            *)
Submit(t) ==
    LET j == job[t] IN
    /\ pc[t] = "submit"
    /\ IF OutOfDate(t) THEN GiveUp(t) /\ UNCHANGED bdocs
       ELSE /\ IF j.text # Absent THEN SubmitDocument(j.uri, j.text)
               ELSE ForgetDocument(j.uri)
            /\ Goto(t, "compute")
            /\ UNCHANGED <<dirty, background>>
    /\ UNCHANGED <<files, client, buffers, generation, open, snapshots, pulls,
                   stamps, polling, stopping, ready, epoch, session, states>>

(* A ready engine will answer; otherwise the diagnostics are computed.     *)
Compute(t) ==
    LET j == job[t] IN
    /\ pc[t] = "compute"
    /\ IF j.text # Absent /\ ready THEN Return(t)
       ELSE Become(t, "version", [j EXCEPT !.items = Standalone(docs, j.uri)])
    /\ UNCHANGED <<files, client, buffers, coordinator, bridge>>

(* document_version, and the authority the result will claim.              *)
ReadVersion(t) ==
    LET j == job[t] IN
    /\ pc[t] = "version"
    /\ Become(t, "accept", [j EXCEPT !.version = Version(j.uri),
                !.engine = IF t = "bridge" THEN TRUE
                           ELSE j.text = Absent /\ ready])
    /\ UNCHANGED <<files, client, buffers, coordinator, bridge>>

(* A result from the wrong authority, or of another generation.            *)
Refuse(t) ==
    LET j == job[t] IN
    /\ IF ~j.engine /\ ready /\ ~stopping
       THEN dirty' = dirty \cup {j.uri} /\ UNCHANGED background /\ Return(t)
       ELSE GiveUp(t)
    /\ UNCHANGED <<snapshots, pulls, replies, published>>

(* The result is cached, answers the pulls for the document, and is sent   *)
(* to the client when it is forced or is news.                             *)
Deliver(t) ==
    LET j == job[t]
        answered == {p \in pulls : asked[p] = j.uri}
        news == IF published[j.uri] = None THEN j.items # {}
                ELSE published[j.uri].items # j.items
    IN  /\ snapshots' = [snapshots EXCEPT ![j.uri] =
                           [gen |-> generation, engine |-> j.engine]]
        /\ replies' = [p \in PullIds |->
                         replies[p] + (IF p \in answered THEN 1 ELSE 0)]
        /\ pulls' = pulls \ answered
        /\ published' = IF j.notify /\ (j.force \/ news)
                        THEN [published EXCEPT ![j.uri] =
                                [items |-> j.items, version |-> j.version]]
                        ELSE published
        /\ Return(t)
        /\ UNCHANGED <<dirty, background>>

Accept(t) ==
    /\ pc[t] = "accept"
    /\ IF OutOfDate(t) \/ job[t].engine # ready THEN Refuse(t) ELSE Deliver(t)
    /\ UNCHANGED <<files, sent, asked, buffers, generation, open, stamps,
                   polling, stopping, bridge>>

-----------------------------------------------------------------------------
(* Requests: pull, cancel, shutdown.                                       *)

(* The first statement of pull: is the engine in charge?                   *)
PullReceived(p, u) ==
    /\ "pull" \in Traffic /\ MainReady /\ asked[p] = None
    /\ asked' = [asked EXCEPT ![p] = u]
    /\ Become("main", "pull", [NoJob EXCEPT !.op = "publish", !.uri = u,
                                 !.engine = ready, !.pulls = {p}])
    /\ UNCHANGED <<files, sent, replies, published, buffers, coordinator,
                   bridge>>

(* The critical section of pull: answered from the cache, or registered    *)
(* for the worker, or registered and published by this very thread.        *)
PullRegister ==
    LET j == job["main"]
        hit == snapshots[j.uri] = [gen |-> generation, engine |-> ready]
    IN  /\ pc["main"] = "pull"
        /\ \/ /\ hit
              /\ replies' = [p \in PullIds |->
                               replies[p] + (IF p \in j.pulls THEN 1 ELSE 0)]
              /\ Return("main")
              /\ UNCHANGED <<pulls, dirty>>
           \/ /\ ~hit
              /\ pulls' = pulls \cup j.pulls
              /\ IF j.engine
                 THEN dirty' = dirty \cup {j.uri} /\ Return("main")
                 ELSE /\ UNCHANGED dirty
                      /\ Become("main", "source", [NoJob EXCEPT
                           !.op = "publish", !.uri = j.uri, !.gen = generation])
              /\ UNCHANGED replies
        /\ UNCHANGED <<files, sent, asked, published, buffers, generation,
                       background, open, snapshots, stamps, polling, stopping,
                       bridge>>

(* Mutant: the error reply does not ask whether the pull is registered.    *)
CancelAnyPull(p) ==
    /\ Message("cancel") /\ asked[p] # None
    /\ pulls' = pulls \ {p}
    /\ replies' = [replies EXCEPT ![p] = @ + 1]
    /\ UNCHANGED <<files, asked, published, buffers, queues, open, snapshots,
                   stamps, polling, stopping, bridge, pc, job>>

(* $/cancelRequest: an error reply, if the pull is still registered.       *)
CancelPull(p) ==
    /\ Message("cancel") /\ asked[p] # None
    /\ pulls' = pulls \ {p}
    /\ replies' = [replies EXCEPT ![p] = @ + (IF p \in pulls THEN 1 ELSE 0)]
    /\ UNCHANGED <<files, asked, published, buffers, queues, open, snapshots,
                   stamps, polling, stopping, bridge, pc, job>>

(* Mutant: the pulls are cleared before they are taken.                    *)
StopClearsPulls ==
    /\ "shutdown" \in Traffic /\ MainReady
    /\ stopping' = TRUE /\ generation' = generation + 1
    /\ dirty' = {} /\ background' = {} /\ pulls' = {}
    /\ Become("main", "stopbridge", [NoJob EXCEPT !.op = "stop", !.pulls = pulls'])
    /\ UNCHANGED <<files, client, buffers, open, snapshots, stamps, polling,
                   bridge>>

(* request_stop: the critical section that empties the coordinator.        *)
RequestStop ==
    /\ "shutdown" \in Traffic /\ MainReady
    /\ stopping' = TRUE /\ generation' = generation + 1
    /\ dirty' = {} /\ background' = {}
    /\ pulls' = {}
    /\ Become("main", "stopbridge", [NoJob EXCEPT !.op = "stop", !.pulls = pulls])
    /\ UNCHANGED <<files, client, buffers, open, snapshots, stamps, polling,
                   bridge>>

(* EngineBridge::stop, then the join.                                      *)
StopBridge ==
    /\ pc["main"] = "stopbridge"
    /\ epoch' = epoch + 1
    /\ Goto("main", "join")
    /\ UNCHANGED <<files, client, buffers, coordinator, ready, session, bdocs,
                   states>>
JoinBridge ==
    /\ pc["main"] = "join" /\ pc["bridge"] = "exited"
    /\ Goto("main", "drain")
    /\ UNCHANGED <<files, client, buffers, coordinator, bridge>>

(* The pulls taken at the stop are answered, then shutdown is.             *)
AnswerPending ==
    /\ pc["main"] = "drain"
    /\ replies' = [p \in PullIds |->
                     replies[p] + (IF p \in job["main"].pulls THEN 1 ELSE 0)]
    /\ Become("main", "exited", NoJob)
    /\ UNCHANGED <<files, sent, asked, published, buffers, coordinator, bridge>>

WorkerExit ==
    /\ pc["worker"] = "idle" /\ stopping
    /\ Goto("worker", "exited")
    /\ UNCHANGED <<files, client, buffers, coordinator, bridge>>

-----------------------------------------------------------------------------
(* The bridge's thread, as its callers may rely on it.                     *)

(* set_state: the engine is reached, or is not (off, connecting, fallback).*)
(* A connection starts with every held document queued.                    *)
BridgeState ==
    /\ pc["bridge"] \in {"idle", "busy"} /\ ~BridgeStopping
    /\ states < MaxStates /\ states' = states + 1
    /\ \/ /\ CanConnect /\ session = 0 /\ pc["bridge"] = "idle"
          /\ ready' = TRUE /\ session' = epoch /\ bdocs' = Requeued
       \/ /\ session \in {0, epoch}
          /\ ready' = FALSE /\ session' = 0 /\ UNCHANGED bdocs
    /\ Become("bridge", "stamps", [NoJob EXCEPT !.op = "scan"])
    /\ UNCHANGED <<files, client, buffers, coordinator, epoch>>

(* A connection of an older epoch is dropped without a callback.           *)
BridgeDrop ==
    /\ pc["bridge"] \in {"idle", "busy"} /\ session \notin {0, epoch}
    /\ session' = 0
    /\ Return("bridge")
    /\ UNCHANGED <<files, client, buffers, coordinator, ready, epoch, bdocs,
                   states>>

(* A queued document is sent to the engine.                                *)
BridgeTake(u) ==
    /\ pc["bridge"] = "idle" /\ session # 0 /\ session = epoch
    /\ bdocs[u] # None /\ bdocs[u].queued
    /\ bdocs' = [bdocs EXCEPT ![u].queued = FALSE]
    /\ Become("bridge", "busy", [NoJob EXCEPT !.op = "publish", !.uri = u,
           !.gen = bdocs[u].rev, !.text = bdocs[u].text, !.notify = TRUE])
    /\ UNCHANGED <<files, client, buffers, coordinator, ready, epoch, session,
                   states>>

(* The engine's report arrives; it is passed on if the document still has  *)
(* the revision it was sent with.                                          *)
BridgeDone ==
    LET j == job["bridge"]
        current == /\ session = epoch /\ bdocs[j.uri] # None
                   /\ bdocs[j.uri].rev = j.gen
    IN  /\ pc["bridge"] = "busy"
        /\ IF current
           THEN Become("bridge", "version", [j EXCEPT !.items = EngineItems(j.text)])
           ELSE Return("bridge")
        /\ UNCHANGED <<files, client, buffers, coordinator, bridge>>

BridgeExit ==
    /\ pc["bridge"] \in {"idle", "busy"} /\ BridgeStopping
    /\ Become("bridge", "exited", NoJob)
    /\ UNCHANGED <<files, client, buffers, coordinator, bridge>>

-----------------------------------------------------------------------------
(* Init is the state after initialize, with the message initialized        *)
(* received: the index was read from the root, the bridge is configured,   *)
(* and the main thread is in its schedule_full.                            *)

Init ==
    /\ disk \in [Uris -> {Absent, 1}]
    /\ docs = [u \in Uris |-> OnDisk(FileStamps[u])]
    /\ clock = 1 /\ sent = 0
    /\ asked = [p \in PullIds |-> None] /\ replies = [p \in PullIds |-> 0]
    /\ published = [u \in Uris |-> None]
    /\ buffers = [u \in Uris |-> Absent]
    /\ generation = 0 /\ dirty = {} /\ background = {} /\ open = {}
    /\ snapshots = [u \in Uris |-> None] /\ pulls = {}
    /\ stamps = [u \in Uris |-> Absent] /\ polling = FALSE /\ stopping = FALSE
    /\ ready = FALSE /\ epoch = 1 /\ session = 0 /\ states = 0
    /\ bdocs = [u \in Uris |-> None]
    /\ pc = [t \in Threads |-> IF t = "main" THEN "stamps" ELSE "idle"]
    /\ job = [t \in Threads |-> IF t = "main" THEN [NoJob EXCEPT !.op = "scan"]
                                ELSE NoJob]

Client ==
    \/ \E u \in Uris : DidOpen(u) \/ DidChange(u) \/ DidClose(u) \/ DidSave(u)
    \/ \E S \in SUBSET Uris : DidChangeWatchedFiles(S)
    \/ Reconnect \/ RequestStop
    \/ \E p \in PullIds : CancelPull(p) \/ \E u \in Uris : PullReceived(p, u)

(* A step of thread t through a function that several threads run.         *)
Step(t) ==
    \/ Begin(t) \/ Before(t) \/ RefreshFile(t) \/ After(t) \/ Finish(t)
    \/ ScanStamps(t) \/ ScanUris(t) \/ ScheduleFull(t)
    \/ ReadSource(t) \/ Submit(t) \/ Compute(t) \/ ReadVersion(t) \/ Accept(t)

MainStep ==
    \/ UpdateDocument \/ RejectOpen \/ CloseDocument \/ PullRegister
    \/ StopBridge \/ JoinBridge \/ AnswerPending
WorkerStep == PickDirty \/ PollScan \/ PollLock \/ WorkerExit
BridgeStep ==
    EngineNotice \/ BridgeDrop \/ BridgeDone \/ BridgeExit
      \/ \E u \in Uris : BridgeTake(u)

(* After the shutdown nothing is left to do.                               *)
Exited == (\A t \in Threads : pc[t] = "exited") /\ UNCHANGED vars

Next ==
    \/ \E u \in Uris : DiskWrite(u) \/ WriteBuffer(u)
    \/ Client \/ MainStep \/ WorkerStep \/ PickPoll \/ PickBackground
    \/ BridgeStep \/ BridgeState \/ Exited
    \/ \E t \in Threads : Step(t)

Spec == Init /\ [][Next]_vars

(* A thread that can move does, the engine answers what it was sent (or    *)
(* times out), and polls, which take less than the poll interval, leave    *)
(* the worker time for the background queue.  Nothing is assumed of the    *)
(* client, of the disk, or of the engine's connections.                    *)
Fairness ==
    /\ WF_vars(MainStep \/ Step("main"))
    /\ WF_vars(WorkerStep \/ Step("worker"))
    /\ WF_vars(BridgeStep \/ Step("bridge"))
    /\ WF_vars(PickPoll) /\ SF_vars(PickBackground)

FairSpec == Spec /\ Fairness
-----------------------------------------------------------------------------
(* Properties.                                                             *)

Labels == {"idle", "begin", "before", "apply", "reject", "after", "finish",
           "stamps", "uris", "scanlock", "notice", "poll", "polllock",
           "source", "submit", "compute", "version", "accept", "pull",
           "stopbridge", "join", "drain", "busy", "exited"}
Ops == Updates \cup {"none", "scan", "publish", "stop"}
Jobs == [op : Ops, uri : Uris \cup {None}, gen : Nat, force : BOOLEAN,
         notify : BOOLEAN, text : Texts, items : Items, engine : BOOLEAN,
         version : Texts, uris : SUBSET Uris, todo : SUBSET Uris,
         scope : SUBSET Uris, stamps : [Uris -> Texts], pulls : SUBSET PullIds]
Reports == [items : Items, version : Texts]
Snapshots == [gen : Nat, engine : BOOLEAN]
Entries == [text : Texts, rev : Nat, open : BOOLEAN, queued : BOOLEAN]

(* The type of every variable.                                             *)
TypeOK ==
    /\ disk \in [Uris -> Texts] /\ docs \in [Uris -> Documents] /\ clock \in Nat
    /\ sent \in Nat /\ asked \in [PullIds -> Uris \cup {None}]
    /\ replies \in [PullIds -> Nat] /\ published \in [Uris -> Reports \cup {None}]
    /\ buffers \in [Uris -> Texts]
    /\ generation \in Nat /\ dirty \subseteq Uris /\ background \subseteq Uris
    /\ open \subseteq Uris /\ snapshots \in [Uris -> Snapshots \cup {None}]
    /\ pulls \subseteq PullIds /\ stamps \in [Uris -> Texts]
    /\ polling \in BOOLEAN /\ stopping \in BOOLEAN
    /\ ready \in BOOLEAN /\ epoch \in Nat /\ session \in Nat /\ states \in Nat
    /\ bdocs \in [Uris -> Entries \cup {None}]
    /\ pc \in [Threads -> Labels] /\ job \in [Threads -> Jobs]

(* An editor's buffer is what the index holds, whatever file events, polls *)
(* and scans come in between, except while the main thread is on its way   *)
(* to apply an edit or a close of this very document.                      *)
OpenBufferWins ==
    \A u \in Uris \ Outside :
        \/ job["main"].op \in {"open", "change", "close"} /\ job["main"].uri = u
        \/ buffers[u] = Absent /\ ~docs[u].buffer
        \/ buffers[u] # Absent
              /\ docs[u] = [text |-> buffers[u], buffer |-> TRUE]

(* No request is answered twice, by the cache, the worker, the bridge, a   *)
(* cancellation or the shutdown.                                           *)
ReplyOnce == \A p \in PullIds : replies[p] <= 1

(* When shutdown is answered, so is every request that came before it.     *)
ShutdownAnswersAll ==
    pc["main"] = "exited" => \A p \in PullIds : asked[p] # None => replies[p] = 1

(* What the diagnostics of u are now, and what the client believes.        *)
Current(u) == IF ready /\ docs[u].text # Absent THEN EngineItems(docs[u].text)
              ELSE Standalone(docs, u)
View(u) == IF published[u] = None THEN {} ELSE published[u].items

(* t will send the diagnostics of u to the client, or hand u back; for a   *)
(* pull alone it sends no notification.                                    *)
Publishing(t, u) ==
    /\ job[t].uri = u /\ job[t].notify
    /\ \/ pc[t] \in {"source", "submit", "version", "accept"}
       \/ pc[t] = "compute" /\ job[t].text = Absent
       \/ pc[t] = "compute" /\ ~ready /\ docs[u].text # Absent
(* An edit from outside the root, or a close of what is not indexed.       *)
Refused(t) ==
    \/ job[t].op \in {"open", "change"} /\ job[t].uri \in Outside
    \/ job[t].op = "close" /\ pc[t] = "apply" /\ docs[job[t].uri].text = Absent
(* t will schedule u when it finishes its update, unless that is refused.  *)
Updating(t, u) ==
    /\ ~Refused(t)
    /\ \/ pc[t] \in {"apply", "after", "finish"} /\ u \in job[t].scope
       \/ pc[t] \in {"apply", "after"} /\ u \in Affected(docs, job[t].uris)
(* t will schedule u when it finishes its full scan.                       *)
Scanning(t, u) ==
    \/ pc[t] \in {"stamps", "uris"} /\ docs[u].text # Absent
    \/ pc[t] = "scanlock" /\ u \in job[t].uris
(* The engine is to report on u's present text, and will be passed on.     *)
AtEngine(u) ==
    /\ ready /\ bdocs[u] # None
    /\ bdocs[u].text = docs[u].text /\ docs[u].text # Absent
    /\ \/ bdocs[u].queued
       \/ /\ pc["bridge"] = "busy" /\ job["bridge"].uri = u
          /\ bdocs[u].rev = job["bridge"].gen
InHand(u) ==
    \/ u \in dirty \cup background
    \/ \E t \in Threads : Publishing(t, u) \/ Updating(t, u) \/ Scanning(t, u)
    \/ AtEngine(u)

(* The client is wrong about u, and nobody is going to tell it.            *)
Lost(u) == ~stopping /\ View(u) # Current(u) /\ ~InHand(u)

(* The poll believes it has dealt with the file's present contents, and    *)
(* the index, with no refresh on the way, holds something else.            *)
Refreshing(u) ==
    \/ \E t \in Threads : u \in job[t].todo
    \/ pc["main"] \in {"begin", "before", "apply"} /\ job["main"].uri = u
Overlooked(u) ==
    /\ polling /\ u \notin Outside
    /\ ~docs[u].buffer /\ docs[u].text # disk[u] /\ stamps[u] = disk[u]
    /\ ~Refreshing(u)
Hidden(u) == Overlooked(u) /\ disk[u] # Absent

FullScan == \E t \in Threads : ScheduleFull(t)

(* No interleaving of edits, closes, file events, polls and publications   *)
(* loses an update of the client's view; only schedule_full may, which     *)
(* replaces the queues by a list of documents it read before.              *)
OnlyFullScanLoses ==
    [][\A u \in Uris : ~Lost(u) /\ Lost(u)' => FullScan]_vars

(* The same for documents that exist, in sessions whose files are written  *)
(* by the editor's saves alone, with the polls that see them: with an      *)
(* engine, the clearing of a removed document can be undone by a report    *)
(* that was on its way, and a request that began before the engine was     *)
(* ready can submit the text from before another program's change.         *)
OnlyFullScanLosesPresent ==
    [][\A u \in Uris : ~Lost(u) /\ Lost(u)' /\ docs'[u].text # Absent
                         => FullScan]_vars

(* No interleaving hides a file change from the next poll; only            *)
(* schedule_full may, which takes new stamps and refreshes nothing.        *)
OnlyFullScanHides ==
    [][\A u \in Uris : ~Hidden(u) /\ Hidden(u)' => FullScan]_vars

(* A report with a version is about the text of that version.              *)
AttributedToItsText ==
    \A u \in Uris :
        published[u] # None /\ published[u].version # Absent =>
            \A i \in published[u].items : i[1] = "engine"
                              => i[2] = published[u].version

(* The client is never left with a view that nobody will correct.          *)
NothingLost == \A u \in Uris : ~Lost(u)

(* Every diagnostic request is answered.                                   *)
PullAnswered ==
    \A p \in PullIds : asked[p] # None ~> replies[p] = 1

(* When edits stop and no full scan interferes, the client's view settles  *)
(* on the diagnostics of the documents as they are.                        *)
Settles == <>[](\A u \in Uris : stopping \/ View(u) = Current(u))
=============================================================================
