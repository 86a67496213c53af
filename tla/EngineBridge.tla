----------------------------- MODULE EngineBridge -----------------------------
(***************************************************************************)
(* The engine bridge (src/src/lsp/engine_bridge.cpp): the methods that the *)
(* coordinator calls from its threads, the worker that keeps a connection  *)
(* to a Godot editor and runs one diagnostic transaction at a time over    *)
(* it, and the editor, which answers in the order it is asked.             *)
(*                                                                         *)
(* A step is one critical section of the bridge, or one group of messages  *)
(* sent or received.  A text is a number from a clock, and the verdict of  *)
(* the editor on a text is that number: Empty is a report of no text.      *)
(*                                                                         *)
(* Time is left out: a queued document may be due at any moment (which     *)
(* makes the order by priority free), a wait may end at any moment, and a  *)
(* deadline may pass whenever the worker waits for the editor.             *)
(***************************************************************************)
EXTENDS Naturals, Sequences

CONSTANTS
    Uris,          \* documents
    Modes,         \* the modes that are configured, out of attach and launch
    Habits,        \* of the editor: "again" reports a text more than once,
                   \* "silent" may fail to report on a text
    MaxText,       \* bound: submitted texts
    MaxCalls,      \* bound: other calls of the coordinator
    MaxFaults,     \* bound: failures of the connection or the editor
    MaxExtra,      \* bound: unasked reports
    None

ASSUME BoundsAssumption ==
    /\ MaxText \in Nat /\ MaxCalls \in Nat /\ MaxFaults \in Nat /\ MaxExtra \in Nat
    /\ Modes \subseteq {"attach", "launch"} /\ Habits \subseteq {"again", "silent"}

Entries == [text : Nat, rev : Nat, open : BOOLEAN, queued : BOOLEAN,
            saved : BOOLEAN]

(* None is none of the values whose absence it stands for: documents,      *)
(* numbers, and what is held of a document and asked about it.             *)
ASSUME NoneAssumption ==
    /\ None \notin Uris /\ None \notin Nat /\ None \notin Entries
    /\ None \notin [text : Nat, rev : Nat, open : BOOLEAN, queued : BOOLEAN]
    /\ None \notin [uri : Uris, text : Nat, rev : Nat]

VARIABLES
    mode, reload, epoch, stopping, state, docs, saves,  \* under mutex_
    pc, session, opened, closing, doing, diagnostics,   \* locals of run
    request,
    toEngine, fromEngine, texts,                        \* connection, editor
    clock, revision, calls, faults, extra,              \* bounds
    reports                                             \* passed on

shared == <<mode, reload, epoch, stopping, state, docs, saves>>
local == <<pc, session, opened, closing, doing, diagnostics, request>>
network == <<toEngine, fromEngine, texts>>
bounds == <<clock, revision, calls, faults, extra>>
vars == <<shared, local, network, bounds, reports>>

Empty == 0
Verdicts == Nat
NoDocument == [uri |-> None, text |-> Empty, rev |-> 0, open |-> FALSE,
               saved |-> FALSE]
NoReports == [u \in Uris |-> None]
Message(kind, u, t) == [kind |-> kind, uri |-> u, text |-> t]

Requeued == [u \in Uris |-> IF docs[u] = None THEN None
                            ELSE [docs[u] EXCEPT !.queued = TRUE]]

(* cancelled(): the worker's connection is no longer wanted.               *)
Cancelled == stopping \/ epoch # session

-----------------------------------------------------------------------------
(* The methods, on the coordinator's threads.                              *)

Call == calls < MaxCalls /\ calls' = calls + 1

(* Mutant: the status is left to the worker.                               *)
WithdrawnLater(m) == state
Withdrawn(m) == IF m = "off" THEN "off" ELSE "connecting"

(* configure, when it does not return early: authority is withdrawn before *)
(* the worker has finished what it is doing.                               *)
Configure(m) ==
    /\ Call /\ ~stopping
    /\ mode' = m /\ reload' = FALSE /\ epoch' = epoch + 1
    /\ state' = Withdrawn(m)
    /\ docs' = IF m = "off" THEN [u \in Uris |-> None] ELSE Requeued
    /\ saves' = IF m = "off" THEN {} ELSE saves
    /\ UNCHANGED <<stopping, local, network, clock, revision, faults, extra,
                   reports>>

(* Mutant: a save that came before the document is forgotten.              *)
SavedBefore(u) == docs[u] # None /\ docs[u].saved
SaveMark(u) == u \in saves \/ (docs[u] # None /\ docs[u].saved)

(* submit, when there is something new: a new text, a new revision, or an  *)
(* editor opened or closed.  Two texts may share a revision.               *)
Submit(u) ==
    /\ clock < MaxText /\ mode # "off" /\ ~stopping
    /\ \E t \in {clock + 1} \cup (IF docs[u] = None THEN {} ELSE {docs[u].text}),
          r \in {revision, revision + 1}, o \in BOOLEAN :
          /\ ~ (docs[u] # None /\ docs[u].text = t /\ docs[u].rev = r
                               /\ docs[u].open = o)
          /\ docs' = [docs EXCEPT ![u] = [text |-> t, rev |-> r, open |-> o,
                        queued |-> TRUE, saved |-> SaveMark(u)]]
          /\ revision' = r
    /\ clock' = clock + 1
    /\ UNCHANGED <<mode, reload, epoch, stopping, state, saves, local, network,
                   calls, faults, extra, reports>>

Saved(u) ==
    /\ Call /\ mode # "off"
    /\ saves' = saves \cup {u}
    /\ docs' = IF docs[u] = None THEN docs
               ELSE [docs EXCEPT ![u].saved = TRUE, ![u].queued = TRUE]
    /\ UNCHANGED <<mode, reload, epoch, stopping, state, local, network, clock,
                   revision, faults, extra, reports>>

Forget(u) ==
    /\ Call
    /\ docs' = [docs EXCEPT ![u] = None] /\ saves' = saves \ {u}
    /\ UNCHANGED <<mode, reload, epoch, stopping, state, local, network, clock,
                   revision, faults, extra, reports>>

ProjectChanged ==
    /\ Call /\ mode # "off"
    /\ epoch' = epoch + 1 /\ reload' = (mode = "attach")
    /\ state' = IF reload' THEN "reload-required" ELSE "connecting"
    /\ UNCHANGED <<mode, stopping, docs, saves, local, network, clock, revision,
                   faults, extra, reports>>

(* stop, up to the join of the worker.                                     *)
Stop ==
    /\ ~stopping /\ stopping' = TRUE /\ epoch' = epoch + 1
    /\ UNCHANGED <<mode, reload, state, docs, saves, local, network, bounds,
                   reports>>

-----------------------------------------------------------------------------
(* The worker: run.                                                        *)

Goto(label) ==
    /\ pc' = label
    /\ UNCHANGED <<session, opened, closing, doing, diagnostics, request>>

(* Mutant: a worker of an older epoch may still set the status.            *)
SetStateAlways(s) == state' = s

(* set_state: ignored when the epoch has moved on.                         *)
SetState(s) == state' = IF epoch # session \/ stopping THEN state ELSE s

(* The wait at the head of the loop.                                       *)
Top ==
    /\ pc = "top"
    /\ stopping \/ epoch # session \/ (mode # "off" /\ ~reload)
    /\ IF stopping THEN Goto("exited")
       ELSE /\ session' = epoch
            /\ pc' = IF mode = "off" \/ reload THEN "unavailable" ELSE "connecting"
            /\ UNCHANGED <<opened, closing, doing, diagnostics, request>>
    /\ UNCHANGED <<shared, network, bounds, reports>>

Unavailable ==
    /\ pc = "unavailable"
    /\ SetState(IF reload THEN "reload-required" ELSE "off")
    /\ Goto("top")
    /\ UNCHANGED <<mode, reload, epoch, stopping, docs, saves, network, bounds,
                   reports>>

Connecting ==
    /\ pc = "connecting"
    /\ SetState("connecting")
    /\ Goto("handshake")
    /\ UNCHANGED <<mode, reload, epoch, stopping, docs, saves, network, bounds,
                   reports>>

(* The editor is launched or attached to, accepts the connection, answers  *)
(* initialize with the capabilities the bridge needs and announces its own.*)
Handshake ==
    /\ pc = "handshake" /\ ~Cancelled
    /\ Goto("requeue")
    /\ UNCHANGED <<shared, network, bounds, reports>>

(* Mutant: a new connection sends only what changed since the last.        *)
RequeueNothing ==
    /\ pc = "requeue"
    /\ Goto("announce")
    /\ UNCHANGED <<shared, network, bounds, reports>>

Requeue ==
    /\ pc = "requeue"
    /\ docs' = Requeued
    /\ Goto("announce")
    /\ UNCHANGED <<mode, reload, epoch, stopping, state, saves, network, bounds,
                   reports>>

Announce ==
    /\ pc = "announce"
    /\ SetState("ready")
    /\ reports' = IF Cancelled THEN reports ELSE NoReports
    /\ Goto("loop")
    /\ UNCHANGED <<mode, reload, epoch, stopping, docs, saves, network, bounds>>

(* The head of the loop: while (!connected_cancelled()).                   *)
Continue ==
    /\ pc = "loop" /\ ~Cancelled
    /\ Goto("take")
    /\ UNCHANGED <<shared, network, bounds, reports>>

(* The critical section of the loop: a queued document that is due is      *)
(* picked, and those no longer open are listed for closing.                *)
NoLongerOpen == {u \in opened : docs[u] = None \/ ~docs[u].open}

Take(u) ==
    /\ pc = "take" /\ docs[u] # None /\ docs[u].queued
    /\ doing' = [uri |-> u, text |-> docs[u].text, rev |-> docs[u].rev,
                 open |-> docs[u].open, saved |-> docs[u].saved]
    /\ docs' = [docs EXCEPT ![u].queued = FALSE, ![u].saved = FALSE]
    /\ saves' = saves \ {u}
    /\ closing' = NoLongerOpen /\ pc' = "close"
    /\ UNCHANGED <<mode, reload, epoch, stopping, state, session, opened,
                   diagnostics, request, network, bounds, reports>>

TakeNone ==
    /\ pc = "take"
    /\ closing' = NoLongerOpen /\ pc' = "close"
    /\ UNCHANGED <<shared, session, opened, doing, diagnostics, request, network,
                   bounds, reports>>

SendClose(u) ==
    /\ pc = "close" /\ u \in closing /\ ~Cancelled
    /\ toEngine' = Append(toEngine, Message("close", u, Empty))
    /\ opened' = opened \ {u} /\ closing' = closing \ {u}
    /\ UNCHANGED <<shared, pc, session, doing, diagnostics, request, fromEngine,
                   texts, bounds, reports>>

Closed ==
    /\ pc = "close" /\ closing = {}
    /\ Goto(IF doing.uri = None THEN "idle" ELSE "send")
    /\ UNCHANGED <<shared, network, bounds, reports>>

(* Nothing to ask: a message is read if there is one.                      *)
Idle ==
    /\ pc = "idle"
    /\ fromEngine' = IF fromEngine = <<>> THEN <<>> ELSE Tail(fromEngine)
    /\ Goto("loop")
    /\ UNCHANGED <<shared, toEngine, texts, bounds, reports>>

(* The text, the save if there was one, and the barrier: a request that is *)
(* answered after everything before it has been dealt with.                *)
Send ==
    LET d == doing
        synchronize == Message(IF d.uri \in opened THEN "change" ELSE "open",
                               d.uri, d.text)
        save == IF d.saved THEN <<Message("save", d.uri, d.text)>> ELSE <<>>
        barrier == Message("symbols", d.uri, request + 1)
    IN  /\ pc = "send" /\ ~Cancelled
        /\ toEngine' = (toEngine \o <<synchronize>>) \o (save \o <<barrier>>)
        /\ opened' = opened \cup {d.uri}
        /\ request' = request + 1 /\ diagnostics' = None
        /\ pc' = "receive"
        /\ UNCHANGED <<shared, session, closing, doing, fromEngine, texts, bounds,
                       reports>>

(* Mutant: a report on whatever document.                                  *)
AboutAny(m) == m.kind = "publish"
About(m) == m.kind = "publish" /\ m.uri = doing.uri
Answers(m) == m.kind = "answer" /\ m.text = request

(* Mutant: the barrier is enough.                                          *)
NeverMissing == FALSE
ReportMissing == diagnostics = None

(* Mutant: the first report on the document is good enough.                *)
ReceiveFirst ==
    LET m == Head(fromEngine)
    IN  /\ pc = "receive" /\ ~Cancelled /\ fromEngine # <<>>
        /\ fromEngine' = Tail(fromEngine)
        /\ diagnostics' = IF About(m) /\ diagnostics = None THEN m.text ELSE diagnostics
        /\ pc' = IF diagnostics' # None THEN "reported" ELSE "receive"
        /\ UNCHANGED <<shared, session, opened, closing, doing, request, toEngine,
                       texts, bounds, reports>>

(* A message within the transaction: the last report on the document       *)
(* counts, once the barrier is answered.                                   *)
Receive ==
    LET m == Head(fromEngine)
    IN  /\ pc = "receive" /\ ~Cancelled /\ fromEngine # <<>>
        /\ Answers(m) => ~ReportMissing
        /\ fromEngine' = Tail(fromEngine)
        /\ diagnostics' = IF About(m) THEN m.text ELSE diagnostics
        /\ pc' = IF Answers(m) THEN "reported" ELSE "receive"
        /\ UNCHANGED <<shared, session, opened, closing, doing, request, toEngine,
                       texts, bounds, reports>>

(* Mutant: the document is still taken for open in the editor.             *)
ReportedKeepsOpen ==
    /\ pc = "reported"
    /\ \/ doing.open /\ UNCHANGED toEngine
       \/ /\ ~doing.open /\ ~Cancelled
          /\ toEngine' = Append(toEngine, Message("close", doing.uri, Empty))
    /\ Goto("check")
    /\ UNCHANGED <<shared, fromEngine, texts, bounds, reports>>

(* A document that no editor has open is closed again.                     *)
Reported ==
    /\ pc = "reported"
    /\ \/ /\ doing.open
          /\ UNCHANGED <<toEngine, opened>>
       \/ /\ ~doing.open /\ ~Cancelled
          /\ toEngine' = Append(toEngine, Message("close", doing.uri, Empty))
          /\ opened' = opened \ {doing.uri}
    /\ pc' = "check"
    /\ UNCHANGED <<shared, session, closing, doing, diagnostics, request,
                   fromEngine, texts, bounds, reports>>

(* The report is passed on if the document still has the revision.         *)
Check ==
    LET current == /\ epoch = session /\ docs[doing.uri] # None
                   /\ docs[doing.uri].rev = doing.rev
    IN  /\ pc = "check"
        /\ reports' = IF current
                      THEN [reports EXCEPT ![doing.uri] =
                              [rev |-> doing.rev, verdict |-> diagnostics]]
                      ELSE reports
        /\ doing' = NoDocument /\ diagnostics' = None /\ pc' = "loop"
        /\ UNCHANGED <<shared, session, opened, closing, request, network, bounds>>

-----------------------------------------------------------------------------
(* The end of a connection.                                                *)

Waiting == {"handshake", "close", "idle", "send", "receive", "reported"}

(* What the worker had of a connection ends with it, the answers that are  *)
(* still on their way included.                                            *)
Drop(label) ==
    /\ pc' = label /\ doing' = NoDocument /\ diagnostics' = None /\ closing' = {}
    /\ opened' = {} /\ request' = 0 /\ UNCHANGED session
    /\ toEngine' = <<>> /\ fromEngine' = <<>> /\ texts' = [u \in Uris |-> None]

(* A deadline passes, or the connection or the editor fails; that a        *)
(* launched editor has gone is noticed in the loop too.                    *)
Fail ==
    /\ pc \in Waiting \/ (pc = "loop" /\ "launch" \in Modes)
    /\ faults < MaxFaults /\ faults' = faults + 1
    /\ Drop("fallback")
    /\ UNCHANGED <<shared, clock, revision, calls, extra, reports>>

(* The barrier is answered without a report on the document.               *)
NoReport ==
    /\ pc = "receive" /\ fromEngine # <<>>
    /\ Answers(Head(fromEngine)) /\ ReportMissing
    /\ Drop("fallback")
    /\ UNCHANGED <<shared, bounds, reports>>

(* Mutant: the wait for the barrier is not interrupted.                    *)
CancelElsewhere ==
    /\ pc \in (Waiting \cup {"loop"}) \ {"receive"} /\ Cancelled
    /\ Drop("fallback")
    /\ UNCHANGED <<shared, bounds, reports>>

(* Every wait ends when the connection is no longer wanted, and so does    *)
(* the loop.                                                               *)
Cancel ==
    /\ pc \in Waiting \cup {"loop"} /\ Cancelled
    /\ Drop("fallback")
    /\ UNCHANGED <<shared, bounds, reports>>

Fallback ==
    /\ pc = "fallback"
    /\ SetState("fallback")
    /\ Goto("backoff")
    /\ UNCHANGED <<mode, reload, epoch, stopping, docs, saves, network, bounds,
                   reports>>

(* The editor is stopped, if it was launched, and the wait before the next *)
(* attempt ends.                                                           *)
Backoff ==
    /\ pc = "backoff"
    /\ Goto("top")
    /\ UNCHANGED <<shared, network, bounds, reports>>

-----------------------------------------------------------------------------
(* The Godot editor.                                                       *)

(* It deals with one message after the other, and reports on a text when   *)
(* it gets it.                                                             *)
EngineStep ==
    LET m == Head(toEngine)
        report(t) == Append(fromEngine, Message("publish", m.uri, t))
    IN  /\ toEngine # <<>> /\ toEngine' = Tail(toEngine)
        /\ UNCHANGED <<shared, local, bounds, reports>>
        /\ \/ /\ m.kind \in {"open", "change"}
              /\ texts' = [texts EXCEPT ![m.uri] = m.text]
              /\ fromEngine' = report(m.text)
           \/ /\ m.kind = "close"
              /\ texts' = [texts EXCEPT ![m.uri] = None]
              /\ \/ UNCHANGED fromEngine
                 \/ "again" \in Habits /\ fromEngine' = report(Empty)
           \/ m.kind = "save" /\ UNCHANGED <<texts, fromEngine>>
           \/ /\ m.kind = "symbols" /\ UNCHANGED texts
              /\ fromEngine' = Append(fromEngine, Message("answer", m.uri, m.text))

(* A text goes without a report.                                           *)
EngineSilent ==
    LET m == Head(toEngine)
    IN  /\ "silent" \in Habits /\ faults < MaxFaults /\ faults' = faults + 1
        /\ toEngine # <<>> /\ toEngine' = Tail(toEngine)
        /\ m.kind \in {"open", "change"}
        /\ texts' = [texts EXCEPT ![m.uri] = m.text]
        /\ UNCHANGED <<shared, local, fromEngine, clock, revision, calls, extra,
                       reports>>

(* A report nobody asked for, on the text the editor has.                  *)
EngineReports(u) ==
    /\ "again" \in Habits /\ extra < MaxExtra /\ extra' = extra + 1
    /\ texts[u] # None
    /\ fromEngine' = Append(fromEngine, Message("publish", u, texts[u]))
    /\ UNCHANGED <<shared, local, toEngine, texts, clock, revision, calls, faults,
                   reports>>

-----------------------------------------------------------------------------
Init ==
    /\ mode = "off" /\ reload = FALSE /\ epoch = 0 /\ stopping = FALSE
    /\ state = "off" /\ docs = [u \in Uris |-> None] /\ saves = {}
    /\ pc = "top" /\ session = 0 /\ opened = {} /\ closing = {}
    /\ doing = NoDocument /\ diagnostics = None /\ request = 0
    /\ toEngine = <<>> /\ fromEngine = <<>> /\ texts = [u \in Uris |-> None]
    /\ clock = 0 /\ revision = 0 /\ calls = 0 /\ faults = 0 /\ extra = 0
    /\ reports = NoReports

Caller ==
    \/ \E m \in Modes \cup {"off"} : Configure(m)
    \/ \E u \in Uris : Submit(u) \/ Saved(u) \/ Forget(u)
    \/ ProjectChanged \/ Stop

Worker ==
    \/ Top \/ Unavailable \/ Connecting \/ Handshake \/ Requeue \/ Announce
    \/ Continue \/ TakeNone \/ Closed \/ Idle \/ Send \/ Receive \/ Reported \/ Check
    \/ NoReport \/ Cancel \/ Fallback \/ Backoff
    \/ \E u \in Uris : SendClose(u)

Next ==
    \/ Caller \/ Worker \/ Fail \/ EngineStep \/ EngineSilent
    \/ \E u \in Uris : Take(u) \/ EngineReports(u)

Spec == Init /\ [][Next]_vars

(* The worker and the editor run, a queued document comes due and is taken *)
(* sooner or later, and failures end.  Nothing is assumed of the callers.  *)
Fairness ==
    /\ WF_vars(Worker) /\ WF_vars(EngineStep)
    /\ \A u \in Uris : SF_vars(Take(u))

FairSpec == Spec /\ Fairness

-----------------------------------------------------------------------------
(* Properties.                                                             *)

Labels == {"top", "unavailable", "connecting", "handshake", "requeue",
           "announce", "loop", "take", "close", "idle", "send", "receive", "reported",
           "check", "fallback", "backoff", "exited"}
States == {"off", "connecting", "ready", "fallback", "reload-required"}
Messages == [kind : {"open", "change", "save", "symbols", "close", "publish",
                     "answer"}, uri : Uris, text : Nat]

(* The type of every variable.                                             *)
TypeOK ==
    /\ mode \in Modes \cup {"off"} /\ reload \in BOOLEAN /\ epoch \in Nat
    /\ stopping \in BOOLEAN /\ state \in States
    /\ docs \in [Uris -> Entries \cup {None}] /\ saves \subseteq Uris
    /\ pc \in Labels /\ session \in Nat /\ opened \subseteq Uris
    /\ closing \subseteq Uris /\ request \in Nat
    /\ doing \in [uri : Uris \cup {None}, text : Nat, rev : Nat,
                  open : BOOLEAN, saved : BOOLEAN]
    /\ diagnostics \in Nat \cup {None}
    /\ toEngine \in Seq(Messages) /\ fromEngine \in Seq(Messages)
    /\ texts \in [Uris -> Nat \cup {None}]
    /\ clock \in Nat /\ revision \in Nat /\ calls \in Nat /\ faults \in Nat
    /\ extra \in Nat
    /\ reports \in [Uris -> [rev : Nat, verdict : Nat] \cup {None}]

(* The status says ready only while there is a session of the present      *)
(* configuration, or one that just failed: authority is withdrawn at once  *)
(* by configure and by a change of project.godot, and a worker that is     *)
(* behind cannot bring it back.                                            *)
InSession == {"loop", "take", "close", "idle", "send", "receive", "reported", "check"}
ReadyIsBacked ==
    state = "ready" => stopping \/ (epoch = session /\ pc \in InSession \cup {"fallback"})

(* The editor is never asked for something out of order: no document is    *)
(* opened twice, changed, saved, asked about or closed without being open, *)
(* and a save is about the text the editor has.                            *)
InOrder ==
    toEngine # <<>> =>
        LET m == Head(toEngine) IN
        /\ m.kind = "open" <=> texts[m.uri] = None
        /\ m.kind = "save" => m.text = texts[m.uri]

(* A save is passed to the editor with the text, whatever is submitted in  *)
(* between; only the end of the connection, of the mode or of the document *)
(* lets it fall.                                                           *)
SaveDue(u) ==
    \/ u \in saves
    \/ docs[u] # None /\ docs[u].saved
    \/ doing.uri = u /\ doing.saved /\ pc \in {"close", "send"}
SaveFalls(u) == Fail \/ Cancel \/ Forget(u) \/ Configure("off")
SavesKept ==
    [][\A u \in Uris : SaveDue(u) /\ ~SaveDue(u)' => Send \/ SaveFalls(u)]_vars

(* The bridge implements its contract.  Between two sessions everything    *)
(* that is held counts as queued.                                          *)
Live == pc \in InSession /\ ~Cancelled
Held == [u \in Uris |-> IF docs[u] = None THEN None
            ELSE [text |-> docs[u].text, rev |-> docs[u].rev,
                  open |-> docs[u].open, queued |-> ~Live \/ docs[u].queued]]
InQuestion == IF Live /\ doing.uri # None
              THEN [uri |-> doing.uri, text |-> doing.text, rev |-> doing.rev]
              ELSE None
Contract == INSTANCE EngineContract WITH
    Texts <- 0..MaxText, Revisions <- 0..MaxText,
    on <- mode # "off", ready <- state = "ready", live <- Live,
    held <- Held, asking <- InQuestion
ImplementsContract == Contract!Spec

(* When the callers and the failures have ended, what is held has been     *)
(* reported on in the present session, text by text.                       *)
Asked(u) == docs[u] # None /\ mode # "off" /\ ~reload /\ ~stopping
EventuallyReported ==
    <>[](\A u \in Uris : Asked(u) => reports[u] = [rev |-> docs[u].rev,
                                                  verdict |-> docs[u].text])

(* stop returns: the worker leaves whatever it waits for.                  *)
StopJoins == stopping ~> pc = "exited"
=============================================================================
