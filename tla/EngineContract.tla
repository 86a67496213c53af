---------------------------- MODULE EngineContract ----------------------------
(***************************************************************************)
(* What the engine bridge (src/src/lsp/engine_bridge.hpp) promises to its  *)
(* callers, whatever happens on the connection to the Godot editor:        *)
(*                                                                         *)
(*   - authority is withdrawn the moment a caller asks for it;             *)
(*   - every document that is held is asked about when a session starts,   *)
(*     and again whenever it changes;                                      *)
(*   - a report that is passed on is the engine's verdict on the very text *)
(*     that was submitted, and the document still has the revision it was  *)
(*     submitted with.                                                     *)
(***************************************************************************)
CONSTANTS
    Uris,          \* documents
    Texts,         \* their texts
    Revisions,     \* the coordinator's generations
    None

VARIABLES
    on,            \* a mode other than off is configured
    stopping,
    ready,         \* the status says ready
    live,          \* there is a session of the present configuration
    held,          \* the documents submitted
    asking,        \* the document the engine is asked about
    reports        \* what was passed on in this session

vars == <<on, stopping, ready, live, held, asking, reports>>

NoReports == [u \in Uris |-> None]
Entry(t, r, o, q) == [text |-> t, rev |-> r, open |-> o, queued |-> q]
Queued(e, q) == Entry(e.text, e.rev, e.open, q)
Requeued(h) == [u \in Uris |-> IF h[u] = None THEN None ELSE Queued(h[u], TRUE)]

Init ==
    /\ on = FALSE /\ stopping = FALSE /\ ready = FALSE /\ live = FALSE
    /\ held = [u \in Uris |-> None] /\ asking = None /\ reports = NoReports

(* configure, or a change of project.godot.                                *)
Withdraw ==
    /\ on' \in BOOLEAN
    /\ ready' = FALSE /\ live' = FALSE /\ asking' = None
    /\ held' = IF on' THEN Requeued(held) ELSE [u \in Uris |-> None]
    /\ UNCHANGED <<stopping, reports>>

Submit(u) ==
    /\ on /\ ~stopping
    /\ \E t \in Texts, r \in Revisions, o \in BOOLEAN :
          held' = [held EXCEPT ![u] = Entry(t, r, o, TRUE)]
    /\ UNCHANGED <<on, stopping, ready, live, asking, reports>>

Saved(u) ==
    /\ on /\ held[u] # None
    /\ held' = [held EXCEPT ![u] = Queued(@, TRUE)]
    /\ UNCHANGED <<on, stopping, ready, live, asking, reports>>

Forget(u) ==
    /\ held' = [held EXCEPT ![u] = None]
    /\ UNCHANGED <<on, stopping, ready, live, asking, reports>>

Stop ==
    /\ stopping' = TRUE /\ live' = FALSE /\ asking' = None
    /\ held' = Requeued(held)
    /\ UNCHANGED <<on, ready, reports>>

Connected ==
    /\ on /\ ~stopping /\ ~live
    /\ ready' = TRUE /\ live' = TRUE /\ reports' = NoReports
    /\ UNCHANGED <<on, stopping, held, asking>>

Disconnected ==
    /\ live
    /\ live' = FALSE /\ asking' = None /\ held' = Requeued(held)
    /\ UNCHANGED <<on, stopping, ready, reports>>

Fallback ==
    /\ ~live /\ ready' = FALSE
    /\ UNCHANGED <<on, stopping, live, held, asking, reports>>

Ask(u) ==
    /\ live /\ asking = None /\ held[u] # None /\ held[u].queued
    /\ asking' = [uri |-> u, text |-> held[u].text, rev |-> held[u].rev]
    /\ held' = [held EXCEPT ![u] = Queued(@, FALSE)]
    /\ UNCHANGED <<on, stopping, ready, live, reports>>

(* The verdict on the text that was asked about; one on a revision that    *)
(* is no longer held is dropped.                                           *)
Report ==
    /\ live /\ asking # None
    /\ LET u == asking.uri
           current == held[u] # None /\ held[u].rev = asking.rev
       IN  reports' = IF current
                      THEN [reports EXCEPT ![u] = [rev |-> asking.rev,
                                                   verdict |-> asking.text]]
                      ELSE reports
    /\ asking' = None
    /\ UNCHANGED <<on, stopping, ready, live, held>>

Next ==
    \/ Withdraw \/ Stop \/ Connected \/ Disconnected \/ Fallback \/ Report
    \/ \E u \in Uris : Submit(u) \/ Saved(u) \/ Forget(u) \/ Ask(u)

Spec == Init /\ [][Next]_vars
=============================================================================
