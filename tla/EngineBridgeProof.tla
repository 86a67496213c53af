-------------------------- MODULE EngineBridgeProof ---------------------------
(***************************************************************************)
(* Proofs about EngineBridge for every set of documents and every bound.   *)
(***************************************************************************)
EXTENDS EngineBridge, SequenceTheorems, TLAPS

(* Messages are well formed.                                               *)
Kinds == {"open", "change", "save", "symbols", "close", "publish", "answer"}
LEMMA MessageType ==
    ASSUME NEW k \in Kinds, NEW u \in Uris, NEW t \in Nat
    PROVE  /\ Message(k, u, t) \in Messages
           /\ Message(k, u, t).kind = k
           /\ Message(k, u, t).uri = u
           /\ Message(k, u, t).text = t
  BY DEF Message, Messages, Kinds

(* What is at the head of a queue, and what is behind it.                  *)
LEMMA QueueType ==
    ASSUME NEW q \in Seq(Messages), q # <<>>
    PROVE  /\ Head(q) \in Messages /\ Head(q).kind \in Kinds
           /\ Head(q).uri \in Uris /\ Head(q).text \in Nat
           /\ Tail(q) \in Seq(Messages)
<1>1. Head(q) \in Messages /\ Tail(q) \in Seq(Messages)
  OBVIOUS
<1> QED
  BY <1>1 DEF Messages, Kinds

(* What is added to a queue.                                               *)
LEMMA AppendType ==
    ASSUME NEW q \in Seq(Messages), NEW m \in Messages
    PROVE  Append(q, m) \in Seq(Messages)
  OBVIOUS

(* Changing one entry keeps a table of documents one.                      *)
LEMMA RequeuedType ==
    ASSUME docs \in [Uris -> Entries \cup {None}]
    PROVE  Requeued \in [Uris -> Entries \cup {None}]
  BY DEF Requeued, Entries

(* Within a transaction there is a document in hand, and a report once the *)
(* barrier has been answered.                                              *)
InTransaction == {"send", "receive", "reported", "check"}
Placed ==
    /\ pc \in InTransaction => doing.uri \in Uris
    /\ doing.uri \in Uris \cup {None}
    /\ pc \in {"reported", "check"} => diagnostics # None

IInv == TypeOK /\ Placed /\ ReadyIsBacked

(* Every step preserves the types.                                         *)
LEMMA TypingStep == TypeOK /\ Placed /\ [Next]_vars => TypeOK'
<1> SUFFICES ASSUME TypeOK, Placed, [Next]_vars PROVE TypeOK'
  OBVIOUS
<1> USE DEF TypeOK, Labels, States, Entries
<1>1. ASSUME NEW m \in Modes \cup {"off"}, Configure(m) PROVE TypeOK'
  <2>1. docs' \in [Uris -> Entries \cup {None}]
    BY <1>1, RequeuedType DEF Configure
  <2>2. state' \in States /\ mode' \in Modes \cup {"off"}
    BY <1>1 DEF Configure, Withdrawn
  <2>3. saves' \subseteq Uris /\ reload' \in BOOLEAN
    BY <1>1 DEF Configure
  <2>4. epoch' \in Nat /\ calls' \in Nat
    BY <1>1 DEF Configure, Call
  <2> QED
    BY <2>1, <2>2, <2>3, <2>4,  <1>1 DEF Configure, shared, local, network, bounds
<1>2. ASSUME ProjectChanged PROVE TypeOK'
  BY <1>2 DEF ProjectChanged, Call, shared, local, network, bounds
<1>3. ASSUME Stop PROVE TypeOK'
  BY <1>3 DEF Stop, shared, local, network, bounds
<1>4. ASSUME Top PROVE TypeOK'
  BY <1>4 DEF Top, Goto, shared, local, network, bounds
<1>5. ASSUME Unavailable PROVE TypeOK'
  BY <1>5 DEF Unavailable, SetState, Goto, shared, local, network, bounds
<1>6. ASSUME Connecting PROVE TypeOK'
  BY <1>6 DEF Connecting, SetState, Goto, shared, local, network, bounds
<1>7. ASSUME Handshake PROVE TypeOK'
  BY <1>7 DEF Handshake, Goto, shared, local, network, bounds
<1>8. ASSUME Requeue PROVE TypeOK'
  <2>1. docs' \in [Uris -> Entries \cup {None}]
    BY <1>8, RequeuedType DEF Requeue
  <2> QED
    BY <2>1,  <1>8 DEF Requeue, Goto, shared, local, network, bounds
<1>9. ASSUME Announce PROVE TypeOK'
  BY <1>9 DEF Announce, SetState, Goto, NoReports, shared, local, network, bounds
<1>10. ASSUME Continue PROVE TypeOK'
  BY <1>10 DEF Continue, Goto, shared, local, network, bounds
<1>11. ASSUME TakeNone PROVE TypeOK'
  BY <1>11 DEF TakeNone, NoLongerOpen, shared, local, network, bounds
<1>12. ASSUME Closed PROVE TypeOK'
  BY <1>12 DEF Closed, Goto, shared, local, network, bounds
<1>13. ASSUME Idle PROVE TypeOK'
  <2>1. fromEngine' \in Seq(Messages)
    BY <1>13, QueueType DEF Idle
  <2> QED
    BY <2>1,  <1>13 DEF Idle, Goto, shared, local, network, bounds
<1>14. ASSUME Send PROVE TypeOK'
  <2> DEFINE first == Message(IF doing.uri \in opened THEN "change" ELSE "open",
                              doing.uri, doing.text)
             save == IF doing.saved THEN <<Message("save", doing.uri, doing.text)>>
                     ELSE <<>>
             barrier == Message("symbols", doing.uri, request + 1)
  <2>1. doing.uri \in Uris
    BY <1>14 DEF Send, Placed, InTransaction
  <2>2. request + 1 \in Nat
    OBVIOUS
  <2>3. first \in Messages
    BY <2>1, MessageType DEF Kinds
  <2>4. save \in Seq(Messages)
    BY <2>1, MessageType DEF Kinds
  <2>5. barrier \in Messages
    BY <2>1, <2>2, MessageType DEF Kinds
  <2>6. toEngine' = (toEngine \o <<first>>) \o (save \o <<barrier>>)
    BY <1>14 DEF Send
  <2> HIDE DEF first, save, barrier
  <2>7. toEngine' \in Seq(Messages)
    BY <2>3, <2>4, <2>5, <2>6
  <2> QED
    BY <2>1, <2>2, <2>7, <1>14 DEF Send, shared, local, network, bounds
<1>15. ASSUME Receive PROVE TypeOK'
  <2>1. Head(fromEngine).text \in Nat /\ Tail(fromEngine) \in Seq(Messages)
    BY <1>15, QueueType DEF Receive
  <2> QED
    BY <2>1,  <1>15 DEF Receive, shared, local, network, bounds
<1>16. ASSUME Reported PROVE TypeOK'
  <2>1. doing.uri \in Uris
    BY <1>16 DEF Reported, Placed, InTransaction
  <2>2. Message("close", doing.uri, Empty) \in Messages
    BY <2>1, MessageType DEF Empty, Kinds
  <2>3. toEngine' \in Seq(Messages)
    BY <1>16, <2>2, AppendType DEF Reported
  <2> QED
    BY <2>1, <2>2, <2>3,  <1>16 DEF Reported, shared, local, network, bounds
<1>17. ASSUME Check PROVE TypeOK'
  <2>1. doing.uri \in Uris /\ diagnostics \in Nat
    BY <1>17 DEF Check, Placed, InTransaction
  <2>2. reports' \in [Uris -> [rev : Nat, verdict : Nat] \cup {None}]
    BY <1>17, <2>1 DEF Check
  <2> QED
    BY <2>1, <2>2,  <1>17 DEF Check, NoDocument, Empty, shared, local, network, bounds
<1>18. ASSUME NoReport PROVE TypeOK'
  BY <1>18 DEF NoReport, Drop, NoDocument, Empty, shared, local, network, bounds
<1>19. ASSUME Cancel PROVE TypeOK'
  BY <1>19 DEF Cancel, Drop, Waiting, NoDocument, Empty, shared, local, network, bounds
<1>20. ASSUME Fallback PROVE TypeOK'
  BY <1>20 DEF Fallback, SetState, Goto, shared, local, network, bounds
<1>21. ASSUME Backoff PROVE TypeOK'
  BY <1>21 DEF Backoff, Goto, shared, local, network, bounds
<1>22. ASSUME Fail PROVE TypeOK'
  BY <1>22 DEF Fail, Drop, Waiting, NoDocument, Empty, shared, local, network, bounds
<1>23. ASSUME EngineStep PROVE TypeOK'
  <2> DEFINE m == Head(toEngine)
  <2>1. /\ m.kind \in Kinds /\ m.uri \in Uris /\ m.text \in Nat
        /\ toEngine' \in Seq(Messages)
    BY <1>23, QueueType DEF EngineStep
  <2>2. Message("publish", m.uri, m.text) \in Messages
    BY <2>1, MessageType DEF Kinds
  <2>3. Message("publish", m.uri, Empty) \in Messages
    BY <2>1, MessageType DEF Kinds, Empty
  <2>4. Message("answer", m.uri, m.text) \in Messages
    BY <2>1, MessageType DEF Kinds
  <2>5. fromEngine' \in Seq(Messages)
    <3> HIDE DEF m
    <3>1. \/ fromEngine' = Append(fromEngine, Message("publish", m.uri, m.text))
          \/ fromEngine' = Append(fromEngine, Message("publish", m.uri, Empty))
          \/ fromEngine' = Append(fromEngine, Message("answer", m.uri, m.text))
          \/ fromEngine' = fromEngine
      BY <1>23 DEF EngineStep, m
    <3> QED
      BY <3>1, <2>2, <2>3, <2>4, AppendType
  <2>6. texts' \in [Uris -> Nat \cup {None}]
    BY <1>23, <2>1 DEF EngineStep
  <2> QED
    BY <2>1, <2>5, <2>6, <1>23 DEF EngineStep, shared, local, network, bounds
<1>24. ASSUME EngineSilent PROVE TypeOK'
  <2> DEFINE m == Head(toEngine)
  <2>1. /\ m.kind \in Kinds /\ m.uri \in Uris /\ m.text \in Nat
        /\ toEngine' \in Seq(Messages)
    BY <1>24, QueueType DEF EngineSilent
  <2>2. texts' \in [Uris -> Nat \cup {None}]
    BY <1>24, <2>1 DEF EngineSilent
  <2>3. /\ UNCHANGED <<shared, local, fromEngine, clock, revision, calls, extra, reports>>
        /\ faults' \in Nat
    BY <1>24 DEF EngineSilent
  <2> QED
    BY <2>1, <2>2, <2>3 DEF shared, local
<1>25. ASSUME NEW u \in Uris, Submit(u) PROVE TypeOK'
  BY <1>25 DEF Submit, SaveMark, shared, local, network, bounds
<1>26. ASSUME NEW u \in Uris, Saved(u) PROVE TypeOK'
  <2>1. ASSUME docs[u] # None PROVE [docs[u] EXCEPT !.saved = TRUE, !.queued = TRUE] \in Entries
    BY <2>1
  <2>2. docs' \in [Uris -> Entries \cup {None}]
    BY <1>26, <2>1 DEF Saved
  <2>3. saves' \subseteq Uris /\ calls' \in Nat
    BY <1>26 DEF Saved, Call
  <2>4. UNCHANGED <<mode, reload, epoch, stopping, state, local, network, clock,
                    revision, faults, extra, reports>>
    BY <1>26 DEF Saved
  <2> QED
    BY <2>2, <2>3, <2>4 DEF local, network
<1>27. ASSUME NEW u \in Uris, Forget(u) PROVE TypeOK'
  BY <1>27 DEF Forget, Call, shared, local, network, bounds
<1>28. ASSUME NEW u \in Uris, SendClose(u) PROVE TypeOK'
  <2>1. Message("close", u, Empty) \in Messages
    BY MessageType DEF Empty, Kinds
  <2>2. toEngine' \in Seq(Messages)
    BY <1>28, <2>1 DEF SendClose
  <2> QED
    BY <2>2, <1>28 DEF SendClose, shared, local, network, bounds
<1>29. ASSUME NEW u \in Uris, Take(u) PROVE TypeOK'
  <2>1. docs[u] \in Entries
    BY <1>29 DEF Take
  <2>2. [docs[u] EXCEPT !.queued = FALSE, !.saved = FALSE] \in Entries
    BY <2>1
  <2>3. docs' \in [Uris -> Entries \cup {None}]
    BY <1>29, <2>2 DEF Take
  <2>4. doing' \in [uri : Uris \cup {None}, text : Nat, rev : Nat, open : BOOLEAN, saved : BOOLEAN]
    BY <1>29, <2>1 DEF Take
  <2> QED
    BY <2>3, <2>4, <1>29 DEF Take, NoLongerOpen, shared, local, network, bounds
<1>30. ASSUME NEW u \in Uris, EngineReports(u) PROVE TypeOK'
  <2>1. texts[u] \in Nat
    BY <1>30 DEF EngineReports
  <2>2. fromEngine' \in Seq(Messages)
    BY <1>30, <2>1, MessageType DEF EngineReports, Kinds
  <2> QED
    BY <2>2, <1>30 DEF EngineReports, shared, local, network, bounds
<1>31. CASE UNCHANGED vars
  BY <1>31 DEF vars, shared, local, network, bounds
<1> QED
  BY <1>1, <1>2, <1>3, <1>4, <1>5, <1>6, <1>7, <1>8, <1>9, <1>10, <1>11, <1>12, <1>13, <1>14, <1>15, <1>16, <1>17, <1>18, <1>19, <1>20, <1>21, <1>22, <1>23, <1>24, <1>25, <1>26, <1>27, <1>28, <1>29, <1>30, <1>31
     DEF Next, Caller, Worker

(* Every step preserves what is in hand.                                   *)
LEMMA PlacedStep == TypeOK /\ Placed /\ [Next]_vars => Placed'
<1> SUFFICES ASSUME TypeOK, Placed, [Next]_vars PROVE Placed'
  OBVIOUS
<1> USE DEF Placed, InTransaction
<1>1. ASSUME NEW m \in Modes \cup {"off"}, Configure(m) PROVE Placed'
  BY <1>1 DEF Configure, Call, Withdrawn, Requeued, shared, local, network, bounds
<1>2. ASSUME ProjectChanged PROVE Placed'
  BY <1>2 DEF ProjectChanged, Call, shared, local, network, bounds
<1>3. ASSUME Stop PROVE Placed'
  BY <1>3 DEF Stop, shared, local, network, bounds
<1>4. ASSUME Top PROVE Placed'
  BY <1>4 DEF Top, Goto, shared, local, network, bounds
<1>5. ASSUME Unavailable PROVE Placed'
  BY <1>5 DEF Unavailable, SetState, Goto, shared, local, network, bounds
<1>6. ASSUME Connecting PROVE Placed'
  BY <1>6 DEF Connecting, SetState, Goto, shared, local, network, bounds
<1>7. ASSUME Handshake PROVE Placed'
  BY <1>7 DEF Handshake, Goto, shared, local, network, bounds
<1>8. ASSUME Requeue PROVE Placed'
  BY <1>8 DEF Requeue, Requeued, Goto, shared, local, network, bounds
<1>9. ASSUME Announce PROVE Placed'
  BY <1>9 DEF Announce, SetState, Goto, NoReports, shared, local, network, bounds
<1>10. ASSUME Continue PROVE Placed'
  BY <1>10 DEF Continue, Goto, shared, local, network, bounds
<1>11. ASSUME TakeNone PROVE Placed'
  BY <1>11 DEF TakeNone, NoLongerOpen, shared, local, network, bounds
<1>12. ASSUME Closed PROVE Placed'
  BY NoneAssumption, <1>12 DEF Closed, Goto, shared, local, network, bounds
<1>13. ASSUME Idle PROVE Placed'
  BY <1>13 DEF Idle, Goto, shared, local, network, bounds
<1>14. ASSUME Send PROVE Placed'
  BY <1>14 DEF Send, Message, shared, local, network, bounds
<1>15. ASSUME Receive PROVE Placed'
  BY NoneAssumption, QueueType, <1>15 DEF Receive, About, Answers, ReportMissing, shared, local, network, bounds
<1>16. ASSUME Reported PROVE Placed'
  BY <1>16 DEF Reported, Message, Empty, shared, local, network, bounds
<1>17. ASSUME Check PROVE Placed'
  BY <1>17 DEF Check, NoDocument, Empty, shared, local, network, bounds
<1>18. ASSUME NoReport PROVE Placed'
  BY <1>18 DEF NoReport, Drop, NoDocument, Empty, shared, local, network, bounds
<1>19. ASSUME Cancel PROVE Placed'
  BY <1>19 DEF Cancel, Drop, Waiting, NoDocument, Empty, shared, local, network, bounds
<1>20. ASSUME Fallback PROVE Placed'
  BY <1>20 DEF Fallback, SetState, Goto, shared, local, network, bounds
<1>21. ASSUME Backoff PROVE Placed'
  BY <1>21 DEF Backoff, Goto, shared, local, network, bounds
<1>22. ASSUME Fail PROVE Placed'
  BY <1>22 DEF Fail, Drop, Waiting, NoDocument, Empty, shared, local, network, bounds
<1>23. ASSUME EngineStep PROVE Placed'
  BY <1>23 DEF EngineStep, shared, local, network, bounds
<1>24. ASSUME EngineSilent PROVE Placed'
  BY <1>24 DEF EngineSilent, shared, local, network, bounds
<1>25. ASSUME NEW u \in Uris, Submit(u) PROVE Placed'
  BY <1>25 DEF Submit, SaveMark, shared, local, network, bounds
<1>26. ASSUME NEW u \in Uris, Saved(u) PROVE Placed'
  BY <1>26 DEF Saved, Call, shared, local, network, bounds
<1>27. ASSUME NEW u \in Uris, Forget(u) PROVE Placed'
  BY <1>27 DEF Forget, Call, shared, local, network, bounds
<1>28. ASSUME NEW u \in Uris, SendClose(u) PROVE Placed'
  BY <1>28 DEF SendClose, Message, Empty, shared, local, network, bounds
<1>29. ASSUME NEW u \in Uris, Take(u) PROVE Placed'
  BY NoneAssumption, <1>29 DEF Take, NoLongerOpen, shared, local, network, bounds
<1>30. ASSUME NEW u \in Uris, EngineReports(u) PROVE Placed'
  BY <1>30 DEF EngineReports, shared, local, network, bounds
<1>31. CASE UNCHANGED vars
  BY <1>31 DEF vars, shared, local, network, bounds
<1> QED
  BY <1>1, <1>2, <1>3, <1>4, <1>5, <1>6, <1>7, <1>8, <1>9, <1>10, <1>11, <1>12, <1>13, <1>14, <1>15, <1>16, <1>17, <1>18, <1>19, <1>20, <1>21, <1>22, <1>23, <1>24, <1>25, <1>26, <1>27, <1>28, <1>29, <1>30, <1>31
     DEF Next, Caller, Worker

(* Every step preserves the bond between status and session.               *)
LEMMA BackedStep == TypeOK /\ ReadyIsBacked /\ [Next]_vars => ReadyIsBacked'
<1> SUFFICES ASSUME TypeOK, ReadyIsBacked, [Next]_vars PROVE ReadyIsBacked'
  OBVIOUS
<1> USE DEF ReadyIsBacked, InSession
<1>1. ASSUME NEW m \in Modes \cup {"off"}, Configure(m) PROVE ReadyIsBacked'
  BY <1>1 DEF Configure, Call, Withdrawn, Requeued, shared, local, network, bounds
<1>2. ASSUME ProjectChanged PROVE ReadyIsBacked'
  BY <1>2 DEF ProjectChanged, Call, shared, local, network, bounds
<1>3. ASSUME Stop PROVE ReadyIsBacked'
  BY <1>3 DEF Stop, shared, local, network, bounds
<1>4. ASSUME Top PROVE ReadyIsBacked'
  BY <1>4 DEF Top, Goto, shared, local, network, bounds
<1>5. ASSUME Unavailable PROVE ReadyIsBacked'
  BY <1>5 DEF Unavailable, SetState, Goto, shared, local, network, bounds
<1>6. ASSUME Connecting PROVE ReadyIsBacked'
  BY <1>6 DEF Connecting, SetState, Goto, shared, local, network, bounds
<1>7. ASSUME Handshake PROVE ReadyIsBacked'
  BY <1>7 DEF Handshake, Goto, shared, local, network, bounds
<1>8. ASSUME Requeue PROVE ReadyIsBacked'
  BY <1>8 DEF Requeue, Requeued, Goto, shared, local, network, bounds
<1>9. ASSUME Announce PROVE ReadyIsBacked'
  BY <1>9 DEF Announce, SetState, Goto, NoReports, shared, local, network, bounds
<1>10. ASSUME Continue PROVE ReadyIsBacked'
  BY <1>10 DEF Continue, Goto, shared, local, network, bounds
<1>11. ASSUME TakeNone PROVE ReadyIsBacked'
  BY <1>11 DEF TakeNone, NoLongerOpen, shared, local, network, bounds
<1>12. ASSUME Closed PROVE ReadyIsBacked'
  BY <1>12 DEF Closed, Goto, shared, local, network, bounds
<1>13. ASSUME Idle PROVE ReadyIsBacked'
  BY <1>13 DEF Idle, Goto, shared, local, network, bounds
<1>14. ASSUME Send PROVE ReadyIsBacked'
  BY <1>14 DEF Send, Message, shared, local, network, bounds
<1>15. ASSUME Receive PROVE ReadyIsBacked'
  BY <1>15 DEF Receive, About, Answers, ReportMissing, shared, local, network, bounds
<1>16. ASSUME Reported PROVE ReadyIsBacked'
  BY <1>16 DEF Reported, Message, Empty, shared, local, network, bounds
<1>17. ASSUME Check PROVE ReadyIsBacked'
  BY <1>17 DEF Check, NoDocument, Empty, shared, local, network, bounds
<1>18. ASSUME NoReport PROVE ReadyIsBacked'
  BY <1>18 DEF NoReport, Drop, NoDocument, Empty, shared, local, network, bounds
<1>19. ASSUME Cancel PROVE ReadyIsBacked'
  BY <1>19 DEF Cancel, Drop, Waiting, NoDocument, Empty, shared, local, network, bounds
<1>20. ASSUME Fallback PROVE ReadyIsBacked'
  BY <1>20 DEF Fallback, SetState, Goto, shared, local, network, bounds
<1>21. ASSUME Backoff PROVE ReadyIsBacked'
  BY <1>21 DEF Backoff, Goto, shared, local, network, bounds
<1>22. ASSUME Fail PROVE ReadyIsBacked'
  BY <1>22 DEF Fail, Drop, Waiting, NoDocument, Empty, shared, local, network, bounds
<1>23. ASSUME EngineStep PROVE ReadyIsBacked'
  BY <1>23 DEF EngineStep, Message, Empty, shared, local, network, bounds
<1>24. ASSUME EngineSilent PROVE ReadyIsBacked'
  BY <1>24 DEF EngineSilent, shared, local, network, bounds
<1>25. ASSUME NEW u \in Uris, Submit(u) PROVE ReadyIsBacked'
  BY <1>25 DEF Submit, SaveMark, shared, local, network, bounds
<1>26. ASSUME NEW u \in Uris, Saved(u) PROVE ReadyIsBacked'
  BY <1>26 DEF Saved, Call, shared, local, network, bounds
<1>27. ASSUME NEW u \in Uris, Forget(u) PROVE ReadyIsBacked'
  BY <1>27 DEF Forget, Call, shared, local, network, bounds
<1>28. ASSUME NEW u \in Uris, SendClose(u) PROVE ReadyIsBacked'
  BY <1>28 DEF SendClose, Message, Empty, shared, local, network, bounds
<1>29. ASSUME NEW u \in Uris, Take(u) PROVE ReadyIsBacked'
  BY <1>29 DEF Take, NoLongerOpen, shared, local, network, bounds
<1>30. ASSUME NEW u \in Uris, EngineReports(u) PROVE ReadyIsBacked'
  BY <1>30 DEF EngineReports, Message, shared, local, network, bounds
<1>31. CASE UNCHANGED vars
  BY <1>31 DEF vars, shared, local, network, bounds
<1> QED
  BY <1>1, <1>2, <1>3, <1>4, <1>5, <1>6, <1>7, <1>8, <1>9, <1>10, <1>11, <1>12, <1>13, <1>14, <1>15, <1>16, <1>17, <1>18, <1>19, <1>20, <1>21, <1>22, <1>23, <1>24, <1>25, <1>26, <1>27, <1>28, <1>29, <1>30, <1>31
     DEF Next, Caller, Worker

(* The invariant holds throughout every behaviour.                         *)
THEOREM Inductive == Spec => []IInv
<1>1. Init => IInv
  <2> SUFFICES ASSUME Init PROVE IInv
    OBVIOUS
  <2> USE DEF Init, NoDocument, NoReports, Empty
  <2>1. /\ docs \in [Uris -> Entries \cup {None}]
        /\ texts \in [Uris -> Nat \cup {None}]
        /\ reports \in [Uris -> [rev : Nat, verdict : Nat] \cup {None}]
    OBVIOUS
  <2>2. doing \in [uri : Uris \cup {None}, text : Nat, rev : Nat,
                  open : BOOLEAN, saved : BOOLEAN]
    OBVIOUS
  <2>3. toEngine \in Seq(Messages) /\ fromEngine \in Seq(Messages)
    OBVIOUS
  <2>4. TypeOK
    BY <2>1, <2>2, <2>3 DEF TypeOK, Labels, States
  <2>5. Placed
    BY DEF Placed, InTransaction
  <2>6. ReadyIsBacked
    BY DEF ReadyIsBacked
  <2> QED
    BY <2>4, <2>5, <2>6 DEF IInv
<1>2. IInv /\ [Next]_vars => IInv'
  BY TypingStep, PlacedStep, BackedStep DEF IInv
<1> QED
  BY <1>1, <1>2, PTL DEF Spec

(* Every variable keeps its type.                                          *)
THEOREM TypeCorrect == Spec => []TypeOK
<1>1. IInv => TypeOK
  BY DEF IInv
<1> QED
  BY <1>1, Inductive, PTL

(* The status never says ready without a session of the present            *)
(* configuration behind it, or one that has just failed.                   *)
THEOREM AuthorityBacked == Spec => []ReadyIsBacked
<1>1. IInv => ReadyIsBacked
  BY DEF IInv
<1> QED
  BY <1>1, Inductive, PTL
-----------------------------------------------------------------------------
(***************************************************************************)
(* The two queues.  What is on its way to the editor is a run of closes,   *)
(* and while an answer is awaited the rest of one transaction behind them. *)
(***************************************************************************)

(* The messages of a transaction, and how far the editor has got with them.*)
Rest == IF doing.saved THEN 3 ELSE 2
Unsynced == pc = "receive" /\ Len(toEngine) >= Rest
Synced == pc = "receive" /\ Len(toEngine) < Rest
Barrier == Message("symbols", doing.uri, request)

(* The first n messages close different documents that the editor has, and *)
(* Left are the documents it then still has.                               *)
Closes(n) ==
    /\ \A i \in 1..n : toEngine[i].kind = "close" /\ texts[toEngine[i].uri] # None
    /\ \A i \in 1..n, j \in 1..n : toEngine[i].uri = toEngine[j].uri => i = j
Left(n) == {u \in Uris : texts[u] # None /\ \A i \in 1..n : toEngine[i].uri # u}

Between ==
    /\ Closes(Len(toEngine))
    /\ opened = Left(Len(toEngine))

Asking ==
    LET n == Len(toEngine) - Rest IN
    /\ Closes(n)
    /\ toEngine[n + 1] = Message(IF doing.uri \in Left(n) THEN "change" ELSE "open",
                                 doing.uri, doing.text)
    /\ doing.saved => toEngine[n + 2] = Message("save", doing.uri, doing.text)
    /\ toEngine[Len(toEngine)] = Barrier
    /\ opened = Left(n) \cup {doing.uri}

Answering ==
    /\ texts[doing.uri] = doing.text
    /\ opened = Left(0)
    /\ Len(toEngine) = 2 => toEngine[1] = Message("save", doing.uri, doing.text)
    /\ toEngine # <<>> => toEngine[Len(toEngine)] = Barrier

Wire ==
    /\ pc # "receive" => Between
    /\ Unsynced => Asking
    /\ Synced => Answering
    /\ pc = "close" => closing \subseteq opened
    /\ pc = "reported" => doing.uri \in opened

(* The barrier has one answer, and only after the editor has dealt with    *)
(* everything it was sent.                                                 *)
NoAnswer == \A i \in 1..Len(fromEngine) : fromEngine[i].kind # "answer"
OneAnswer ==
    \E x \in 1..Len(fromEngine) :
        /\ fromEngine[x].kind = "answer" /\ fromEngine[x].text = request
        /\ \A i \in 1..Len(fromEngine) : i # x => fromEngine[i].kind # "answer"
Barriers ==
    /\ pc # "receive" \/ toEngine # <<>> => NoAnswer
    /\ pc = "receive" /\ toEngine = <<>> => OneAnswer

(* An editor that reports only when it gets a text has nothing to say      *)
(* between two transactions.                                               *)
Quiet ==
    "again" \notin Habits =>
        /\ pc # "receive" => fromEngine = <<>>
        /\ Unsynced => fromEngine = <<>> /\ diagnostics = None
        /\ pc = "receive" /\ toEngine = <<>> =>
              fromEngine # <<>> /\ fromEngine[Len(fromEngine)].kind = "answer"

-----------------------------------------------------------------------------
(* Lemmas about queues.                                                    *)

LEMMA QueueTail ==
    ASSUME NEW q \in Seq(Messages), q # <<>>
    PROVE  /\ Len(q) \in Nat \ {0}
           /\ Len(Tail(q)) = Len(q) - 1
           /\ Head(q) = q[1]
           /\ \A i \in 1..Len(Tail(q)) : Tail(q)[i] = q[i + 1]
<1>1. /\ Len(Tail(q)) = Len(q) - 1
      /\ \A i \in 1..Len(Tail(q)) : Tail(q)[i] = q[i + 1]
  BY HeadTailProperties
<1>2. Len(q) \in Nat \ {0}
  BY EmptySeq
<1>3. Head(q) = q[1]
  OBVIOUS
<1> QED
  BY <1>1, <1>2, <1>3

LEMMA QueueAppend ==
    ASSUME NEW q \in Seq(Messages), NEW m \in Messages
    PROVE  /\ Len(q) \in Nat
           /\ Len(Append(q, m)) = Len(q) + 1
           /\ Append(q, m)[Len(q) + 1] = m
           /\ \A i \in 1..Len(q) : Append(q, m)[i] = q[i]
<1>1. Len(q) \in Nat
  BY LenProperties
<1> QED
  BY <1>1, AppendProperties

LEMMA QueueEmpty ==
    ASSUME NEW q \in Seq(Messages)
    PROVE  /\ Len(q) \in Nat
           /\ q = <<>> <=> Len(q) = 0
  BY EmptySeq, LenProperties

(* A message, perhaps a second one, and a last one are added.              *)
LEMMA QueueSend ==
    ASSUME NEW q \in Seq(Messages), NEW x \in Messages, NEW y \in Messages,
           NEW z \in Messages, NEW b \in BOOLEAN, NEW r,
           r = (q \o <<x>>) \o ((IF b THEN <<y>> ELSE <<>>) \o <<z>>)
    PROVE  /\ Len(q) \in Nat
           /\ Len(r) = Len(q) + (IF b THEN 3 ELSE 2)
           /\ r[Len(r)] = z
           /\ r[Len(q) + 1] = x
           /\ b => r[Len(q) + 2] = y
           /\ \A i \in 1..Len(q) : r[i] = q[i]
<1>1. /\ <<x>> \in Seq(Messages) /\ <<y>> \in Seq(Messages) /\ <<z>> \in Seq(Messages)
      /\ Len(<<x>>) = 1 /\ Len(<<y>>) = 1 /\ Len(<<z>>) = 1
      /\ <<x>>[1] = x /\ <<y>>[1] = y /\ <<z>>[1] = z
  OBVIOUS
<1>2. Len(q) \in Nat
  BY LenProperties
<1> DEFINE s == q \o <<x>>
<1>3. /\ s \in Seq(Messages) /\ Len(s) = Len(q) + 1
      /\ \A i \in 1..Len(q) + 1 : s[i] = IF i <= Len(q) THEN q[i] ELSE <<x>>[i - Len(q)]
  BY <1>1, ConcatProperties
<1>4. /\ s[Len(q) + 1] = x
      /\ \A i \in 1..Len(q) : s[i] = q[i]
  BY <1>1, <1>2, <1>3
<1> HIDE DEF s
<1>5. CASE b
  <2> DEFINE t == <<y>> \o <<z>>
  <2>1. /\ t \in Seq(Messages) /\ Len(t) = 1 + 1
        /\ \A i \in 1..1 + 1 : t[i] = IF i <= 1 THEN <<y>>[i] ELSE <<z>>[i - 1]
    BY <1>1, ConcatProperties
  <2>2. t \in Seq(Messages) /\ Len(t) = 2 /\ t[1] = y /\ t[2] = z
    BY <1>1, <2>1
  <2> HIDE DEF t
  <2>3. r = s \o t
    BY <1>5 DEF s, t
  <2>4. /\ Len(r) = Len(q) + 3
        /\ \A i \in 1..Len(q) + 3 : r[i] = IF i <= Len(q) + 1 THEN s[i] ELSE t[i - (Len(q) + 1)]
    <3>1. /\ Len(r) = Len(s) + Len(t)
          /\ \A i \in 1..Len(s) + Len(t) : r[i] = IF i <= Len(s) THEN s[i] ELSE t[i - Len(s)]
      BY <1>3, <2>2, <2>3, ConcatProperties
    <3>2. Len(s) = Len(q) + 1 /\ Len(t) = 2 /\ Len(s) + Len(t) = Len(q) + 3
      BY <1>2, <1>3, <2>2
    <3> QED
      BY <3>1, <3>2
  <2> QED
    BY <1>2, <1>4, <1>5, <2>2, <2>4
<1>6. CASE ~b
  <2>1. r = s \o (<<>> \o <<z>>)
    BY <1>6 DEF s
  <2>2. <<>> \o <<z>> = <<z>>
    BY <1>1, ConcatEmptySeq
  <2>3. r = s \o <<z>>
    BY <2>1, <2>2
  <2>4. /\ Len(r) = Len(q) + 2
        /\ \A i \in 1..Len(q) + 2 : r[i] = IF i <= Len(q) + 1 THEN s[i] ELSE <<z>>[i - (Len(q) + 1)]
    BY <1>1, <1>2, <1>3, <2>3, ConcatProperties
  <2> QED
    BY <1>1, <1>2, <1>4, <1>6, <2>4
<1> QED
  BY <1>5, <1>6

-----------------------------------------------------------------------------
(* The steps, as far as the queues can tell them apart.                    *)

Aside ==
    /\ UNCHANGED <<toEngine, fromEngine, texts, opened, doing, diagnostics, request, closing>>
    /\ \/ UNCHANGED pc
       \/ pc # "receive" /\ pc' \notin {"close", "receive", "reported", "check"}

LEMMA QueueSteps ==
    ASSUME [Next]_vars
    PROVE  \/ Aside \/ Drop("fallback") \/ Idle \/ TakeNone \/ Send \/ Receive
           \/ Reported \/ Check \/ EngineStep \/ EngineSilent
           \/ \E u \in Uris : Take(u) \/ SendClose(u) \/ EngineReports(u)
<1>1. ASSUME Caller PROVE Aside
  BY <1>1 DEF Caller, Configure, Submit, Saved, Forget, ProjectChanged, Stop, Aside,
              local, network
<1>2. ASSUME Top \/ Unavailable \/ Connecting \/ Handshake \/ Requeue \/ Announce
             \/ Continue \/ Closed \/ Fallback \/ Backoff
      PROVE  Aside
  BY <1>2 DEF Top, Unavailable, Connecting, Handshake, Requeue, Announce, Continue,
              Closed, Fallback, Backoff, Goto, Aside, network
<1>3. ASSUME Fail \/ NoReport \/ Cancel PROVE Drop("fallback")
  BY <1>3 DEF Fail, NoReport, Cancel
<1>4. ASSUME UNCHANGED vars PROVE Aside
  BY <1>4 DEF vars, local, network, Aside
<1> QED
  BY <1>1, <1>2, <1>3, <1>4 DEF Next, Worker
-----------------------------------------------------------------------------
(* Every step keeps the order on the way to the editor.                    *)

LEMMA WireStep ==
    TypeOK /\ Placed /\ Barriers /\ Wire /\ [Next]_vars => Wire'
<1> SUFFICES ASSUME TypeOK, Placed, Barriers, Wire, [Next]_vars PROVE Wire'
  OBVIOUS
<1>q. /\ toEngine \in Seq(Messages) /\ fromEngine \in Seq(Messages)
      /\ Len(toEngine) \in Nat /\ Rest \in {2, 3}
      /\ toEngine = <<>> <=> Len(toEngine) = 0
  BY QueueEmpty DEF TypeOK, Rest
<1>t. /\ texts \in [Uris -> Nat \cup {None}] /\ opened \subseteq Uris /\ pc \in Labels
      /\ doing.text \in Nat /\ doing.saved \in BOOLEAN /\ request \in Nat
  BY DEF TypeOK
<1>1. ASSUME Aside PROVE Wire'
  BY <1>1 DEF Aside, Wire, Between, Unsynced, Synced, Rest, Asking, Answering, Closes, Left,
              Barrier
<1>2. ASSUME Drop("fallback") PROVE Wire'
  <2>1. Len(toEngine') = 0 /\ pc' = "fallback" /\ opened' = {} /\ \A u \in Uris : texts'[u] = None
    BY <1>2 DEF Drop
  <2> QED
    BY <2>1 DEF Wire, Between, Unsynced, Synced, Closes, Left
<1>3. ASSUME Idle PROVE Wire'
  BY <1>3 DEF Idle, Goto, Wire, Between, Unsynced, Synced, Closes, Left
<1>4. ASSUME TakeNone \/ \E u \in Uris : Take(u) PROVE Wire'
  <2>1. /\ pc = "take" /\ pc' = "close" /\ closing' \subseteq opened
        /\ UNCHANGED <<toEngine, texts, opened>>
    BY <1>4 DEF TakeNone, Take, NoLongerOpen, network
  <2> QED
    BY <2>1 DEF Wire, Between, Unsynced, Synced, Closes, Left
<1>5. ASSUME NEW u \in Uris, SendClose(u) PROVE Wire'
  <2>1. /\ pc = "close" /\ pc' = "close" /\ u \in opened
        /\ opened' = opened \ {u} /\ closing' \subseteq opened' /\ texts' = texts
        /\ toEngine' = Append(toEngine, Message("close", u, Empty))
    BY <1>5 DEF SendClose, Wire
  <2>2. Message("close", u, Empty) \in Messages /\ Message("close", u, Empty).kind = "close"
        /\ Message("close", u, Empty).uri = u
    BY MessageType DEF Kinds, Empty
  <2>3. /\ Len(toEngine') = Len(toEngine) + 1
        /\ toEngine'[Len(toEngine) + 1].kind = "close" /\ toEngine'[Len(toEngine) + 1].uri = u
        /\ \A i \in 1..Len(toEngine) : toEngine'[i] = toEngine[i]
    BY <1>q, <2>1, <2>2, QueueAppend
  <2>4. Between
    BY <2>1 DEF Wire
  <2>5. Between'
    BY <1>q, <2>1, <2>3, <2>4 DEF Between, Closes, Left
  <2> QED
    BY <2>1, <2>5 DEF Wire, Unsynced, Synced
<1>6. ASSUME Send PROVE Wire'
  <2> DEFINE first == Message(IF doing.uri \in opened THEN "change" ELSE "open",
                              doing.uri, doing.text)
             save == Message("save", doing.uri, doing.text)
             barrier == Message("symbols", doing.uri, request + 1)
  <2>1. doing.uri \in Uris /\ pc = "send" /\ pc' = "receive"
    BY <1>6 DEF Send, Placed, InTransaction
  <2>2. first \in Messages /\ save \in Messages /\ barrier \in Messages
    BY <1>t, <2>1, MessageType DEF Kinds
  <2>3. toEngine' = (toEngine \o <<first>>) \o ((IF doing.saved THEN <<save>> ELSE <<>>) \o <<barrier>>)
    BY <1>6 DEF Send
  <2>4. /\ texts' = texts /\ doing' = doing /\ request' = request + 1
        /\ opened' = opened \cup {doing.uri}
    BY <1>6 DEF Send
  <2>5. barrier = Barrier' /\ Rest' = Rest
    BY <2>4 DEF Barrier, Rest
  <2> HIDE DEF first, save, barrier
  <2>6. /\ Len(toEngine') = Len(toEngine) + Rest
        /\ toEngine'[Len(toEngine')] = barrier /\ toEngine'[Len(toEngine) + 1] = first
        /\ doing.saved => toEngine'[Len(toEngine) + 2] = save
        /\ \A i \in 1..Len(toEngine) : toEngine'[i] = toEngine[i]
    BY <1>q, <1>t, <2>2, <2>3, QueueSend DEF Rest
  <2>7. Between
    BY <2>1 DEF Wire
  <2>8. PICK n \in Nat : n = Len(toEngine)
    BY <1>q
  <2>9. n = Len(toEngine') - Rest' /\ Rest' \in {2, 3}
    BY <1>q, <2>5, <2>6, <2>8
  <2>10. Left(n)' = Left(n) /\ Closes(n)'
    BY <2>4, <2>6, <2>7, <2>8 DEF Between, Closes, Left
  <2>11. toEngine'[n + 1] = Message(IF doing'.uri \in Left(n)' THEN "change" ELSE "open",
                                    doing'.uri, doing'.text)
    BY <2>4, <2>6, <2>7, <2>8, <2>10 DEF Between, first
  <2>12. opened' = Left(n)' \cup {doing'.uri}
    BY <2>4, <2>7, <2>8, <2>10 DEF Between
  <2>13. Asking'
    BY <2>4, <2>5, <2>6, <2>8, <2>9, <2>10, <2>11, <2>12 DEF Asking, save
  <2>14. Unsynced' /\ ~Synced'
    BY <1>q, <2>1, <2>9 DEF Unsynced, Synced
  <2> QED
    BY <2>1, <2>13, <2>14 DEF Wire
<1>7. ASSUME Receive PROVE Wire'
  <2>1. /\ pc = "receive" /\ fromEngine # <<>>
        /\ UNCHANGED <<toEngine, texts, opened, doing, request>>
        /\ pc' = IF Answers(Head(fromEngine)) THEN "reported" ELSE "receive"
    BY <1>7 DEF Receive, bounds
  <2>2. CASE pc' = "receive"
    BY <2>1, <2>2 DEF Wire, Unsynced, Synced, Rest, Asking, Answering, Closes, Left, Barrier
  <2>3. CASE pc' = "reported"
    <3>1. fromEngine[1].kind = "answer" /\ 1 \in 1..Len(fromEngine)
      BY <1>q, <2>1, <2>3, QueueTail DEF Answers
    <3>2. Len(toEngine) = 0
      BY <1>q, <2>1, <3>1 DEF Barriers, NoAnswer
    <3>3. Answering
      BY <1>q, <2>1, <3>2 DEF Wire, Synced
    <3>4. doing.uri \in Uris
      BY <2>1 DEF Placed, InTransaction
    <3>5. doing.uri \in opened
      BY <1>t, <3>3, <3>4, NoneAssumption DEF Answering, Left
    <3> QED
      BY <1>q, <2>1, <2>3, <3>2, <3>3, <3>5
         DEF Wire, Between, Unsynced, Synced, Answering, Closes, Left
  <2> QED
    BY <2>1, <2>2, <2>3
<1>8. ASSUME Reported PROVE Wire'
  <2>1. /\ pc = "reported" /\ pc' = "check" /\ texts' = texts /\ doing.uri \in Uris
        /\ doing.uri \in opened /\ Between
    BY <1>8 DEF Reported, Wire, Placed, InTransaction, bounds
  <2>2. CASE UNCHANGED <<toEngine, opened>>
    BY <2>1, <2>2 DEF Wire, Between, Unsynced, Synced, Closes, Left
  <2>3. CASE ~ UNCHANGED <<toEngine, opened>>
    <3> DEFINE m == Message("close", doing.uri, Empty)
    <3>1. toEngine' = Append(toEngine, m) /\ opened' = opened \ {doing.uri}
      BY <1>8, <2>3 DEF Reported
    <3>2. m \in Messages /\ m.kind = "close" /\ m.uri = doing.uri
      BY <2>1, MessageType DEF Kinds, Empty
    <3> HIDE DEF m
    <3>3. /\ Len(toEngine') = Len(toEngine) + 1
          /\ toEngine'[Len(toEngine) + 1] = m
          /\ \A i \in 1..Len(toEngine) : toEngine'[i] = toEngine[i]
      BY <1>q, <3>1, <3>2, QueueAppend
    <3>4. Between'
      BY <1>q, <2>1, <3>1, <3>2, <3>3 DEF Between, Closes, Left
    <3> QED
      BY <2>1, <3>4 DEF Wire, Unsynced, Synced
  <2> QED
    BY <2>2, <2>3
<1>9. ASSUME Check PROVE Wire'
  BY <1>9 DEF Check, Wire, Between, Unsynced, Synced, Closes, Left, network, bounds
<1>10. ASSUME NEW u \in Uris, EngineReports(u) PROVE Wire'
  BY <1>10 DEF EngineReports, Wire, Between, Unsynced, Synced, Rest, Asking, Answering, Closes,
               Left, Barrier, local
<1>11. ASSUME EngineStep \/ EngineSilent PROVE Wire'
  <2> DEFINE m == Head(toEngine)
  <2>1. /\ UNCHANGED <<pc, opened, closing, doing, request>> /\ Rest' = Rest
        /\ toEngine # <<>> /\ toEngine' = Tail(toEngine)
    BY <1>11 DEF EngineStep, EngineSilent, local, Rest
  <2>2. /\ Len(toEngine) \in Nat \ {0} /\ Len(toEngine') = Len(toEngine) - 1
        /\ m = toEngine[1] /\ m.uri \in Uris
        /\ \A i \in 1..Len(toEngine') : toEngine'[i] = toEngine[i + 1]
    BY <1>q, <2>1, QueueTail, QueueType
  <2>3. /\ m.kind = "close" => texts' = [texts EXCEPT ![m.uri] = None]
        /\ m.kind \in {"open", "change"} => texts' = [texts EXCEPT ![m.uri] = m.text]
        /\ m.kind \in {"save", "symbols"} => texts' = texts
    BY <1>11 DEF EngineStep, EngineSilent
  <2> HIDE DEF m
  <2>4. ASSUME NEW n \in Nat, n >= 1, Closes(n), n <= Len(toEngine)
        PROVE  Closes(n - 1)' /\ Left(n - 1)' = Left(n)
    <3>1. m.kind = "close" /\ texts' = [texts EXCEPT ![m.uri] = None]
      BY <2>2, <2>3, <2>4 DEF Closes
    <3>2. \A i \in 1..n - 1 : i + 1 \in 1..n /\ toEngine'[i] = toEngine[i + 1]
      BY <2>2, <2>4
    <3>3. \A i \in 1..n - 1 : toEngine'[i].kind = "close" /\ toEngine'[i].uri # m.uri
                             /\ texts[toEngine'[i].uri] # None
      <4> SUFFICES ASSUME NEW i \in 1..n - 1
                   PROVE  /\ toEngine'[i].kind = "close" /\ toEngine'[i].uri # m.uri
                          /\ texts[toEngine'[i].uri] # None
        OBVIOUS
      <4>1. 1 \in 1..n /\ i + 1 \in 1..n /\ i + 1 # 1
        BY <2>4
      <4>2. toEngine[i + 1].uri # toEngine[1].uri
        BY <2>4, <4>1 DEF Closes
      <4> QED
        BY <2>2, <2>4, <3>2, <4>1, <4>2 DEF Closes
    <3>4. Closes(n - 1)'
      <4>1. \A i \in 1..n - 1 : toEngine'[i].uri = m.uri \/ texts'[toEngine'[i].uri] = texts[toEngine'[i].uri]
        BY <1>t, <3>1
      <4>2. ASSUME NEW i \in 1..n - 1, NEW j \in 1..n - 1, toEngine'[i].uri = toEngine'[j].uri
            PROVE  i = j
        <5>1. i + 1 \in 1..n /\ j + 1 \in 1..n /\ toEngine[i + 1].uri = toEngine[j + 1].uri
          BY <3>2, <4>2
        <5>2. i + 1 = j + 1
          BY <2>4, <5>1 DEF Closes
        <5> QED
          BY <5>2
      <4> QED
        BY <3>3, <4>1, <4>2 DEF Closes
    <3>5. Left(n - 1)' = Left(n)
      <4>1. ASSUME NEW u \in Uris PROVE u \in Left(n - 1)' <=> u \in Left(n)
        <5>1. \A i \in 1..n : i = 1 \/ i - 1 \in 1..n - 1
          BY <2>4
        <5>2. (\A i \in 1..n : toEngine[i].uri # u)
                <=> u # m.uri /\ \A i \in 1..n - 1 : toEngine'[i].uri # u
          <6>1. ASSUME \A i \in 1..n : toEngine[i].uri # u
                PROVE  u # m.uri /\ \A i \in 1..n - 1 : toEngine'[i].uri # u
            BY <2>2, <2>4, <3>2, <6>1
          <6>2. ASSUME u # m.uri, \A i \in 1..n - 1 : toEngine'[i].uri # u, NEW i \in 1..n
                PROVE  toEngine[i].uri # u
            <7>1. CASE i = 1
              BY <2>2, <6>2, <7>1
            <7>2. CASE i # 1
              <8>1. i - 1 \in 1..n - 1 /\ (i - 1) + 1 = i
                BY <5>1, <7>2
              <8> QED
                BY <3>2, <6>2, <8>1
            <7> QED
              BY <7>1, <7>2
          <6> QED
            BY <6>1, <6>2
        <5>3. texts'[u] # None <=> texts[u] # None /\ u # m.uri
          BY <1>t, <2>2, <3>1
        <5> QED
          BY <5>2, <5>3 DEF Left
      <4> QED
        BY <4>1 DEF Left
    <3> QED
      BY <3>4, <3>5
  <2>5. CASE pc # "receive"
    <3>1. PICK n \in Nat : n = Len(toEngine) /\ n >= 1 /\ n - 1 = Len(toEngine')
      BY <2>2
    <3>2. Closes(n) /\ opened = Left(n)
      BY <2>5, <3>1 DEF Wire, Between
    <3>3. Closes(n - 1)' /\ Left(n - 1)' = Left(n)
      BY <2>4, <3>1, <3>2
    <3>4. Between'
      BY <2>1, <3>1, <3>2, <3>3 DEF Between
    <3> QED
      BY <2>1, <2>5, <3>4 DEF Wire, Unsynced, Synced
  <2>6. CASE Unsynced /\ Len(toEngine) > Rest
    <3>1. PICK n \in Nat : n = Len(toEngine) - Rest /\ n >= 1
      BY <1>q, <2>6 DEF Unsynced
    <3>2. /\ Closes(n)
          /\ toEngine[n + 1] = Message(IF doing.uri \in Left(n) THEN "change" ELSE "open",
                                        doing.uri, doing.text)
          /\ doing.saved => toEngine[n + 2] = Message("save", doing.uri, doing.text)
          /\ toEngine[Len(toEngine)] = Barrier
          /\ opened = Left(n) \cup {doing.uri}
      BY <2>6, <3>1 DEF Wire, Asking
    <3>3. Closes(n - 1)' /\ Left(n - 1)' = Left(n)
      BY <1>q, <2>4, <3>1, <3>2
    <3>4. /\ n - 1 = Len(toEngine') - Rest' /\ toEngine'[n] = toEngine[n + 1]
          /\ toEngine'[Len(toEngine')] = toEngine[Len(toEngine)]
          /\ doing.saved => toEngine'[n + 1] = toEngine[n + 2]
      <4>1. PICK k \in Nat, r \in {2, 3} : k = Len(toEngine) /\ r = Rest /\ n = k - r
        BY <1>q, <3>1
      <4>2. Len(toEngine') = k - 1 /\ n - 1 = Len(toEngine') - Rest' /\ n + r = k
        BY <2>1, <2>2, <3>1, <4>1
      <4>3. n \in 1..Len(toEngine') /\ Len(toEngine') \in 1..Len(toEngine') /\ n + 1 \in 1..Len(toEngine')
        BY <3>1, <4>1, <4>2
      <4>4. \A i \in 1..Len(toEngine') : toEngine'[i] = toEngine[i + 1]
        BY <2>2
      <4>5. toEngine'[n] = toEngine[n + 1] /\ toEngine'[n + 1] = toEngine[(n + 1) + 1]
            /\ toEngine'[Len(toEngine')] = toEngine[Len(toEngine') + 1]
        BY <4>3, <4>4
      <4>6. (n + 1) + 1 = n + 2 /\ Len(toEngine') + 1 = Len(toEngine)
        BY <4>1, <4>2
      <4> QED
        BY <4>2, <4>5, <4>6
    <3>5. Asking'
      <4>1. (n - 1) + 1 = n /\ (n - 1) + 2 = n + 1 /\ Barrier' = Barrier
        BY <2>1, <3>1 DEF Barrier
      <4> QED
        BY <2>1, <3>2, <3>3, <3>4, <4>1 DEF Asking
    <3>6. Unsynced' /\ ~Synced'
      BY <1>q, <2>1, <2>2, <2>6 DEF Unsynced, Synced
    <3> QED
      BY <2>1, <2>6, <3>5, <3>6 DEF Wire, Unsynced
  <2>7. CASE Unsynced /\ Len(toEngine) = Rest
    <3>1. /\ m = Message(IF doing.uri \in Left(0) THEN "change" ELSE "open", doing.uri, doing.text)
          /\ doing.saved => toEngine[2] = Message("save", doing.uri, doing.text)
          /\ toEngine[Len(toEngine)] = Barrier
          /\ opened = Left(0) \cup {doing.uri}
      BY <1>q, <2>2, <2>7 DEF Wire, Asking
    <3>2. doing.uri \in Uris
      BY <2>7 DEF Unsynced, Placed, InTransaction
    <3>3. m.kind \in {"open", "change"} /\ m.uri = doing.uri /\ m.text = doing.text
      BY <1>t, <3>1, <3>2, MessageType DEF Kinds
    <3>4. texts' = [texts EXCEPT ![doing.uri] = doing.text] /\ doing.text # None
      BY <1>t, <2>3, <3>3, NoneAssumption
    <3>5. Left(0)' = Left(0) \cup {doing.uri}
      BY <1>t, <3>2, <3>4 DEF Left
    <3>6. texts'[doing.uri] = doing.text
      BY <1>t, <3>2, <3>4
    <3>7. /\ toEngine'[Len(toEngine')] = toEngine[Len(toEngine)]
          /\ Len(toEngine') = 2 => doing.saved /\ toEngine'[1] = toEngine[2]
      BY <1>q, <2>2, <2>7 DEF Rest
    <3>8. Answering'
      BY <2>1, <3>1, <3>5, <3>6, <3>7 DEF Answering, Barrier
    <3>9. Synced' /\ ~Unsynced'
      BY <1>q, <2>1, <2>2, <2>7 DEF Unsynced, Synced
    <3> QED
      BY <2>1, <2>7, <3>8, <3>9 DEF Wire, Unsynced
  <2>8. CASE Synced
    <3>1. Len(toEngine) \in {1, 2} /\ doing.uri \in Uris
      BY <1>q, <2>2, <2>8 DEF Synced, Placed, InTransaction
    <3>2. m = Barrier \/ m = Message("save", doing.uri, doing.text)
      BY <2>2, <2>8, <3>1 DEF Wire, Answering
    <3>3. m.kind \in {"save", "symbols"}
      BY <1>t, <3>1, <3>2, MessageType DEF Kinds, Barrier
    <3>4. texts' = texts
      BY <2>3, <3>3
    <3>5. ASSUME Len(toEngine') = 1 PROVE toEngine'[1] = toEngine[2] /\ Len(toEngine) = 2
      <4>1. 1 \in 1..Len(toEngine') /\ Len(toEngine) = 2
        <5>1. Len(toEngine) - 1 = 1
          BY <2>2, <3>5
        <5>2. 1 \in 1..Len(toEngine')
          BY <3>5
        <5> QED
          BY <1>q, <5>1, <5>2
      <4>2. toEngine'[1] = toEngine[1 + 1]
        BY <2>2, <4>1
      <4> QED
        BY <4>1, <4>2
    <3>6. toEngine' # <<>> => Len(toEngine') = 1
      BY <2>1, <2>2, <3>1, QueueType, QueueEmpty, <1>q
    <3>7. Answering'
      BY <2>1, <2>2, <2>8, <3>1, <3>4, <3>5, <3>6 DEF Wire, Answering, Left, Barrier
    <3>8. Synced' /\ ~Unsynced'
      BY <1>q, <2>1, <2>2, <2>8 DEF Unsynced, Synced
    <3> QED
      BY <2>1, <2>8, <3>7, <3>8 DEF Wire, Synced
  <2> QED
    BY <1>q, <2>5, <2>6, <2>7, <2>8 DEF Unsynced, Synced
<1> QED
  BY <1>1, <1>2, <1>3, <1>4, <1>5, <1>6, <1>7, <1>8, <1>9, <1>10, <1>11, QueueSteps
-----------------------------------------------------------------------------
(* What the editor deals with next.                                        *)

LEMMA NextMessage ==
    ASSUME TypeOK, Placed, Wire, toEngine # <<>>, NEW m, m = Head(toEngine)
    PROVE  \/ /\ pc # "receive" \/ (Unsynced /\ Len(toEngine) # Rest)
              /\ m.kind = "close" /\ texts[m.uri] # None
           \/ /\ Unsynced /\ Len(toEngine) = Rest
              /\ m.kind = IF texts[doing.uri] = None THEN "open" ELSE "change"
              /\ m.uri = doing.uri /\ m.text = doing.text
           \/ /\ Synced /\ Len(toEngine) = 2 /\ texts[doing.uri] = doing.text
              /\ m = Message("save", doing.uri, doing.text)
           \/ /\ Synced /\ Len(toEngine) = 1 /\ texts[doing.uri] = doing.text
              /\ m = Barrier
<1>1. /\ toEngine \in Seq(Messages) /\ Len(toEngine) \in Nat \ {0} /\ m = toEngine[1]
      /\ Rest \in {2, 3} /\ doing.text \in Nat
  BY QueueTail DEF TypeOK, Rest
<1>2. CASE pc # "receive"
  BY <1>1, <1>2 DEF Wire, Between, Closes
<1>3. CASE Unsynced /\ Len(toEngine) # Rest
  <2>1. PICK n \in Nat : n = Len(toEngine) - Rest /\ n >= 1
    BY <1>1, <1>3 DEF Unsynced
  <2> QED
    BY <1>1, <1>3, <2>1 DEF Wire, Asking, Closes
<1>4. CASE Unsynced /\ Len(toEngine) = Rest
  <2>1. doing.uri \in Uris
    BY <1>4 DEF Unsynced, Placed, InTransaction
  <2>2. m = Message(IF doing.uri \in Left(0) THEN "change" ELSE "open", doing.uri, doing.text)
    BY <1>1, <1>4 DEF Wire, Asking
  <2>3. doing.uri \in Left(0) <=> texts[doing.uri] # None
    BY <2>1 DEF Left
  <2> QED
    BY <1>1, <1>4, <2>1, <2>2, <2>3, MessageType DEF Kinds
<1>5. CASE Synced
  <2>1. Len(toEngine) \in {1, 2}
    <3>1. PICK k \in Nat \ {0}, r \in {2, 3} : k = Len(toEngine) /\ r = Rest
      BY <1>1
    <3>2. k < r
      BY <1>5, <3>1 DEF Synced
    <3> QED
      BY <3>1, <3>2
  <2> QED
    BY <1>1, <1>5, <2>1 DEF Wire, Answering
<1> QED
  BY <1>1, <1>2, <1>3, <1>4, <1>5 DEF Unsynced, Synced

(* Every step keeps the barrier's answer the only one.                     *)
LEMMA BarriersStep ==
    TypeOK /\ Placed /\ Wire /\ Barriers /\ [Next]_vars => Barriers'
<1> SUFFICES ASSUME TypeOK, Placed, Wire, Barriers, [Next]_vars PROVE Barriers'
  OBVIOUS
<1>q. /\ toEngine \in Seq(Messages) /\ fromEngine \in Seq(Messages)
      /\ Len(fromEngine) \in Nat /\ Rest \in {2, 3}
      /\ Len(toEngine) \in Nat /\ (toEngine = <<>> <=> Len(toEngine) = 0)
      /\ doing.uri \in Uris \cup {None} /\ request \in Nat
      /\ texts \in [Uris -> Nat \cup {None}]
  BY QueueEmpty DEF TypeOK, Rest
<1> DEFINE Reply(m) == fromEngine' = Append(fromEngine, m)
<1>a. ASSUME NEW m \in Messages, Reply(m)
      PROVE  /\ Len(fromEngine') = Len(fromEngine) + 1 /\ fromEngine'[Len(fromEngine) + 1] = m
             /\ \A i \in 1..Len(fromEngine) : fromEngine'[i] = fromEngine[i]
  BY <1>q, <1>a, QueueAppend
<1>1. ASSUME Aside PROVE Barriers'
  BY <1>1 DEF Aside, Barriers, NoAnswer, OneAnswer
<1>2. ASSUME Drop("fallback") PROVE Barriers'
  <2>1. Len(fromEngine') = 0 /\ pc' = "fallback"
    BY <1>2 DEF Drop
  <2> QED
    BY <2>1 DEF Barriers, NoAnswer
<1>3. ASSUME Idle PROVE Barriers'
  <2>1. /\ pc # "receive" /\ pc' # "receive"
        /\ \/ fromEngine' = fromEngine
           \/ fromEngine # <<>> /\ fromEngine' = Tail(fromEngine)
    BY <1>3 DEF Idle, Goto
  <2>2. NoAnswer'
    <3>1. NoAnswer
      BY <2>1 DEF Barriers
    <3>2. CASE fromEngine # <<>> /\ fromEngine' = Tail(fromEngine)
      <4>1. /\ Len(fromEngine) \in Nat \ {0} /\ Len(fromEngine') = Len(fromEngine) - 1
            /\ \A i \in 1..Len(fromEngine') : fromEngine'[i] = fromEngine[i + 1]
        BY <1>q, <3>2, QueueTail
      <4> QED
        BY <3>1, <4>1 DEF NoAnswer
    <3> QED
      BY <2>1, <3>1, <3>2 DEF NoAnswer
  <2> QED
    BY <2>1, <2>2 DEF Barriers
<1>4. ASSUME TakeNone \/ Check \/ (\E u \in Uris : Take(u) \/ SendClose(u)) PROVE Barriers'
  BY <1>4 DEF TakeNone, Check, Take, SendClose, Barriers, NoAnswer, network
<1>5. ASSUME Reported PROVE Barriers'
  BY <1>5 DEF Reported, Barriers, NoAnswer
<1>6. ASSUME Send PROVE Barriers'
  <2> DEFINE first == Message(IF doing.uri \in opened THEN "change" ELSE "open",
                              doing.uri, doing.text)
             save == Message("save", doing.uri, doing.text)
             barrier == Message("symbols", doing.uri, request + 1)
  <2>1. /\ doing.uri \in Uris /\ pc = "send" /\ UNCHANGED fromEngine /\ doing.text \in Nat
        /\ toEngine' = (toEngine \o <<first>>) \o ((IF doing.saved THEN <<save>> ELSE <<>>) \o <<barrier>>)
    BY <1>6 DEF Send, Placed, InTransaction, TypeOK
  <2>2. first \in Messages /\ save \in Messages /\ barrier \in Messages /\ doing.saved \in BOOLEAN
    BY <1>q, <2>1, MessageType DEF Kinds, TypeOK
  <2> HIDE DEF first, save, barrier
  <2>3. Len(toEngine') = Len(toEngine) + (IF doing.saved THEN 3 ELSE 2)
    BY <1>q, <2>1, <2>2, QueueSend
  <2>4. toEngine' # <<>>
    BY <1>q, <2>2, <2>3
  <2> QED
    BY <2>1, <2>4 DEF Barriers, NoAnswer
<1>7. ASSUME Receive PROVE Barriers'
  <2>1. /\ pc = "receive" /\ fromEngine # <<>> /\ fromEngine' = Tail(fromEngine)
        /\ UNCHANGED <<toEngine, request>>
        /\ pc' = IF Answers(Head(fromEngine)) THEN "reported" ELSE "receive"
    BY <1>7 DEF Receive, bounds
  <2>2. /\ Len(fromEngine) \in Nat \ {0} /\ Len(fromEngine') = Len(fromEngine) - 1
        /\ Head(fromEngine) = fromEngine[1]
        /\ \A i \in 1..Len(fromEngine') : i + 1 \in 1..Len(fromEngine) /\ i + 1 # 1
                                          /\ fromEngine'[i] = fromEngine[i + 1]
    BY <1>q, <2>1, QueueTail
  <2>3. CASE toEngine # <<>>
    <3>1. ~Answers(Head(fromEngine))
      BY <2>1, <2>2, <2>3 DEF Barriers, NoAnswer, Answers
    <3>2. NoAnswer'
      BY <2>1, <2>2, <2>3 DEF Barriers, NoAnswer
    <3> QED
      BY <2>1, <2>3, <3>1, <3>2 DEF Barriers
  <2>4. CASE toEngine = <<>>
    <3>1. PICK x \in 1..Len(fromEngine) :
            /\ fromEngine[x].kind = "answer" /\ fromEngine[x].text = request
            /\ \A i \in 1..Len(fromEngine) : i # x => fromEngine[i].kind # "answer"
      BY <2>1, <2>4 DEF Barriers, OneAnswer
    <3>2. CASE x = 1
      <4>1. Answers(Head(fromEngine)) /\ NoAnswer'
        BY <2>2, <3>1, <3>2 DEF Answers, NoAnswer
      <4> QED
        BY <2>1, <4>1 DEF Barriers
    <3>3. CASE x # 1
      <4>1. ~Answers(Head(fromEngine))
        BY <2>2, <3>1, <3>3 DEF Answers
      <4>2. x - 1 \in 1..Len(fromEngine') /\ (x - 1) + 1 = x
        BY <2>2, <3>1, <3>3
      <4>3. fromEngine'[x - 1] = fromEngine[x]
        BY <2>2, <4>2
      <4>4. \A i \in 1..Len(fromEngine') : i # x - 1 => fromEngine'[i].kind # "answer"
        BY <2>2, <3>1
      <4>5. OneAnswer'
        BY <2>1, <3>1, <4>2, <4>3, <4>4 DEF OneAnswer
      <4> QED
        BY <2>1, <2>4, <4>1, <4>5 DEF Barriers
    <3> QED
      BY <3>2, <3>3
  <2> QED
    BY <2>3, <2>4
<1>8. ASSUME NEW u \in Uris, EngineReports(u) PROVE Barriers'
  <2>1. /\ UNCHANGED <<toEngine, pc, request>>
        /\ Reply(Message("publish", u, texts[u])) /\ texts[u] \in Nat
    BY <1>q, <1>8 DEF EngineReports, local
  <2>2. Message("publish", u, texts[u]) \in Messages /\ Message("publish", u, texts[u]).kind = "publish"
    BY <2>1, MessageType DEF Kinds
  <2>3. /\ Len(fromEngine') = Len(fromEngine) + 1
        /\ fromEngine'[Len(fromEngine) + 1].kind # "answer"
        /\ \A i \in 1..Len(fromEngine) : fromEngine'[i] = fromEngine[i]
    BY <1>a, <2>1, <2>2
  <2> HIDE DEF Reply
  <2>4. Len(fromEngine) \in Nat /\ UNCHANGED <<toEngine, pc, request>>
    BY <1>q, <2>1
  <2>5. ASSUME NoAnswer PROVE NoAnswer'
    BY <2>3, <2>4, <2>5 DEF NoAnswer
  <2>6. ASSUME OneAnswer PROVE OneAnswer'
    <3>1. PICK x \in 1..Len(fromEngine) :
             /\ fromEngine[x].kind = "answer" /\ fromEngine[x].text = request
             /\ \A i \in 1..Len(fromEngine) : i # x => fromEngine[i].kind # "answer"
      BY <2>6 DEF OneAnswer
    <3>2. x \in 1..Len(fromEngine') /\ fromEngine'[x] = fromEngine[x]
      BY <2>3, <2>4, <3>1
    <3>3. \A i \in 1..Len(fromEngine') : i # x => fromEngine'[i].kind # "answer"
      BY <2>3, <2>4, <3>1
    <3> QED
      BY <2>4, <3>1, <3>2, <3>3 DEF OneAnswer
  <2> QED
    BY <2>4, <2>5, <2>6 DEF Barriers
<1>9. ASSUME EngineStep \/ EngineSilent PROVE Barriers'
  <2> DEFINE m == Head(toEngine)
  <2>1. /\ UNCHANGED <<pc, doing, request>> /\ toEngine # <<>> /\ toEngine' = Tail(toEngine)
    BY <1>9 DEF EngineStep, EngineSilent, local
  <2>2. /\ m.uri \in Uris /\ m.text \in Nat /\ Len(toEngine) \in Nat \ {0}
        /\ Len(toEngine') = Len(toEngine) - 1 /\ toEngine' \in Seq(Messages)
    BY <1>q, <2>1, QueueType, QueueTail
  <2>3. CASE m.kind = "symbols"
    <3>1. /\ pc = "receive" /\ Len(toEngine) = 1 /\ m.text = request
      BY <2>1, <2>3, NextMessage DEF Synced, Barrier, Message
    <3>2. Reply(Message("answer", m.uri, m.text))
      BY <1>9, <2>3 DEF EngineStep, EngineSilent
    <3>3. /\ Message("answer", m.uri, m.text) \in Messages
          /\ Message("answer", m.uri, m.text).kind = "answer"
          /\ Message("answer", m.uri, m.text).text = request
      BY <2>2, <3>1, MessageType DEF Kinds
    <3>4. /\ Len(fromEngine') = Len(fromEngine) + 1
          /\ fromEngine'[Len(fromEngine) + 1].kind = "answer"
          /\ fromEngine'[Len(fromEngine) + 1].text = request
          /\ \A i \in 1..Len(fromEngine) : fromEngine'[i] = fromEngine[i]
      BY <1>a, <3>2, <3>3
    <3>5. NoAnswer
      BY <2>1 DEF Barriers
    <3>6. OneAnswer'
      <4>1. Len(fromEngine) + 1 \in 1..Len(fromEngine')
        BY <1>q, <3>4
      <4> HIDE DEF Reply
      <4> QED
        <5>1. ASSUME NEW i \in 1..Len(fromEngine'), i # Len(fromEngine) + 1
              PROVE  fromEngine'[i].kind # "answer"
          <6>1. i \in 1..Len(fromEngine)
            BY <1>q, <3>4, <5>1
          <6> QED
            BY <3>4, <3>5, <6>1 DEF NoAnswer
        <5> QED
          BY <2>1, <3>4, <4>1, <5>1 DEF OneAnswer
    <3>7. Len(toEngine') = 0
      BY <2>2, <3>1
    <3>8. toEngine' = <<>>
      BY <2>2, <3>7, QueueEmpty
    <3> QED
      BY <2>1, <3>1, <3>6, <3>8 DEF Barriers
  <2>4. CASE m.kind # "symbols"
    <3>1. \/ UNCHANGED fromEngine
          \/ \E t \in Nat : Reply(Message("publish", m.uri, t))
      BY <1>9, <2>2, <2>4 DEF EngineStep, EngineSilent, Empty
    <3>2. ASSUME NEW t \in Nat, Reply(Message("publish", m.uri, t)), NoAnswer PROVE NoAnswer'
      <4>1. Message("publish", m.uri, t) \in Messages /\ Message("publish", m.uri, t).kind = "publish"
        BY <2>2, MessageType DEF Kinds
      <4>2. /\ Len(fromEngine') = Len(fromEngine) + 1
            /\ fromEngine'[Len(fromEngine) + 1].kind # "answer"
            /\ \A i \in 1..Len(fromEngine) : fromEngine'[i] = fromEngine[i]
        BY <1>a, <3>2, <4>1
      <4> HIDE DEF Reply
      <4> QED
        BY <1>q, <3>2, <4>2 DEF NoAnswer
    <3>3. NoAnswer
      BY <2>1 DEF Barriers
    <3>4. NoAnswer'
      BY <3>1, <3>2, <3>3 DEF NoAnswer
    <3>5. pc = "receive" => Len(toEngine') # 0
      <4>1. ASSUME pc = "receive" PROVE Len(toEngine) >= 2
        <5>1. m # Barrier
          BY <2>4 DEF Barrier, Message
        <5>2. Unsynced \/ Len(toEngine) = 2
          BY <2>1, <4>1, <5>1, NextMessage
        <5>3. PICK k \in Nat, r \in {2, 3} : k = Len(toEngine) /\ r = Rest
          BY <1>q
        <5> QED
          BY <5>2, <5>3 DEF Unsynced
      <4> QED
        BY <2>2, <4>1
    <3>6. pc' = "receive" => toEngine' # <<>>
      BY <2>1, <2>2, <3>5, QueueEmpty
    <3> QED
      BY <3>4, <3>6 DEF Barriers
  <2> QED
    BY <2>3, <2>4
<1> QED
  BY <1>1, <1>2, <1>3, <1>4, <1>5, <1>6, <1>7, <1>8, <1>9, QueueSteps
(* Every step keeps a quiet editor quiet.                                  *)
LEMMA QuietStep ==
    TypeOK /\ Placed /\ Wire /\ Barriers /\ Quiet /\ [Next]_vars => Quiet'
<1> SUFFICES ASSUME TypeOK, Placed, Wire, Barriers, Quiet, [Next]_vars, "again" \notin Habits
             PROVE  Quiet'
  BY DEF Quiet
<1>q. /\ toEngine \in Seq(Messages) /\ fromEngine \in Seq(Messages)
      /\ Len(fromEngine) \in Nat /\ Rest \in {2, 3}
      /\ Len(toEngine) \in Nat /\ (toEngine = <<>> <=> Len(toEngine) = 0)
  BY QueueEmpty DEF TypeOK, Rest
<1>1. ASSUME Aside PROVE Quiet'
  BY <1>1 DEF Aside, Quiet, Unsynced, Rest
<1>2. ASSUME Drop("fallback") PROVE Quiet'
  BY <1>2 DEF Drop, Quiet, Unsynced
<1>3. ASSUME Idle PROVE Quiet'
  BY <1>3 DEF Idle, Goto, Quiet, Unsynced
<1>4. ASSUME TakeNone \/ Check \/ Reported \/ (\E u \in Uris : Take(u) \/ SendClose(u)) PROVE Quiet'
  BY <1>4 DEF TakeNone, Check, Reported, Take, SendClose, Quiet, Unsynced, network
<1>5. ASSUME Send PROVE Quiet'
  <2> DEFINE first == Message(IF doing.uri \in opened THEN "change" ELSE "open",
                              doing.uri, doing.text)
             save == Message("save", doing.uri, doing.text)
             barrier == Message("symbols", doing.uri, request + 1)
  <2>1. /\ doing.uri \in Uris /\ pc = "send" /\ UNCHANGED <<fromEngine, doing>> /\ diagnostics' = None
        /\ doing.text \in Nat /\ doing.saved \in BOOLEAN /\ request \in Nat
        /\ toEngine' = (toEngine \o <<first>>) \o ((IF doing.saved THEN <<save>> ELSE <<>>) \o <<barrier>>)
    BY <1>5 DEF Send, Placed, InTransaction, TypeOK
  <2>2. first \in Messages /\ save \in Messages /\ barrier \in Messages
    <3>1. request + 1 \in Nat
      BY <2>1
    <3> QED
      BY <2>1, <3>1, MessageType DEF Kinds
  <2> HIDE DEF first, save, barrier
  <2>3. Len(toEngine') = Len(toEngine) + (IF doing.saved THEN 3 ELSE 2)
    BY <1>q, <2>1, <2>2, QueueSend
  <2>4. toEngine' # <<>>
    BY <1>q, <2>1, <2>3
  <2>5. fromEngine = <<>>
    BY <2>1 DEF Quiet
  <2> QED
    BY <2>1, <2>4, <2>5 DEF Quiet
<1>6. ASSUME Receive PROVE Quiet'
  <2>1. /\ pc = "receive" /\ fromEngine # <<>> /\ fromEngine' = Tail(fromEngine)
        /\ UNCHANGED <<toEngine, doing, request>> /\ Rest' = Rest
        /\ pc' = IF Answers(Head(fromEngine)) THEN "reported" ELSE "receive"
    BY <1>6 DEF Receive, bounds, Rest
  <2>2. /\ Len(fromEngine) \in Nat \ {0} /\ Len(fromEngine') = Len(fromEngine) - 1
        /\ Head(fromEngine) = fromEngine[1] /\ fromEngine' \in Seq(Messages)
        /\ \A i \in 1..Len(fromEngine') : fromEngine'[i] = fromEngine[i + 1]
    BY <1>q, <2>1, QueueTail, QueueType
  <2>3. ~Unsynced
    BY <2>1 DEF Quiet
  <2>4. CASE toEngine # <<>>
    <3>1. ~Answers(Head(fromEngine))
      BY <2>1, <2>2, <2>4 DEF Barriers, NoAnswer, Answers
    <3> QED
      BY <2>1, <2>3, <2>4, <3>1 DEF Quiet, Unsynced
  <2>5. CASE toEngine = <<>>
    <3>1. PICK x \in 1..Len(fromEngine) :
            /\ fromEngine[x].kind = "answer" /\ fromEngine[x].text = request
            /\ \A i \in 1..Len(fromEngine) : i # x => fromEngine[i].kind # "answer"
      BY <2>1, <2>5 DEF Barriers, OneAnswer
    <3>2. x = Len(fromEngine)
      <4>1. fromEngine[Len(fromEngine)].kind = "answer" /\ Len(fromEngine) \in 1..Len(fromEngine)
        BY <2>1, <2>2, <2>5 DEF Quiet
      <4> QED
        BY <3>1, <4>1
    <3>3. CASE x = 1
      <4>1. Answers(Head(fromEngine)) /\ Len(fromEngine') = 0
        BY <2>2, <3>1, <3>2, <3>3 DEF Answers
      <4>2. fromEngine' = <<>>
        BY <2>2, <4>1, QueueEmpty
      <4> QED
        BY <2>1, <4>1, <4>2 DEF Quiet, Unsynced
    <3>4. CASE x # 1
      <4>1. Len(fromEngine') \in 1..Len(fromEngine') /\ Len(fromEngine') + 1 = Len(fromEngine)
        BY <2>2, <3>2, <3>4
      <4>2. fromEngine'[Len(fromEngine')] = fromEngine[Len(fromEngine)]
        BY <2>2, <4>1
      <4>3. fromEngine' # <<>>
        BY <2>2, <4>1, QueueEmpty
      <4>4. ~Answers(Head(fromEngine))
        BY <2>2, <3>1, <3>4 DEF Answers
      <4> QED
        BY <2>1, <2>3, <3>1, <3>2, <4>2, <4>3, <4>4 DEF Quiet, Unsynced
    <3> QED
      BY <3>3, <3>4
  <2> QED
    BY <2>4, <2>5
<1>7. ASSUME NEW u \in Uris, EngineReports(u) PROVE Quiet'
  BY <1>7 DEF EngineReports
<1>8. ASSUME EngineStep \/ EngineSilent PROVE Quiet'
  <2> DEFINE m == Head(toEngine)
  <2>1. /\ UNCHANGED <<pc, doing, request, diagnostics>> /\ Rest' = Rest
        /\ toEngine # <<>> /\ toEngine' = Tail(toEngine)
    BY <1>8 DEF EngineStep, EngineSilent, local, Rest
  <2>2. /\ m.uri \in Uris /\ m.text \in Nat /\ Len(toEngine) \in Nat \ {0}
        /\ Len(toEngine') = Len(toEngine) - 1 /\ toEngine' \in Seq(Messages)
    BY <1>q, <2>1, QueueType, QueueTail
  <2>3. m.kind \in {"close", "save"} => UNCHANGED fromEngine
    BY <1>8 DEF EngineStep, EngineSilent
  <2>4. CASE pc # "receive" \/ (Unsynced /\ Len(toEngine) # Rest)
    <3>1. m.kind = "close"
      <4>1. ~(Unsynced /\ Len(toEngine) = Rest)
        BY <2>4 DEF Unsynced
      <4>2. ~Synced
        <5>1. PICK k \in Nat, r \in {2, 3} : k = Len(toEngine) /\ r = Rest
          BY <1>q
        <5> QED
          BY <2>4, <5>1 DEF Synced, Unsynced
      <4> QED
        BY <2>1, <4>1, <4>2, NextMessage
    <3>2. fromEngine' = fromEngine
      BY <2>3, <3>1
    <3>3. CASE pc # "receive"
      BY <2>1, <3>2, <3>3 DEF Quiet, Unsynced
    <3>4. CASE Unsynced
      <4>1. toEngine' # <<>>
        <5>1. PICK k \in Nat, r \in {2, 3} : k = Len(toEngine) /\ r = Rest
          BY <1>q
        <5>2. Len(toEngine') # 0
          BY <2>2, <3>4, <5>1 DEF Unsynced
        <5> QED
          BY <2>2, <5>2, QueueEmpty
      <4> QED
        BY <2>1, <3>2, <3>4, <4>1 DEF Quiet, Unsynced
    <3> QED
      BY <2>4, <3>3, <3>4
  <2>5. CASE Unsynced /\ Len(toEngine) = Rest
    <3>1. ~Unsynced' /\ Len(toEngine') # 0 /\ pc = "receive"
      <4>1. PICK k \in Nat, r \in {2, 3} : k = Len(toEngine) /\ r = Rest
        BY <1>q
      <4> QED
        BY <2>1, <2>2, <2>5, <4>1 DEF Unsynced
    <3>2. toEngine' # <<>>
      BY <2>2, <3>1, QueueEmpty
    <3> QED
      BY <2>1, <3>1, <3>2 DEF Quiet
  <2>6. CASE Synced /\ Len(toEngine) = 2
    <3>1. Len(toEngine') # 0 /\ ~Unsynced'
      <4>1. Len(toEngine') = 1
        BY <2>2, <2>6
      <4>2. Rest' \in {2, 3}
        BY <1>q, <2>1
      <4> QED
        BY <4>1, <4>2 DEF Unsynced
    <3>2. toEngine' # <<>>
      BY <2>2, <3>1, QueueEmpty
    <3> QED
      BY <2>1, <2>6, <3>1, <3>2 DEF Quiet, Synced
  <2>7. CASE Synced /\ Len(toEngine) = 1 /\ m = Barrier
    <3>1. m.kind = "symbols" /\ pc = "receive" /\ ~Unsynced'
      <4>1. PICK k \in Nat, r \in {2, 3} : k = Len(toEngine) /\ r = Rest
        BY <1>q
      <4> QED
        BY <2>1, <2>2, <2>7, <4>1 DEF Unsynced, Synced, Barrier, Message
    <3>2. fromEngine' = Append(fromEngine, Message("answer", m.uri, m.text))
      BY <1>8, <3>1 DEF EngineStep, EngineSilent
    <3>3. /\ Message("answer", m.uri, m.text) \in Messages
          /\ Message("answer", m.uri, m.text).kind = "answer"
      BY <2>2, MessageType DEF Kinds
    <3>4. /\ Len(fromEngine') = Len(fromEngine) + 1 /\ fromEngine' # <<>>
          /\ fromEngine'[Len(fromEngine')].kind = "answer"
      BY <1>q, <3>2, <3>3, QueueAppend, AppendProperties
    <3> QED
      BY <2>1, <3>1, <3>4 DEF Quiet
  <2> QED
    BY <2>1, <2>4, <2>5, <2>6, <2>7, NextMessage
<1> QED
  BY <1>1, <1>2, <1>3, <1>4, <1>5, <1>6, <1>7, <1>8, QueueSteps
-----------------------------------------------------------------------------
(***************************************************************************)
(* The verdict.  Once the editor has the text, every other verdict on the  *)
(* document that the worker has or will receive is overtaken by the right  *)
(* one before the barrier is answered.                                     *)
(***************************************************************************)

Right(i) == About(fromEngine[i]) /\ fromEngine[i].text = doing.text
Wrong(i) == About(fromEngine[i]) /\ fromEngine[i].text # doing.text
Overtaken(k) ==
    \E j \in k + 1..Len(fromEngine) :
        /\ Right(j)
        /\ \A i \in 1..j : fromEngine[i].kind # "answer"

Trusted ==
    /\ Synced => /\ diagnostics \notin {None, doing.text} => Overtaken(0)
                 /\ \A k \in 1..Len(fromEngine) : Wrong(k) => Overtaken(k)
    /\ pc \in {"reported", "check"} => diagnostics = doing.text

LEMMA OvertakenTail ==
    ASSUME fromEngine \in Seq(Messages), fromEngine # <<>>, fromEngine' = Tail(fromEngine),
           doing' = doing, NEW k \in Nat, Overtaken(k + 1)
    PROVE  Overtaken(k)'
<1>1. PICK j \in (k + 1) + 1..Len(fromEngine) :
          Right(j) /\ \A i \in 1..j : fromEngine[i].kind # "answer"
  BY DEF Overtaken
<1>2. /\ Len(fromEngine) \in Nat \ {0} /\ Len(fromEngine') = Len(fromEngine) - 1
      /\ \A i \in 1..Len(fromEngine') : fromEngine'[i] = fromEngine[i + 1]
  BY QueueTail
<1>3. j - 1 \in k + 1..Len(fromEngine') /\ j - 1 \in 1..Len(fromEngine') /\ (j - 1) + 1 = j
  BY <1>1, <1>2
<1>4. fromEngine'[j - 1] = fromEngine[j]
  BY <1>2, <1>3
<1>5. Right(j - 1)'
  BY <1>1, <1>4 DEF Right, About
<1>6. ASSUME NEW i \in 1..j - 1 PROVE fromEngine'[i].kind # "answer"
  <2>1. i \in 1..Len(fromEngine') /\ i + 1 \in 1..j
    BY <1>1, <1>2, <1>3
  <2> QED
    BY <1>1, <1>2, <2>1
<1> QED
  BY <1>3, <1>5, <1>6 DEF Overtaken

LEMMA OvertakenAppend ==
    ASSUME fromEngine \in Seq(Messages), NEW m \in Messages, fromEngine' = Append(fromEngine, m),
           doing' = doing, NEW k \in Nat, Overtaken(k)
    PROVE  Overtaken(k)'
<1>1. PICK j \in k + 1..Len(fromEngine) :
          Right(j) /\ \A i \in 1..j : fromEngine[i].kind # "answer"
  BY DEF Overtaken
<1>2. /\ Len(fromEngine) \in Nat /\ Len(fromEngine') = Len(fromEngine) + 1
      /\ \A i \in 1..Len(fromEngine) : fromEngine'[i] = fromEngine[i]
  BY QueueAppend
<1>3. j \in k + 1..Len(fromEngine') /\ j \in 1..Len(fromEngine) /\ \A i \in 1..j : i \in 1..Len(fromEngine)
  BY <1>1, <1>2
<1>4. Right(j)' /\ \A i \in 1..j : fromEngine'[i].kind # "answer"
  BY <1>1, <1>2, <1>3 DEF Right, About
<1> QED
  BY <1>3, <1>4 DEF Overtaken

(* Every step keeps the verdict to be trusted.                             *)
LEMMA TrustedStep ==
    ASSUME ~("again" \in Habits /\ "silent" \in Habits)
    PROVE  TypeOK /\ Placed /\ Wire /\ Barriers /\ Quiet /\ Trusted /\ [Next]_vars => Trusted'
<1> SUFFICES ASSUME TypeOK, Placed, Wire, Barriers, Quiet, Trusted, [Next]_vars
             PROVE  Trusted'
  OBVIOUS
<1>q. /\ toEngine \in Seq(Messages) /\ fromEngine \in Seq(Messages)
      /\ Len(fromEngine) \in Nat /\ Rest \in {2, 3} /\ doing.text \in Nat
      /\ Len(toEngine) \in Nat /\ (toEngine = <<>> <=> Len(toEngine) = 0)
  BY QueueEmpty DEF TypeOK, Rest
<1>1. ASSUME Aside PROVE Trusted'
  BY <1>1 DEF Aside, Trusted, Synced, Rest, Overtaken, Right, Wrong, About
<1>2. ASSUME pc' \notin {"receive", "reported", "check"} PROVE Trusted'
  BY <1>2 DEF Trusted, Synced
<1>3. ASSUME Drop("fallback") \/ Idle \/ TakeNone \/ Check \/ (\E u \in Uris : Take(u) \/ SendClose(u))
      PROVE  pc' \notin {"receive", "reported", "check"}
  BY <1>3 DEF Drop, Idle, TakeNone, Check, Take, SendClose, Goto
<1>4. ASSUME Reported PROVE Trusted'
  BY <1>4 DEF Reported, Trusted, Synced
<1>5. ASSUME Send PROVE Trusted'
  <2> DEFINE first == Message(IF doing.uri \in opened THEN "change" ELSE "open",
                              doing.uri, doing.text)
             save == Message("save", doing.uri, doing.text)
             barrier == Message("symbols", doing.uri, request + 1)
  <2>1. /\ doing.uri \in Uris /\ pc' = "receive" /\ UNCHANGED doing
        /\ doing.text \in Nat /\ doing.saved \in BOOLEAN /\ request + 1 \in Nat
        /\ toEngine' = (toEngine \o <<first>>) \o ((IF doing.saved THEN <<save>> ELSE <<>>) \o <<barrier>>)
    BY <1>5 DEF Send, Placed, InTransaction, TypeOK
  <2>2. first \in Messages /\ save \in Messages /\ barrier \in Messages
    BY <2>1, MessageType DEF Kinds
  <2> HIDE DEF first, save, barrier
  <2>3. Len(toEngine') = Len(toEngine) + Rest /\ Rest' = Rest
    BY <1>q, <2>1, <2>2, QueueSend DEF Rest
  <2>4. ~Synced'
    BY <1>q, <2>3 DEF Synced
  <2> QED
    BY <2>1, <2>4 DEF Trusted
<1>6. ASSUME Receive PROVE Trusted'
  <2> DEFINE m == Head(fromEngine)
  <2>1. /\ pc = "receive" /\ fromEngine # <<>> /\ fromEngine' = Tail(fromEngine)
        /\ UNCHANGED <<toEngine, doing, request>> /\ Rest' = Rest
        /\ Answers(m) => diagnostics # None
        /\ diagnostics' = IF About(m) THEN m.text ELSE diagnostics
        /\ pc' = IF Answers(m) THEN "reported" ELSE "receive"
    BY <1>6 DEF Receive, bounds, Rest, ReportMissing
  <2>2. /\ Len(fromEngine) \in Nat \ {0} /\ Len(fromEngine') = Len(fromEngine) - 1
        /\ m = fromEngine[1]
        /\ \A i \in 1..Len(fromEngine') : fromEngine'[i] = fromEngine[i + 1]
    BY <1>q, <2>1, QueueTail
  <2>3. CASE Answers(m)
    <3>1. Synced
      <4>1. m.kind = "answer"
        BY <2>3 DEF Answers
      <4>2. Len(toEngine) = 0
        BY <1>q, <2>1, <2>2, <4>1 DEF Barriers, NoAnswer
      <4> QED
        BY <1>q, <2>1, <4>2 DEF Synced
    <3>2. ~Overtaken(0)
      <4>1. \A j \in 0 + 1..Len(fromEngine) : 1 \in 1..j
        OBVIOUS
      <4> QED
        BY <2>2, <2>3, <4>1 DEF Overtaken, Answers
    <3>3. diagnostics = doing.text
      BY <2>1, <2>3, <3>1, <3>2 DEF Trusted
    <3>4. diagnostics' = diagnostics
      BY <2>1, <2>3 DEF Answers, About
    <3> QED
      BY <2>1, <2>3, <3>3, <3>4 DEF Trusted, Synced
  <2>4. CASE ~Answers(m) /\ Synced
    <3>1. ASSUME NEW k \in 1..Len(fromEngine'), Wrong(k)' PROVE Overtaken(k)'
      <4>1. k + 1 \in 1..Len(fromEngine) /\ fromEngine'[k] = fromEngine[k + 1] /\ k \in Nat
        BY <2>2
      <4>2. Wrong(k + 1)
        BY <2>1, <3>1, <4>1 DEF Wrong, About
      <4>3. Overtaken(k + 1)
        BY <2>4, <4>1, <4>2 DEF Trusted
      <4> QED
        BY <1>q, <2>1, <4>1, <4>3, OvertakenTail
    <3>2. ASSUME diagnostics' \notin {None, doing.text} PROVE Overtaken(0)'
      <4>1. CASE About(m)
        <5>1. Wrong(1) /\ 1 \in 1..Len(fromEngine)
          BY <2>1, <2>2, <3>2, <4>1 DEF Wrong
        <5>2. Overtaken(0 + 1)
          BY <2>4, <5>1 DEF Trusted
        <5> QED
          BY <1>q, <2>1, <5>2, OvertakenTail
      <4>2. CASE ~About(m)
        <5>1. Overtaken(0)
          BY <2>1, <2>4, <3>2, <4>2 DEF Trusted
        <5>2. Overtaken(0 + 1)
          <6>1. PICK j \in 0 + 1..Len(fromEngine) :
                    Right(j) /\ \A i \in 1..j : fromEngine[i].kind # "answer"
            BY <5>1 DEF Overtaken
          <6>2. j # 1
            BY <2>2, <4>2, <6>1 DEF Right
          <6>3. j \in (0 + 1) + 1..Len(fromEngine)
            BY <6>1, <6>2
          <6> QED
            BY <6>1, <6>3 DEF Overtaken
        <5> QED
          BY <1>q, <2>1, <5>2, OvertakenTail
      <4> QED
        BY <4>1, <4>2
    <3> QED
      BY <2>1, <2>4, <3>1, <3>2 DEF Trusted
  <2>5. CASE ~Answers(m) /\ ~Synced
    BY <2>1, <2>5 DEF Trusted, Synced
  <2> QED
    BY <2>3, <2>4, <2>5
<1>7. ASSUME NEW m \in Messages, fromEngine' = Append(fromEngine, m), Synced,
             About(m) => m.text = doing.text,
             UNCHANGED <<doing, diagnostics, pc>>
      PROVE  Trusted'
  <2>1. /\ Len(fromEngine') = Len(fromEngine) + 1
        /\ fromEngine'[Len(fromEngine) + 1] = m
        /\ \A i \in 1..Len(fromEngine) : fromEngine'[i] = fromEngine[i]
    BY <1>q, <1>7, QueueAppend
  <2>2. ASSUME NEW k \in 1..Len(fromEngine'), Wrong(k)' PROVE Overtaken(k)'
    <3>1. k # Len(fromEngine) + 1
      BY <1>7, <2>1, <2>2 DEF Wrong, About
    <3>2. k \in 1..Len(fromEngine) /\ k \in Nat
      BY <1>q, <2>1, <3>1
    <3>3. Wrong(k)
      BY <1>7, <2>1, <2>2, <3>2 DEF Wrong, About
    <3>4. Overtaken(k)
      BY <1>7, <3>2, <3>3 DEF Trusted
    <3> QED
      BY <1>q, <1>7, <3>2, <3>4, OvertakenAppend
  <2>3. ASSUME diagnostics' \notin {None, doing.text} PROVE Overtaken(0)'
    <3>1. Overtaken(0)
      BY <1>7, <2>3 DEF Trusted
    <3> QED
      BY <1>q, <1>7, <3>1, OvertakenAppend
  <2>4. pc \notin {"reported", "check"}
    BY <1>7 DEF Synced
  <2> QED
    BY <1>7, <2>2, <2>3, <2>4 DEF Trusted
<1>8. ASSUME NEW u \in Uris, EngineReports(u) PROVE Trusted'
  <2>1. /\ UNCHANGED <<toEngine, texts, doing, diagnostics, pc>> /\ Rest' = Rest
        /\ fromEngine' = Append(fromEngine, Message("publish", u, texts[u])) /\ texts[u] \in Nat
    BY <1>8 DEF EngineReports, local, TypeOK, Rest
  <2>2. /\ Message("publish", u, texts[u]) \in Messages
        /\ Message("publish", u, texts[u]).uri = u
        /\ Message("publish", u, texts[u]).text = texts[u]
    BY <2>1, MessageType DEF Kinds
  <2>3. CASE Synced
    <3>1. texts[doing.uri] = doing.text
      BY <2>3 DEF Wire, Answering
    <3>2. About(Message("publish", u, texts[u])) => Message("publish", u, texts[u]).text = doing.text
      BY <2>2, <3>1 DEF About
    <3> QED
      BY <1>7, <2>1, <2>2, <2>3, <3>2
  <2>4. CASE ~Synced
    BY <2>1, <2>4 DEF Trusted, Synced
  <2> QED
    BY <2>3, <2>4
<1>9. ASSUME EngineStep \/ EngineSilent PROVE Trusted'
  <2> DEFINE m == Head(toEngine)
  <2>1. /\ UNCHANGED <<pc, doing, request, diagnostics>> /\ Rest' = Rest
        /\ toEngine # <<>> /\ toEngine' = Tail(toEngine)
    BY <1>9 DEF EngineStep, EngineSilent, local, Rest
  <2>2. /\ m.uri \in Uris /\ m.text \in Nat /\ Len(toEngine) \in Nat \ {0}
        /\ Len(toEngine') = Len(toEngine) - 1 /\ toEngine' \in Seq(Messages)
    BY <1>q, <2>1, QueueType, QueueTail
  <2>3. CASE pc # "receive" \/ (Unsynced /\ Len(toEngine) # Rest)
    <3>1. ~Synced'
      <4>1. CASE pc # "receive"
        BY <2>1, <4>1 DEF Synced
      <4>2. CASE Unsynced /\ Len(toEngine) # Rest
        <5>1. PICK k \in Nat, r \in {2, 3} : k = Len(toEngine) /\ r = Rest
          BY <1>q
        <5>2. k >= r /\ k # r
          BY <4>2, <5>1 DEF Unsynced
        <5>3. k - 1 >= r
          BY <5>1, <5>2
        <5>4. Len(toEngine') = k - 1 /\ Rest' = r
          BY <2>1, <2>2, <5>1
        <5>5. ~ (Len(toEngine') < Rest')
          BY <5>1, <5>3, <5>4
        <5> QED
          BY <5>5 DEF Synced
      <4> QED
        BY <2>3, <4>1, <4>2
    <3> QED
      BY <2>1, <3>1 DEF Trusted
  <2>4. CASE /\ Unsynced /\ Len(toEngine) = Rest
             /\ m.kind = (IF texts[doing.uri] = None THEN "open" ELSE "change")
             /\ m.uri = doing.uri /\ m.text = doing.text
    <3>1. pc = "receive" /\ NoAnswer
      BY <2>1, <2>4 DEF Unsynced, Barriers
    <3>2. CASE fromEngine' = Append(fromEngine, Message("publish", m.uri, m.text))
      <4>1. /\ Message("publish", m.uri, m.text) \in Messages
            /\ Message("publish", m.uri, m.text).kind = "publish"
            /\ Message("publish", m.uri, m.text).uri = doing.uri
            /\ Message("publish", m.uri, m.text).text = doing.text
        BY <2>2, <2>4, MessageType DEF Kinds
      <4>2. /\ Len(fromEngine') = Len(fromEngine) + 1
            /\ fromEngine'[Len(fromEngine) + 1] = Message("publish", m.uri, m.text)
            /\ \A i \in 1..Len(fromEngine) : fromEngine'[i] = fromEngine[i]
        BY <1>q, <3>2, <4>1, QueueAppend
      <4>3. PICK n \in Nat : n = Len(fromEngine) + 1
        BY <1>q
      <4>4. /\ n = Len(fromEngine') /\ n \in 1..Len(fromEngine')
            /\ fromEngine'[n] = Message("publish", m.uri, m.text)
            /\ \A i \in 1..Len(fromEngine') : i # n => i \in 1..Len(fromEngine)
        BY <1>q, <4>2, <4>3
      <4>5. Right(n)' /\ ~Wrong(n)'
        BY <2>1, <4>1, <4>4 DEF Right, Wrong, About
      <4>6. \A i \in 1..n : fromEngine'[i].kind # "answer"
        BY <3>1, <4>1, <4>2, <4>4 DEF NoAnswer
      <4>7. ASSUME NEW k \in Nat, k < n PROVE Overtaken(k)'
        <5>1. n \in k + 1..Len(fromEngine')
          BY <4>4, <4>7
        <5> QED
          BY <4>5, <4>6, <5>1 DEF Overtaken
      <4>8. ASSUME NEW k \in 1..Len(fromEngine'), Wrong(k)' PROVE Overtaken(k)'
        <5>1. k # n
          BY <4>5, <4>8
        <5>2. k \in Nat /\ k < n
          BY <4>4, <5>1
        <5> QED
          BY <4>7, <5>2
      <4>9. Overtaken(0)'
        <5>1. 0 < n
          BY <4>4
        <5> QED
          BY <4>7, <5>1
      <4> QED
        BY <2>1, <3>1, <4>8, <4>9 DEF Trusted
    <3>3. CASE EngineSilent
      <4>1. fromEngine = <<>> /\ diagnostics = None /\ UNCHANGED fromEngine
        BY <2>4, <3>3 DEF EngineSilent, Quiet
      <4>2. Len(fromEngine') = 0
        BY <1>q, <4>1
      <4> QED
        BY <2>1, <3>1, <4>1, <4>2 DEF Trusted
    <3> QED
      BY <1>9, <2>4, <3>2, <3>3 DEF EngineStep
  <2>5. CASE Synced /\ Len(toEngine) = 2 /\ m = Message("save", doing.uri, doing.text)
    <3>1. UNCHANGED fromEngine /\ Synced
      BY <1>9, <2>5 DEF EngineStep, EngineSilent, Message
    <3> QED
      BY <2>1, <3>1 DEF Trusted, Overtaken, Right, Wrong, About, Synced
  <2>6. CASE Synced /\ Len(toEngine) = 1 /\ m = Barrier
    <3>1. fromEngine' = Append(fromEngine, Message("answer", m.uri, m.text))
      BY <1>9, <2>6 DEF EngineStep, EngineSilent, Barrier, Message
    <3>2. /\ Message("answer", m.uri, m.text) \in Messages
          /\ Message("answer", m.uri, m.text).kind = "answer"
      BY <2>2, MessageType DEF Kinds
    <3>3. ~About(Message("answer", m.uri, m.text))
      BY <3>2 DEF About
    <3> QED
      BY <1>7, <2>1, <2>6, <3>1, <3>2, <3>3
  <2> QED
    BY <2>1, <2>3, <2>4, <2>5, <2>6, NextMessage
<1> QED
  BY <1>1, <1>2, <1>3, <1>4, <1>5, <1>6, <1>8, <1>9, QueueSteps

-----------------------------------------------------------------------------
(***************************************************************************)
(* What follows for every behaviour.                                       *)
(***************************************************************************)

Queues == Wire /\ Barriers /\ Quiet

LEMMA QueuesInitially == Init => Queues
<1> SUFFICES ASSUME Init PROVE Queues
  OBVIOUS
<1>1. /\ pc = "top" /\ toEngine = <<>> /\ fromEngine = <<>> /\ opened = {}
      /\ texts = [u \in Uris |-> None] /\ Len(toEngine) = 0 /\ Len(fromEngine) = 0
  BY DEF Init
<1>2. Closes(Len(toEngine)) /\ Left(Len(toEngine)) = {}
  BY <1>1 DEF Closes, Left
<1>3. Wire
  BY <1>1, <1>2 DEF Wire, Between, Unsynced, Synced
<1>4. Barriers
  BY <1>1 DEF Barriers, NoAnswer
<1>5. Quiet
  BY <1>1 DEF Quiet, Unsynced
<1> QED
  BY <1>3, <1>4, <1>5 DEF Queues

(* What is on its way to the editor and back is always in order.           *)
THEOREM QueuesInductive == Spec => [](IInv /\ Queues)
<1>1. Init => Queues
  BY QueuesInitially
<1>2. IInv /\ Queues /\ [Next]_vars => Queues'
  BY WireStep, BarriersStep, QuietStep DEF IInv, Queues
<1> QED
  BY <1>1, <1>2, Inductive, PTL DEF Spec

(* The editor is never asked for something out of order: the message it    *)
(* deals with next opens a document it does not have, or is about one it   *)
(* has, and a save is about the text it has.                               *)
THEOREM OrderKept == Spec => []InOrder
<1>1. IInv /\ Queues => InOrder
  <2> SUFFICES ASSUME IInv, Queues, toEngine # <<>>
               PROVE  LET m == Head(toEngine) IN
                      /\ m.kind = "open" <=> texts[m.uri] = None
                      /\ m.kind = "save" => m.text = texts[m.uri]
    BY DEF InOrder
  <2>1. TypeOK /\ Placed /\ Wire
    BY DEF IInv, Queues
  <2>2. PICK m : m = Head(toEngine)
    OBVIOUS
  <2>3. CASE (pc # "receive" \/ Unsynced) /\ m.kind = "close" /\ texts[m.uri] # None
    BY <2>2, <2>3
  <2>4. CASE /\ m.kind = IF texts[doing.uri] = None THEN "open" ELSE "change"
             /\ m.uri = doing.uri
    BY <2>2, <2>4
  <2>5. CASE /\ texts[doing.uri] = doing.text
             /\ m = Message("save", doing.uri, doing.text) \/ m = Barrier
             /\ pc = "receive"
    <3>1. doing.text \in Nat /\ None \notin Nat
      BY <2>1, NoneAssumption DEF TypeOK
    <3>2. m.kind \in {"save", "symbols"} /\ m.uri = doing.uri /\ (m.kind = "save" => m.text = doing.text)
      BY <2>5 DEF Message, Barrier
    <3> QED
      BY <2>2, <2>5, <3>1, <3>2
  <2> QED
    BY <2>1, <2>2, <2>3, <2>4, <2>5, NextMessage DEF Synced
<1> QED
  BY <1>1, QueuesInductive, PTL

(* An editor that either reports once on every text, or may skip one but   *)
(* never reports twice, is understood: what the worker takes for the       *)
(* verdict on a text is the verdict on that very text.                     *)
THEOREM VerdictTrusted ==
    ASSUME ~("again" \in Habits /\ "silent" \in Habits)
    PROVE  Spec => [](IInv /\ Queues /\ Trusted)
<1>1. Init => Trusted
  BY DEF Init, Trusted, Synced
<1>2. IInv /\ Queues /\ Trusted /\ [Next]_vars => Trusted'
  BY TrustedStep DEF IInv, Queues
<1> QED
  BY <1>1, <1>2, QueuesInductive, PTL DEF Spec

-----------------------------------------------------------------------------
(***************************************************************************)
(* What the worker and its callers leave to each other.                    *)
(***************************************************************************)

(* A connection belongs to an epoch that has begun, and to a past one once *)
(* the bridge is stopping.                                                 *)
Epochs == session <= epoch /\ (stopping => session < epoch)

(* A connection of the present epoch is one to an editor that is wanted.   *)
Attached ==
    pc \in {"connecting", "handshake", "requeue", "announce"} \cup InSession /\ session = epoch
        => mode # "off"

(* A session begins with everything queued, and nothing in hand.           *)
AllQueued == pc = "announce" => \A u \in Uris : docs[u] # None => docs[u].queued
InHand == pc \notin InTransaction \cup {"close"} => doing.uri = None

(* A save that is remembered is marked on the document, if there is one.   *)
Marked == \A u \in saves : docs[u] # None => docs[u].saved

(* Texts and revisions stay below the bound on texts.                      *)
Bounded ==
    /\ revision <= clock /\ clock <= MaxText
    /\ \A u \in Uris : docs[u] # None => docs[u].text <= MaxText /\ docs[u].rev <= MaxText

Control == Epochs /\ Attached /\ AllQueued /\ InHand /\ Marked /\ Bounded

LEMMA ControlInitially == Init => Control
  BY BoundsAssumption DEF Init, Control, Epochs, Attached, AllQueued, InHand, Marked, Bounded, InSession,
     InTransaction, NoDocument

(* The steps of the worker and the editor that leave what the callers see  *)
(* alone, and do not begin or end anything.                                *)
Inside ==
    /\ UNCHANGED <<mode, epoch, stopping, docs, saves, session, clock, revision, doing>>
    /\ \/ UNCHANGED pc
       \/ pc = "connecting" /\ pc' = "handshake"
       \/ pc = "handshake" /\ pc' = "requeue"
       \/ pc \in InSession /\ pc' \in InSession
          /\ (pc \in {"close"} \cup InTransaction => pc' \in {"close"} \cup InTransaction \/ doing.uri = None)
       \/ pc' \in {"fallback", "backoff", "top"} /\ pc \notin {"close"} \cup InTransaction

LEMMA ControlSteps ==
    ASSUME [Next]_vars
    PROVE  \/ Inside \/ (Drop("fallback") /\ UNCHANGED <<shared, clock, revision>>)
           \/ Top \/ Requeue \/ Announce \/ Check \/ ProjectChanged \/ Stop
           \/ \E u \in Uris : Take(u) \/ Submit(u) \/ Saved(u) \/ Forget(u)
           \/ \E m \in Modes \cup {"off"} : Configure(m)
<1> USE DEF Inside, InSession, InTransaction
<1>1. ASSUME Unavailable \/ Connecting \/ Handshake \/ Continue \/ TakeNone \/ Idle
             \/ Fallback \/ Backoff
      PROVE  Inside
  BY <1>1 DEF Unavailable, Connecting, Handshake, Continue, TakeNone, Idle, Fallback, Backoff,
              Goto, shared, bounds
<1>2. ASSUME Closed \/ Send \/ Receive \/ Reported \/ \E u \in Uris : SendClose(u) PROVE Inside
  BY <1>2 DEF Closed, Send, Receive, Reported, SendClose, Goto, shared, bounds
<1>3. ASSUME EngineStep \/ EngineSilent \/ \E u \in Uris : EngineReports(u) PROVE Inside
  BY <1>3 DEF EngineStep, EngineSilent, EngineReports, shared, local, bounds
<1>4. ASSUME Fail \/ NoReport \/ Cancel
      PROVE  Drop("fallback") /\ UNCHANGED <<shared, clock, revision>>
  BY <1>4 DEF Fail, NoReport, Cancel, bounds
<1>5. ASSUME UNCHANGED vars PROVE Inside
  BY <1>5 DEF vars, shared, local, bounds
<1> QED
  BY <1>1, <1>2, <1>3, <1>4, <1>5 DEF Next, Worker, Caller

LEMMA ControlStep == TypeOK /\ Placed /\ Control /\ [Next]_vars => Control'
<1> SUFFICES ASSUME TypeOK, Placed, Control, [Next]_vars PROVE Control'
  OBVIOUS
<1> USE DEF Control, Epochs, Attached, AllQueued, InHand, Marked, Bounded, InSession, InTransaction
<1>t. /\ epoch \in Nat /\ session \in Nat /\ clock \in Nat /\ revision \in Nat /\ MaxText \in Nat
      /\ docs \in [Uris -> Entries \cup {None}] /\ saves \subseteq Uris
  BY BoundsAssumption DEF TypeOK
<1>1. ASSUME Inside PROVE Control'
  BY <1>1 DEF Inside
<1>2. ASSUME Drop("fallback"), UNCHANGED <<shared, clock, revision>> PROVE Control'
  BY <1>2 DEF Drop, NoDocument, shared
<1>3. ASSUME Top PROVE Control'
  BY <1>t, <1>3 DEF Top, Goto, shared, bounds
<1>4. ASSUME Requeue PROVE Control'
  BY <1>t, <1>4 DEF Requeue, Requeued, Goto, bounds, Entries
<1>5. ASSUME Announce PROVE Control'
  BY <1>5 DEF Announce, Goto, bounds
<1>6. ASSUME Check PROVE Control'
  BY <1>6 DEF Check, NoDocument, shared, bounds
<1>7. ASSUME ProjectChanged PROVE Control'
  BY <1>t, <1>7 DEF ProjectChanged, local
<1>8. ASSUME Stop PROVE Control'
  BY <1>t, <1>8 DEF Stop, local, bounds
<1>9. ASSUME NEW u \in Uris, Take(u) PROVE Control'
  BY <1>t, <1>9, NoneAssumption DEF Take, bounds, Entries
<1>10. ASSUME NEW u \in Uris, Submit(u) PROVE Control'
  <2>1. PICK t \in {clock + 1} \cup (IF docs[u] = None THEN {} ELSE {docs[u].text}),
             r \in {revision, revision + 1}, o \in BOOLEAN :
          /\ docs' = [docs EXCEPT ![u] = [text |-> t, rev |-> r, open |-> o,
                         queued |-> TRUE, saved |-> SaveMark(u)]]
          /\ revision' = r
    BY <1>10 DEF Submit
  <2>2. /\ clock < MaxText /\ clock' = clock + 1
        /\ UNCHANGED <<mode, epoch, stopping, saves, pc, session, doing>>
    BY <1>10 DEF Submit, local
  <2>3. t <= MaxText /\ r <= MaxText
    <3>1. clock + 1 <= MaxText /\ r <= clock + 1
      BY <1>t, <2>1, <2>2
    <3>2. r <= MaxText
      BY <1>t, <2>1, <3>1
    <3>3. t <= MaxText
      BY <2>1, <3>1
    <3> QED
      BY <3>2, <3>3
  <2>4. docs'[u].text = t /\ docs'[u].rev = r /\ docs'[u].queued
        /\ (u \in saves => docs'[u].saved)
    BY <1>t, <2>1 DEF SaveMark
  <2>5. \A v \in Uris : v # u => docs'[v] = docs[v]
    BY <1>t, <2>1
  <2>6. Bounded'
    <3>1. clock' <= MaxText /\ revision' <= clock'
      BY <1>t, <2>1, <2>2
    <3> QED
      BY <2>3, <2>4, <2>5, <3>1
  <2>7. Marked' /\ AllQueued'
    BY <1>t, <2>2, <2>4, <2>5
  <2>8. Epochs' /\ Attached' /\ InHand'
    BY <2>2
  <2> QED
    BY <2>6, <2>7, <2>8
<1>11. ASSUME NEW u \in Uris, Saved(u) PROVE Control'
  BY <1>t, <1>11, NoneAssumption DEF Saved, local, Entries
<1>12. ASSUME NEW u \in Uris, Forget(u) PROVE Control'
  BY <1>t, <1>12 DEF Forget, local
<1>13. ASSUME NEW m \in Modes \cup {"off"}, Configure(m) PROVE Control'
  BY <1>t, <1>13 DEF Configure, Requeued, local, Entries
<1> QED
  BY <1>1, <1>2, <1>3, <1>4, <1>5, <1>6, <1>7, <1>8, <1>9, <1>10, <1>11, <1>12, <1>13,
     ControlSteps

(* The worker's label, the epochs, the status and the marks of the         *)
(* documents agree in every behaviour: what is in hand is known to both    *)
(* sides, and a connected worker has queued all it holds.                  *)
THEOREM ControlInductive == Spec => [](IInv /\ Control)
<1>1. IInv /\ Control /\ [Next]_vars => Control'
  BY ControlStep DEF IInv
<1> QED
  BY <1>1, ControlInitially, Inductive, PTL DEF Spec

(* What a document keeps when it is queued again.                          *)
LEMMA RequeuedKeeps ==
    ASSUME docs \in [Uris -> Entries \cup {None}], NEW u \in Uris
    PROVE  /\ Requeued[u] = None <=> docs[u] = None
           /\ docs[u] # None => /\ Requeued[u].text = docs[u].text
                                /\ Requeued[u].rev = docs[u].rev
                                /\ Requeued[u].open = docs[u].open
                                /\ Requeued[u].saved = docs[u].saved
                                /\ Requeued[u].queued = TRUE
<1>1. CASE docs[u] = None
  BY <1>1 DEF Requeued
<1>2. CASE docs[u] # None
  <2>1. docs[u] \in Entries /\ Requeued[u] = [docs[u] EXCEPT !.queued = TRUE]
    BY <1>2 DEF Requeued
  <2>2. Requeued[u] \in Entries
    BY <2>1 DEF Entries
  <2> QED
    BY <1>2, <2>1, <2>2, NoneAssumption DEF Entries
<1> QED
  BY <1>1, <1>2

(* A save is passed to the editor with the text, or falls with the         *)
(* connection, the mode or the document: no other step of anyone loses it. *)
THEOREM SavesAreKept == Spec => SavesKept
<1> DEFINE Kept(u) == SaveDue(u) /\ ~SaveDue(u)' => Send \/ SaveFalls(u)
<1>1. ASSUME IInv, Control, [Next]_vars, NEW u \in Uris PROVE Kept(u)
  <2> SUFFICES ASSUME SaveDue(u), ~SaveDue(u)', ~Send, ~SaveFalls(u) PROVE FALSE
    OBVIOUS
  <2>t. /\ docs \in [Uris -> Entries \cup {None}] /\ saves \subseteq Uris /\ u # None
        /\ doing.uri \in Uris \cup {None}
    BY <1>1, NoneAssumption DEF IInv, TypeOK
  <2>1. ASSUME UNCHANGED <<docs, saves, doing>>,
               pc \in {"close", "send"} => pc' \in {"close", "send"} \/ doing.uri = None
        PROVE  FALSE
    BY <2>t, <2>1 DEF SaveDue
  <2>2. ASSUME Unavailable \/ Connecting \/ Handshake \/ Continue \/ TakeNone \/ Idle
               \/ Fallback \/ Backoff \/ Top \/ Announce \/ Closed \/ Receive \/ Reported
               \/ NoReport \/ \E v \in Uris : SendClose(v)
        PROVE  FALSE
    <3>1. UNCHANGED <<docs, saves>>
      BY <2>2 DEF Unavailable, Connecting, Handshake, Continue, TakeNone, Idle, Fallback,
                  Backoff, Top, Announce, Closed, Receive, Reported, NoReport, SendClose, shared
    <3>2. /\ pc \in {"close", "send"} => UNCHANGED doing
          /\ pc \in {"close", "send"} => pc' \in {"close", "send"} \/ doing.uri = None
      BY <2>2 DEF Unavailable, Connecting, Handshake, Continue, TakeNone, Idle, Fallback,
                  Backoff, Top, Announce, Closed, Receive, Reported, NoReport, SendClose, Goto
    <3> QED
      BY <2>t, <3>1, <3>2 DEF SaveDue
  <2>3. ASSUME Check PROVE FALSE
    BY <2>3 DEF Check, SaveDue, shared
  <2>4. ASSUME EngineStep \/ EngineSilent \/ \E v \in Uris : EngineReports(v) PROVE FALSE
    BY <2>1, <2>4 DEF EngineStep, EngineSilent, EngineReports, shared, local
  <2>5. ASSUME Requeue PROVE FALSE
    <3>1. UNCHANGED <<saves, doing>> /\ pc = "requeue" /\ docs' = Requeued
      BY <2>5 DEF Requeue, Goto
    <3> QED
      BY <2>t, <3>1, RequeuedKeeps DEF SaveDue
  <2>6. ASSUME ProjectChanged \/ Stop \/ UNCHANGED vars PROVE FALSE
    BY <2>1, <2>6 DEF ProjectChanged, Stop, vars, shared, local
  <2>7. ASSUME NEW m \in Modes \cup {"off"}, Configure(m) PROVE FALSE
    <3>1. m # "off"
      BY <2>7 DEF SaveFalls
    <3> QED
      BY <2>t, <2>7, <3>1, RequeuedKeeps DEF Configure, SaveDue, local
  <2>8. ASSUME NEW v \in Uris, Submit(v) PROVE FALSE
    <3>1. UNCHANGED <<saves, doing, pc>>
      BY <2>8 DEF Submit, local
    <3>2. PICK t \in {clock + 1} \cup (IF docs[v] = None THEN {} ELSE {docs[v].text}),
               r \in {revision, revision + 1}, o \in BOOLEAN :
                  docs' = [docs EXCEPT ![v] = [text |-> t, rev |-> r, open |-> o,
                                          queued |-> TRUE, saved |-> SaveMark(v)]]
      BY <2>8 DEF Submit
    <3>3. u # v => docs'[u] = docs[u]
      BY <2>t, <3>2
    <3>4. docs'[v] # None
      <4>1. t \in Nat /\ r \in Nat /\ SaveMark(v) \in BOOLEAN
        BY <1>1, <2>t, <3>2 DEF IInv, TypeOK, Entries, SaveMark
      <4>2. docs'[v] \in Entries
        BY <2>t, <3>2, <4>1 DEF Entries
      <4> QED
        BY <4>2, NoneAssumption
    <3>5. SaveMark(v) => docs'[v].saved
      BY <2>t, <3>2
    <3> QED
      BY <3>1, <3>3, <3>4, <3>5 DEF SaveDue, SaveMark
  <2>9. ASSUME NEW v \in Uris, Saved(v) PROVE FALSE
    BY <2>t, <2>9 DEF Saved, SaveDue, local, Entries
  <2>10. ASSUME NEW v \in Uris, Forget(v) PROVE FALSE
    <3>1. v # u
      BY <2>10 DEF SaveFalls
    <3> QED
      BY <2>t, <2>10, <3>1 DEF Forget, SaveDue, local
  <2>11. ASSUME NEW v \in Uris, Take(v) PROVE FALSE
    <3>1. /\ pc = "take" /\ docs[v] # None /\ doing'.uri = v /\ doing'.saved = docs[v].saved
          /\ pc' = "close" /\ saves' = saves \ {v}
          /\ docs' = [docs EXCEPT ![v].queued = FALSE, ![v].saved = FALSE]
      BY <2>11 DEF Take
    <3>2. CASE u = v
      <4>1. u \in saves \/ docs[u].saved
        BY <3>1, <3>2 DEF SaveDue
      <4>2. docs[u].saved
        BY <1>1, <3>1, <3>2, <4>1 DEF Control, Marked
      <4> QED
        BY <3>1, <3>2, <4>2 DEF SaveDue
    <3>3. CASE u # v
      BY <2>t, <3>1, <3>3 DEF SaveDue
    <3> QED
      BY <3>2, <3>3
  <2>12. ~Fail /\ ~Cancel
    BY DEF SaveFalls
  <2> QED
    BY <1>1, <2>2, <2>3, <2>4, <2>5, <2>6, <2>7, <2>8, <2>9, <2>10, <2>11, <2>12
       DEF Next, Caller, Worker
<1>2. IInv /\ Control /\ [Next]_vars => [\A u \in Uris : Kept(u)]_vars
  BY <1>1
<1> QED
  BY <1>2, ControlInductive, PTL DEF Spec, SavesKept

-----------------------------------------------------------------------------
(***************************************************************************)
(* The contract.  An editor that may both be silent on a text and repeat   *)
(* itself is left out: a repeated report on an older text would then pass  *)
(* for the missing one.                                                    *)
(***************************************************************************)

HeldEntry(u, q) == Contract!Entry(docs[u].text, docs[u].rev, docs[u].open, q)

LEMMA HeldIs ==
    ASSUME TypeOK, NEW u \in Uris
    PROVE  /\ docs[u] = None => Held[u] = None
           /\ docs[u] # None => /\ docs[u] \in Entries
                                /\ Held[u] = HeldEntry(u, ~Live \/ docs[u].queued)
                                /\ Held[u] # None
                                /\ Held[u].text = docs[u].text
                                /\ Held[u].rev = docs[u].rev
                                /\ Held[u].queued = (~Live \/ docs[u].queued)
                                /\ \A q : Contract!Queued(Held[u], q) = HeldEntry(u, q)
<1>1. CASE docs[u] = None
  BY <1>1 DEF Held
<1>2. CASE docs[u] # None
  <2>1. docs[u] \in Entries
    BY <1>2 DEF TypeOK
  <2>2. Held[u] = HeldEntry(u, ~Live \/ docs[u].queued)
    BY <1>2 DEF Held, HeldEntry, Contract!Entry
  <2>3. Held[u] \in [text : Nat, rev : Nat, open : BOOLEAN, queued : BOOLEAN]
    BY <2>1, <2>2 DEF Entries, HeldEntry, Contract!Entry, Live
  <2>4. /\ Held[u].text = docs[u].text /\ Held[u].rev = docs[u].rev
        /\ Held[u].open = docs[u].open /\ Held[u].queued = (~Live \/ docs[u].queued)
    BY <2>2 DEF HeldEntry, Contract!Entry
  <2>5. \A q : Contract!Queued(Held[u], q) = HeldEntry(u, q)
    BY <2>4 DEF HeldEntry, Contract!Queued
  <2> QED
    BY <1>2, <2>1, <2>2, <2>3, <2>4, <2>5, NoneAssumption
<1> QED
  BY <1>1, <1>2

LEMMA LiveType == Live \in BOOLEAN /\ Live' \in BOOLEAN
  BY DEF Live

(* When there is no session any more, everything held counts as queued.    *)
LEMMA HeldRequeued ==
    ASSUME TypeOK, TypeOK', ~Live', docs' = docs \/ docs' = Requeued
    PROVE  Held' = Contract!Requeued(Held)
<1>1. ASSUME NEW u \in Uris
      PROVE  Held'[u] = IF Held[u] = None THEN None ELSE Contract!Queued(Held[u], TRUE)
  <2>1. CASE docs[u] = None
    <3>1. docs'[u] = None
      BY <2>1 DEF Requeued
    <3> QED
      BY <2>1, <3>1 DEF Held
  <2>2. CASE docs[u] # None
    <3>1. docs[u] \in Entries /\ Held[u] = HeldEntry(u, ~Live \/ docs[u].queued) /\ Held[u] # None
      BY <2>2, HeldIs
    <3>2. /\ docs'[u] # None /\ docs'[u].text = docs[u].text
          /\ docs'[u].rev = docs[u].rev /\ docs'[u].open = docs[u].open
      BY <2>2, RequeuedKeeps DEF TypeOK
    <3>3. Held'[u] = [text |-> docs[u].text, rev |-> docs[u].rev, open |-> docs[u].open,
                      queued |-> TRUE]
      BY <3>2 DEF Held
    <3> QED
      BY <3>1, <3>3 DEF Contract!Queued, HeldEntry, Contract!Entry
  <2> QED
    BY <2>1, <2>2
<1>2. Held' = [u \in Uris |-> Held'[u]]
  BY DEF Held
<1> QED
  BY <1>1, <1>2 DEF Contract!Requeued

(* The steps that do not show: what is held, and whether there is a        *)
(* session, does not change.                                               *)
LEMMA Unseen ==
    ASSUME UNCHANGED <<mode, stopping, reports, docs>>, Live' = Live,
           Live => UNCHANGED doing, state' = state
    PROVE  UNCHANGED Contract!vars
<1>1. Held' = Held /\ InQuestion' = InQuestion
  BY DEF Held, InQuestion
<1> QED
  BY <1>1 DEF Contract!vars

LEMMA ContractInitially == Init => Contract!Init
<1> SUFFICES ASSUME Init PROVE Contract!Init
  OBVIOUS
<1>1. ~Live /\ Held = [u \in Uris |-> None] /\ InQuestion = None
  BY DEF Init, Live, InSession, Held, InQuestion
<1> QED
  BY <1>1 DEF Init, Contract!Init, NoReports, Contract!NoReports

(* What the callers do is what the contract lets them do.                  *)
LEMMA CallerStep ==
    ASSUME TypeOK, TypeOK', Control, Control', Caller
    PROVE  Contract!Next \/ UNCHANGED Contract!vars
<1>t. /\ docs \in [Uris -> Entries \cup {None}] /\ epoch \in Nat /\ session \in Nat
      /\ session <= epoch /\ clock \in Nat /\ revision \in Nat /\ MaxText \in Nat
  BY BoundsAssumption DEF TypeOK, Control, Epochs
<1>1. ASSUME NEW m \in Modes \cup {"off"}, Configure(m) PROVE Contract!Withdraw
  <2>1. epoch' # session' /\ ~Live' /\ InQuestion' = None
    BY <1>t, <1>1 DEF Configure, local, Live, Cancelled, InQuestion
  <2>2. state' # "ready" /\ UNCHANGED <<stopping, reports>> /\ mode' = m
    BY <1>1 DEF Configure, Withdrawn
  <2>3. CASE m = "off"
    <3>1. Held' = [u \in Uris |-> None]
      BY <1>1, <2>3 DEF Configure, Held
    <3> QED
      BY <2>1, <2>2, <2>3, <3>1 DEF Contract!Withdraw
  <2>4. CASE m # "off"
    <3>1. Held' = Contract!Requeued(Held)
      BY <1>1, <2>1, <2>4, HeldRequeued DEF Configure
    <3> QED
      BY <2>1, <2>2, <2>4, <3>1 DEF Contract!Withdraw
  <2> QED
    BY <2>3, <2>4
<1>2. ASSUME ProjectChanged PROVE Contract!Withdraw
  <2>1. epoch' # session' /\ ~Live' /\ InQuestion' = None
    BY <1>t, <1>2 DEF ProjectChanged, local, Live, Cancelled, InQuestion
  <2>2. state' # "ready" /\ UNCHANGED <<stopping, reports, mode>> /\ mode # "off"
    BY <1>2 DEF ProjectChanged
  <2>3. Held' = Contract!Requeued(Held)
    BY <1>2, <2>1, HeldRequeued DEF ProjectChanged
  <2> QED
    BY <2>1, <2>2, <2>3 DEF Contract!Withdraw
<1>3. ASSUME Stop PROVE Contract!Stop
  <2>1. ~Live' /\ InQuestion' = None /\ stopping' = TRUE /\ UNCHANGED <<state, reports, mode>>
    BY <1>3 DEF Stop, Live, Cancelled, InQuestion
  <2>2. Held' = Contract!Requeued(Held)
    BY <1>3, <2>1, HeldRequeued DEF Stop
  <2> QED
    BY <2>1, <2>2 DEF Contract!Stop
<1>4. ASSUME NEW u \in Uris, Submit(u) PROVE Contract!Submit(u)
  <2>1. PICK t \in {clock + 1} \cup (IF docs[u] = None THEN {} ELSE {docs[u].text}),
             r \in {revision, revision + 1}, o \in BOOLEAN :
             docs' = [docs EXCEPT ![u] = [text |-> t, rev |-> r, open |-> o,
                                         queued |-> TRUE, saved |-> SaveMark(u)]]
    BY <1>4 DEF Submit
  <2>2. /\ UNCHANGED <<mode, epoch, session, stopping, state, reports, pc, doing>>
        /\ mode # "off" /\ ~stopping
    BY <1>4 DEF Submit, local
  <2>3. Live' = Live /\ InQuestion' = InQuestion
    BY <2>2 DEF Live, Cancelled, InQuestion
  <2>4. docs'[u] # None /\ t \in 0..MaxText /\ r \in 0..MaxText
    <3>1. t \in Nat /\ r \in Nat /\ SaveMark(u) \in BOOLEAN
      <4>1. docs[u] # None => docs[u].text \in Nat /\ docs[u].saved \in BOOLEAN
        BY <1>t DEF Entries
      <4>2. t \in Nat /\ r \in Nat
        BY <1>t, <2>1, <4>1
      <4> QED
        BY <4>1, <4>2 DEF SaveMark
    <3>2. docs'[u] \in Entries /\ docs'[u].text = t /\ docs'[u].rev = r
      BY <1>t, <2>1, <3>1 DEF Entries
    <3>3. docs'[u] # None
      BY <3>2, NoneAssumption
    <3>4. t <= MaxText /\ r <= MaxText
      BY <3>2, <3>3 DEF Control, Bounded
    <3> QED
      BY <1>t, <3>1, <3>3, <3>4
  <2>5. Held' = [Held EXCEPT ![u] = [text |-> t, rev |-> r, open |-> o, queued |-> TRUE]]
    <3>1. docs'[u].text = t /\ docs'[u].rev = r /\ docs'[u].open = o /\ docs'[u].queued = TRUE
      BY <1>t, <2>1
    <3>2. Held'[u] = [text |-> t, rev |-> r, open |-> o, queued |-> TRUE]
      BY <2>4, <3>1 DEF Held
    <3>3. ASSUME NEW v \in Uris, v # u PROVE Held'[v] = Held[v]
      BY <1>t, <2>1, <2>3, <3>3 DEF Held
    <3>4. Held = [v \in Uris |-> Held[v]] /\ Held' = [v \in Uris |-> Held'[v]]
      BY DEF Held
    <3> QED
      BY <3>2, <3>3, <3>4
  <2>6. state' = state /\ reports' = reports /\ mode' = mode
    BY <2>2
  <2> HIDE DEF Held, Live, InQuestion
  <2> QED
    BY <2>2, <2>3, <2>4, <2>5, <2>6 DEF Contract!Submit, Contract!Entry
<1>5. ASSUME NEW u \in Uris, Saved(u) PROVE Contract!Saved(u) \/ UNCHANGED Contract!vars
  <2>1. UNCHANGED <<mode, epoch, session, stopping, state, reports, pc, doing>> /\ mode # "off"
    BY <1>5 DEF Saved, local
  <2>2. Live' = Live /\ InQuestion' = InQuestion
    BY <2>1 DEF Live, Cancelled, InQuestion
  <2>3. CASE docs[u] = None
    BY <1>5, <2>1, <2>2, <2>3, Unseen DEF Saved
  <2>4. CASE docs[u] # None
    <3>1. docs' = [docs EXCEPT ![u].saved = TRUE, ![u].queued = TRUE]
      BY <1>5, <2>4 DEF Saved
    <3>2. docs[u] \in Entries /\ Held[u] = HeldEntry(u, ~Live \/ docs[u].queued) /\ Held[u] # None
      BY <2>4, HeldIs
    <3>3. /\ docs'[u].text = docs[u].text /\ docs'[u].rev = docs[u].rev
          /\ docs'[u].open = docs[u].open /\ docs'[u].queued = TRUE /\ docs'[u] \in Entries
      BY <1>t, <3>1, <3>2 DEF Entries
    <3>4. Held'[u] = HeldEntry(u, TRUE)
      BY <3>3, NoneAssumption DEF Held, HeldEntry, Contract!Entry
    <3>5. ASSUME NEW v \in Uris, v # u PROVE Held'[v] = Held[v]
      BY <1>t, <2>2, <3>1, <3>5 DEF Held
    <3>6. Held' = [Held EXCEPT ![u] = Contract!Queued(@, TRUE)]
      <4>1. Contract!Queued(Held[u], TRUE) = HeldEntry(u, TRUE)
        BY <3>2 DEF HeldEntry, Contract!Queued, Contract!Entry
      <4>2. Held = [v \in Uris |-> Held[v]] /\ Held' = [v \in Uris |-> Held'[v]]
        BY DEF Held
      <4> HIDE DEF Held
      <4> QED
        BY <3>4, <3>5, <4>1, <4>2
    <3> HIDE DEF Held, Live, InQuestion
    <3> QED
      BY <2>1, <2>2, <3>2, <3>6 DEF Contract!Saved
  <2> QED
    BY <2>3, <2>4
<1>6. ASSUME NEW u \in Uris, Forget(u) PROVE Contract!Forget(u)
  <2>1. UNCHANGED <<mode, epoch, session, stopping, state, reports, pc, doing>>
        /\ docs' = [docs EXCEPT ![u] = None]
    BY <1>6 DEF Forget, local
  <2>2. Live' = Live /\ InQuestion' = InQuestion
    BY <2>1 DEF Live, Cancelled, InQuestion
  <2>3. Held' = [Held EXCEPT ![u] = None]
    <3>1. Held'[u] = None
      BY <1>t, <2>1 DEF Held
    <3>2. ASSUME NEW v \in Uris, v # u PROVE Held'[v] = Held[v]
      BY <1>t, <2>1, <2>2, <3>2 DEF Held
    <3> QED
      BY <3>1, <3>2 DEF Held
  <2> QED
    BY <2>1, <2>2, <2>3 DEF Contract!Forget
<1>7. (\E m \in Modes \cup {"off"} : Configure(m)) => Contract!Next \/ UNCHANGED Contract!vars
  BY <1>1 DEF Contract!Next
<1>8. (\E u \in Uris : Submit(u) \/ Saved(u) \/ Forget(u)) => Contract!Next \/ UNCHANGED Contract!vars
  BY <1>4, <1>5, <1>6 DEF Contract!Next
<1>9. ProjectChanged \/ Stop => Contract!Next \/ UNCHANGED Contract!vars
  BY <1>2, <1>3 DEF Contract!Next
<1> QED
  BY <1>7, <1>8, <1>9 DEF Caller

(* What the worker and the editor do is what the contract lets them do, as *)
(* long as the verdict can be trusted.                                     *)
LEMMA WorkerStep ==
    ASSUME TypeOK, TypeOK', Placed, Control, Trusted,
           Worker \/ Fail \/ EngineStep \/ EngineSilent \/ \E u \in Uris : Take(u) \/ EngineReports(u)
    PROVE  Contract!Next \/ UNCHANGED Contract!vars
<1>t. /\ docs \in [Uris -> Entries \cup {None}] /\ epoch \in Nat /\ session \in Nat
      /\ (stopping => epoch # session) /\ doing.uri \in Uris \cup {None} /\ None \notin Uris
      /\ Live \in BOOLEAN /\ Live' \in BOOLEAN
  <2>1. /\ docs \in [Uris -> Entries \cup {None}] /\ epoch \in Nat /\ session \in Nat
        /\ doing.uri \in Uris \cup {None}
    BY DEF TypeOK
  <2>2. stopping => epoch # session
    BY <2>1 DEF Control, Epochs
  <2>3. None \notin Uris
    BY NoneAssumption
  <2> QED
    BY <2>1, <2>2, <2>3, LiveType
<1>1. ASSUME UNCHANGED <<mode, epoch, stopping, state, reports, docs, session, doing>>,
             pc' \in InSession <=> pc \in InSession
      PROVE  UNCHANGED Contract!vars
  BY <1>1, Unseen DEF Live, Cancelled
<1>2. ASSUME Handshake \/ Continue \/ TakeNone \/ Closed \/ Idle \/ Backoff PROVE UNCHANGED Contract!vars
  BY <1>1, <1>2 DEF Handshake, Continue, TakeNone, Closed, Idle, Backoff, Goto, InSession, shared
<1>3. ASSUME Send \/ Receive \/ Reported \/ \E u \in Uris : SendClose(u) PROVE UNCHANGED Contract!vars
  BY <1>1, <1>3 DEF Send, Receive, Reported, SendClose, InSession, shared, bounds
<1>4. ASSUME EngineStep \/ EngineSilent \/ \E u \in Uris : EngineReports(u) PROVE UNCHANGED Contract!vars
  BY <1>1, <1>4 DEF EngineStep, EngineSilent, EngineReports, shared, local
<1>5. ASSUME Top PROVE UNCHANGED Contract!vars
  <2>1. ~Live /\ ~Live'
    BY <1>5 DEF Top, Goto, Live, InSession
  <2> QED
    BY <1>t, <1>5, <2>1, Unseen DEF Top, shared
<1>6. ASSUME Unavailable \/ Connecting \/ Fallback PROVE Contract!Fallback \/ UNCHANGED Contract!vars
  <2>1. ~Live /\ ~Live' /\ UNCHANGED <<mode, stopping, docs, doing, reports>>
    BY <1>6 DEF Unavailable, Connecting, Fallback, Goto, Live, InSession
  <2>2. state' # "ready" \/ state' = state
    BY <1>6 DEF Unavailable, Connecting, Fallback, SetState
  <2>3. Held' = Held /\ InQuestion' = InQuestion
    BY <2>1 DEF Held, InQuestion
  <2> QED
    BY <1>t, <2>1, <2>2, <2>3 DEF Contract!Fallback, Contract!vars
<1>7. ASSUME Requeue PROVE UNCHANGED Contract!vars
  <2>1. ~Live /\ ~Live' /\ UNCHANGED <<mode, stopping, state, reports>> /\ docs' = Requeued
    BY <1>7 DEF Requeue, Goto, Live, InSession
  <2>2. Held' = Contract!Requeued(Held)
    BY <2>1, HeldRequeued
  <2>3. ASSUME NEW u \in Uris
        PROVE  Held[u] = IF Held[u] = None THEN None ELSE Contract!Queued(Held[u], TRUE)
    BY <1>t, <2>1, HeldIs
  <2>4. Held = [u \in Uris |-> Held[u]]
    BY DEF Held
  <2>5. Held' = Held /\ InQuestion' = InQuestion
    BY <2>1, <2>2, <2>3, <2>4 DEF Contract!Requeued, InQuestion
  <2> QED
    BY <1>t, <2>1, <2>5 DEF Contract!vars
<1>8. ASSUME Announce PROVE Contract!Connected \/ UNCHANGED Contract!vars
  <2>1. pc = "announce" /\ pc' = "loop" /\ UNCHANGED <<mode, epoch, stopping, docs, session, doing>>
    BY <1>8 DEF Announce, Goto
  <2>2. ~Live /\ doing.uri = None
    BY <2>1 DEF Live, InSession, Control, InHand, InTransaction
  <2>3. CASE Cancelled
    <3>1. UNCHANGED <<state, reports>> /\ ~Live'
      BY <1>8, <2>1, <2>3 DEF Announce, SetState, Live, Cancelled
    <3> QED
      BY <1>t, <2>1, <2>2, <3>1, Unseen
  <2>4. CASE ~Cancelled
    <3>1. /\ state' = "ready" /\ reports' = NoReports /\ Live' = TRUE
          /\ mode # "off" /\ ~stopping
      BY <1>8, <2>1, <2>4 DEF Announce, SetState, Live, Cancelled, InSession, Control, Attached
    <3>2. InQuestion' = None /\ InQuestion = None
      BY <2>1, <2>2 DEF InQuestion
    <3>3. ASSUME NEW u \in Uris PROVE Held'[u] = Held[u]
      <4>1. docs[u] # None => docs[u] \in Entries /\ docs[u].queued = TRUE
        BY <1>t, <2>1 DEF Control, AllQueued, Entries
      <4> QED
        BY <2>1, <2>2, <3>1, <4>1 DEF Held
    <3>4. Held' = Held
      BY <3>3 DEF Held
    <3> QED
      <4>1. (state = "ready")' = TRUE /\ reports' = Contract!NoReports
        BY <3>1 DEF NoReports, Contract!NoReports
      <4>2. (mode # "off")' = (mode # "off") /\ stopping' = stopping /\ ~Live
        BY <2>1, <2>2
      <4>3. Contract!Connected
        BY <3>1, <3>2, <3>4, <4>1, <4>2 DEF Contract!Connected
      <4> QED
        BY <4>3
  <2> QED
    BY <2>3, <2>4
<1>9. ASSUME NEW u \in Uris, Take(u) PROVE Contract!Ask(u) \/ UNCHANGED Contract!vars
  <2>1. /\ pc = "take" /\ pc' = "close" /\ docs[u] # None /\ docs[u].queued
        /\ doing' = [uri |-> u, text |-> docs[u].text, rev |-> docs[u].rev,
                     open |-> docs[u].open, saved |-> docs[u].saved]
        /\ docs' = [docs EXCEPT ![u].queued = FALSE, ![u].saved = FALSE]
        /\ UNCHANGED <<mode, epoch, stopping, state, session, reports>>
    BY <1>9 DEF Take, bounds
  <2>2. Live' = Live /\ doing.uri = None
    BY <2>1 DEF Live, Cancelled, InSession, Control, InHand, InTransaction
  <2>3. /\ docs[u] \in Entries /\ Held[u] = HeldEntry(u, ~Live \/ docs[u].queued) /\ Held[u] # None
    BY <2>1, HeldIs
  <2>4. /\ docs'[u].text = docs[u].text /\ docs'[u].rev = docs[u].rev
        /\ docs'[u].open = docs[u].open /\ docs'[u].queued = FALSE /\ docs'[u] \in Entries
    BY <1>t, <2>1, <2>3 DEF Entries
  <2>5. Held'[u] = HeldEntry(u, ~Live)
    BY <2>2, <2>4, NoneAssumption DEF Held, HeldEntry, Contract!Entry
  <2>6. ASSUME NEW v \in Uris, v # u PROVE Held'[v] = Held[v]
    BY <1>t, <2>1, <2>2, <2>6 DEF Held
  <2>7. Held = [v \in Uris |-> Held[v]] /\ Held' = [v \in Uris |-> Held'[v]]
    BY DEF Held
  <2>8. CASE Live
    <3>1. Held' = [Held EXCEPT ![u] = Contract!Queued(@, FALSE)]
      <4>1. Held'[u] = Contract!Queued(Held[u], FALSE)
        BY <1>t, <2>1, <2>5, <2>8, HeldIs
      <4> QED
        BY <2>6, <2>7, <4>1
    <3>2. InQuestion = None /\ InQuestion' = [uri |-> u, text |-> Held[u].text, rev |-> Held[u].rev]
      BY <1>t, <2>1, <2>2, <2>3, <2>8 DEF InQuestion, HeldEntry, Contract!Entry
    <3>3. Held[u].queued
      BY <2>1, HeldIs
    <3> QED
      BY <2>1, <2>2, <2>3, <2>8, <3>1, <3>2, <3>3 DEF Contract!Ask
  <2>9. CASE ~Live
    <3>1. Held'[u] = Held[u]
      BY <2>3, <2>5, <2>9 DEF HeldEntry, Contract!Entry
    <3>2. Held' = Held
      BY <2>6, <2>7, <3>1
    <3>3. InQuestion' = InQuestion
      BY <2>2, <2>9 DEF InQuestion
    <3> QED
      BY <2>1, <2>2, <3>2, <3>3 DEF Contract!vars
  <2> QED
    BY <2>8, <2>9
<1>10. ASSUME Check PROVE Contract!Report \/ UNCHANGED Contract!vars
  <2>1. /\ pc = "check" /\ pc' = "loop" /\ doing' = NoDocument
        /\ UNCHANGED <<mode, epoch, stopping, state, docs, session>>
    BY <1>10 DEF Check, shared
  <2>2. Live' = Live /\ doing.uri \in Uris /\ diagnostics = doing.text
    BY <2>1 DEF Live, Cancelled, InSession, Placed, InTransaction, Trusted
  <2>3. Held' = Held /\ InQuestion' = None
    BY <2>1, <2>2 DEF Held, InQuestion, NoDocument
  <2>4. CASE Live
    <3>1. InQuestion = [uri |-> doing.uri, text |-> doing.text, rev |-> doing.rev]
      BY <1>t, <2>2, <2>4 DEF InQuestion
    <3>2. InQuestion # None
      <4>1. doing.text \in Nat /\ doing.rev \in Nat
        BY DEF TypeOK
      <4>2. InQuestion \in [uri : Uris, text : Nat, rev : Nat]
        BY <2>2, <3>1, <4>1
      <4> QED
        BY <4>2, NoneAssumption
    <3>3. InQuestion.uri = doing.uri /\ InQuestion.text = doing.text /\ InQuestion.rev = doing.rev
      BY <3>1
    <3>4. /\ docs[doing.uri] = None <=> Held[doing.uri] = None
          /\ docs[doing.uri] # None => Held[doing.uri].rev = docs[doing.uri].rev
      BY <2>2, HeldIs
    <3>5. epoch = session
      BY <2>4 DEF Live, Cancelled
    <3>6. reports' = IF Held[InQuestion.uri] # None /\ Held[InQuestion.uri].rev = InQuestion.rev
                     THEN [reports EXCEPT ![InQuestion.uri] =
                             [rev |-> InQuestion.rev, verdict |-> InQuestion.text]]
                     ELSE reports
      <4>1. reports' = IF docs[doing.uri] # None /\ docs[doing.uri].rev = doing.rev
                       THEN [reports EXCEPT ![doing.uri] = [rev |-> doing.rev, verdict |-> doing.text]]
                       ELSE reports
        BY <1>10, <2>2, <3>5 DEF Check
      <4>2. docs[doing.uri] # None /\ docs[doing.uri].rev = doing.rev
              <=> Held[InQuestion.uri] # None /\ Held[InQuestion.uri].rev = InQuestion.rev
        BY <3>3, <3>4
      <4> QED
        BY <3>3, <4>1, <4>2
    <3> QED
      BY <2>1, <2>2, <2>3, <2>4, <3>2, <3>6 DEF Contract!Report
  <2>5. CASE ~Live
    <3>1. epoch # session
      BY <1>t, <2>1, <2>5 DEF Live, Cancelled, InSession
    <3>2. reports' = reports
      BY <1>10, <3>1 DEF Check
    <3> QED
      BY <2>1, <2>2, <2>3, <2>5, <3>2 DEF Contract!vars, InQuestion
  <2> QED
    BY <2>4, <2>5
<1>11. ASSUME Fail \/ NoReport \/ Cancel PROVE Contract!Disconnected \/ UNCHANGED Contract!vars
  <2>1. ~Live' /\ UNCHANGED <<mode, stopping, state, docs, reports>>
    BY <1>11 DEF Fail, NoReport, Cancel, Drop, Live, InSession, shared, bounds
  <2>2. InQuestion' = None
    BY <2>1 DEF InQuestion
  <2>3. Held' = Contract!Requeued(Held)
    BY <2>1, HeldRequeued
  <2>4. CASE Live
    BY <2>1, <2>2, <2>3, <2>4 DEF Contract!Disconnected
  <2>5. CASE ~Live
    BY <1>t, <2>1, <2>5, Unseen
  <2> QED
    BY <2>4, <2>5
<1> QED
  BY <1>2, <1>3, <1>4, <1>5, <1>6, <1>7, <1>8, <1>9, <1>10, <1>11 DEF Worker, Contract!Next

(* The bridge keeps its contract: authority is withdrawn the moment a      *)
(* caller asks for it, everything held is asked about when a session       *)
(* starts, and a report that is passed on is the editor's verdict on the   *)
(* very text that was submitted, with the revision the document still has. *)
THEOREM BridgeImplementsContract ==
    ASSUME ~("again" \in Habits /\ "silent" \in Habits)
    PROVE  Spec => ImplementsContract
<1> DEFINE All == IInv /\ Control /\ Trusted
<1>1. All /\ All' /\ [Next]_vars => [Contract!Next]_(Contract!vars)
  <2> SUFFICES ASSUME IInv, Control, Trusted, IInv', Control', [Next]_vars
               PROVE  Contract!Next \/ UNCHANGED Contract!vars
    OBVIOUS
  <2>1. TypeOK /\ TypeOK' /\ Placed
    BY DEF IInv
  <2>2. CASE Caller
    BY <2>1, <2>2, CallerStep
  <2>3. CASE Worker \/ Fail \/ EngineStep \/ EngineSilent \/ \E u \in Uris : Take(u) \/ EngineReports(u)
    BY <2>1, <2>3, WorkerStep
  <2>4. CASE UNCHANGED vars
    BY <2>4 DEF vars, shared, local, Held, InQuestion, Live, Cancelled, Contract!vars
  <2> QED
    BY <2>2, <2>3, <2>4 DEF Next
<1> QED
  BY <1>1, ContractInitially, ControlInductive, VerdictTrusted, PTL
     DEF Spec, ImplementsContract, Contract!Spec
=============================================================================
