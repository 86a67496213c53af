---------------------------- MODULE ProcessesProof ----------------------------
(***************************************************************************)
(* Proofs about the message loop, the policy of warnings and the scan for  *)
(* strings and comments, for every set of requests, documents, texts and   *)
(* directories, every project.godot and every source, and any number of    *)
(* messages.                                                               *)
(***************************************************************************)
EXTENDS Processes, FiniteSetTheorems, WellFoundedInduction, TLAPS

(***************************************************************************)
(* The worlds: a component is in the first state and makes the steps that  *)
(* its own module says.                                                    *)
(***************************************************************************)

LEMMA Worlds ==
    /\ AllInit /\ world = "messages" => Messages!Init
    /\ AllInit /\ world = "policy" => Policy!Init
    /\ AllInit /\ world = "lexical" => Scan!Init
    /\ [AllNext]_allVars => world' = world
    /\ [AllNext]_allVars /\ world = "messages" => [Messages!Next]_(Messages!vars)
    /\ [AllNext]_allVars /\ world = "policy" => [Policy!Next]_(Policy!vars)
    /\ [AllNext]_allVars /\ world = "lexical" => [Scan!Next]_(Scan!vars)
<1>1. /\ AllInit /\ world = "messages" => Messages!Init
      /\ AllInit /\ world = "policy" => Policy!Init
      /\ AllInit /\ world = "lexical" => Scan!Init
  BY DEF AllInit
<1>2. [AllNext]_allVars => world' = world
  BY DEF AllNext, In, allVars
<1>3. ASSUME AllNext, world = "messages" PROVE Messages!Next
  BY <1>3 DEF AllNext, In
<1>4. ASSUME AllNext, world = "policy" PROVE Policy!Next
  BY <1>4 DEF AllNext, In
<1>5. ASSUME AllNext, world = "lexical" PROVE Scan!Next
  BY <1>5 DEF AllNext, In
<1>6. UNCHANGED allVars => UNCHANGED Messages!vars
  BY DEF allVars, messagesVars, Messages!vars, Messages!selection, Messages!settings,
         Messages!documents, Messages!requests
<1>7. UNCHANGED allVars => UNCHANGED Policy!vars
  BY DEF allVars, policyVars, Policy!vars
<1>8. UNCHANGED allVars => UNCHANGED Scan!vars
  BY DEF allVars, lexicalVars, Scan!vars
<1> QED
  BY <1>1, <1>2, <1>3, <1>4, <1>5, <1>6, <1>7, <1>8

(* The modules that Session takes are its own to the prover.               *)
LEMMA Counted == ASSUME NEW S PROVE Messages!Cardinality(S) = Cardinality(S)
  BY DEF Messages!Cardinality, Cardinality

LEMMA CountedOne ==
    ASSUME NEW S, NEW id
    PROVE  Messages!Cardinality(S \cap {id}) = IF id \in S THEN 1 ELSE 0
<1>1. CASE id \in S
  <2>1. S \cap {id} = {id}
    BY <1>1
  <2>2. Cardinality(S \cap {id}) = 1
    BY <2>1, FS_Singleton
  <2> QED
    BY <1>1, <2>2, Counted
<1>2. CASE id \notin S
  <2>1. S \cap {id} = {}
    BY <1>2
  <2> QED
    BY <1>2, <2>1, FS_EmptySet, Counted
<1> QED
  BY <1>1, <1>2

(***************************************************************************)
(* The inductive invariants, one for each part of the state.               *)
(***************************************************************************)

(* The requests: a cancellation that is remembered has not refused a later *)
(* request yet.                                                            *)
Credits == [waiting : Int, next : Int]

RequestInv ==
    /\ pulls \subseteq Ids /\ cancelled \subseteq Ids
    /\ owed \in [Ids -> Int] /\ credit \in [Ids -> Credits]
    /\ \A id \in Ids : owed[id] = IF id \in pulls THEN 1 ELSE 0
    /\ shutdown \/ ended # "no" => pulls \subseteq late
    /\ \A id \in Ids : /\ credit[id].waiting >= 0
                       /\ credit[id].next >= IF id \in cancelled THEN 1 ELSE 0
    /\ pulls \cap cancelled = {}

(* The settings: there is no completion before initialize has succeeded,   *)
(* and none after it is sent again.                                        *)
SettingInv ==
    /\ Messages!CommandLineWins
    /\ initialized \in BOOLEAN
    /\ snippets = capable
    /\ ~initialized => item = "none"
    /\ Messages!SnippetsUnderstood

(* The texts: no document is open before initialize has succeeded, and the *)
(* buffers are what the client shows.                                      *)
TextInv ==
    /\ shown \in [Docs -> Texts \cup {Messages!Absent}] /\ disk \in [Docs -> Texts]
    /\ index \in [Docs -> Texts \cup {Messages!Absent}]
    /\ buffers = shown
    /\ ~initialized => \A d \in Docs : shown[d] = Messages!Absent
    /\ Messages!TextsCurrent

-----------------------------------------------------------------------------
(* The requests.                                                           *)

LEMMA RequestStep ==
    RequestInv /\ [Messages!Next]_(Messages!vars) => RequestInv'
<1> SUFFICES ASSUME RequestInv, [Messages!Next]_(Messages!vars)
             PROVE  RequestInv'
  OBVIOUS
<1> DEFINE requested == <<Messages!requests, shutdown, ended>>
<1>1. ASSUME NEW id \in Ids, Messages!Cancel(id) PROVE RequestInv'
  <2>1. /\ cancelled' = cancelled \cup {id} /\ pulls' = pulls \ {id} /\ late' = late \ {id}
        /\ UNCHANGED <<shutdown, ended>>
    BY <1>1 DEF Messages!Cancel
  <2>2. owed' = [owed EXCEPT ![id] = @ - (IF id \in pulls THEN 1 ELSE 0)]
    BY <1>1, CountedOne DEF Messages!Cancel
  <2>3. credit' = [credit EXCEPT ![id] =
                     [waiting |-> @.waiting + 1 - (IF id \in pulls THEN 1 ELSE 0), next |-> @.next + 1]]
    BY <1>1, CountedOne DEF Messages!Cancel
  <2>4. credit' \in [Ids -> Credits]
    BY <2>3 DEF RequestInv, Credits
  <2>5. \A i \in Ids : /\ credit'[i].waiting >= 0
                       /\ credit'[i].next >= IF i \in cancelled' THEN 1 ELSE 0
    <3> SUFFICES ASSUME NEW i \in Ids
                 PROVE  /\ credit'[i].waiting >= 0
                        /\ credit'[i].next >= IF i \in cancelled' THEN 1 ELSE 0
      OBVIOUS
    <3>1. CASE i = id
      <4>1. /\ credit'[id].waiting = credit[id].waiting + 1 - (IF id \in pulls THEN 1 ELSE 0)
            /\ credit'[id].next = credit[id].next + 1
        BY <2>3 DEF RequestInv
      <4>2. credit[id].waiting \in Int /\ credit[id].next \in Int
        BY DEF RequestInv, Credits
      <4>3. credit[id].waiting >= 0 /\ credit[id].next >= 0
        BY <4>2 DEF RequestInv
      <4> QED
        BY <3>1, <4>1, <4>2, <4>3
    <3>2. CASE i # id
      BY <3>2, <2>1, <2>3 DEF RequestInv
    <3> QED
      BY <3>1, <3>2
  <2>6. \A i \in Ids : owed'[i] = IF i \in pulls' THEN 1 ELSE 0
    BY <2>1, <2>2 DEF RequestInv
  <2>7. owed' \in [Ids -> Int]
    BY <2>2 DEF RequestInv
  <2> QED
    BY <2>1, <2>4, <2>5, <2>6, <2>7 DEF RequestInv
<1>2. ASSUME NEW id \in Ids, Messages!RefuseCancelled(id) PROVE RequestInv'
  <2>1. /\ id \in cancelled /\ cancelled' = cancelled \ {id}
        /\ credit' = [credit EXCEPT ![id].next = @ - 1]
        /\ UNCHANGED <<pulls, late, owed, shutdown, ended>>
    BY <1>2 DEF Messages!RefuseCancelled
  <2>2. credit[id].waiting \in Int /\ credit[id].next \in Int
    BY DEF RequestInv, Credits
  <2>3. /\ credit'[id] = [credit[id] EXCEPT !.next = @ - 1]
        /\ \A i \in Ids : i # id => credit'[i] = credit[i]
    BY <2>1 DEF RequestInv
  <2>4. credit'[id].waiting = credit[id].waiting /\ credit'[id].next = credit[id].next - 1
    BY <2>3 DEF RequestInv, Credits
  <2>5. credit' \in [Ids -> Credits]
    BY <2>1 DEF RequestInv, Credits
  <2>6. \A i \in Ids : /\ credit'[i].waiting >= 0
                       /\ credit'[i].next >= IF i \in cancelled' THEN 1 ELSE 0
    BY <2>1, <2>2, <2>3, <2>4 DEF RequestInv
  <2> QED
    BY <2>1, <2>5, <2>6 DEF RequestInv
<1>3. ASSUME NEW id \in Ids, Messages!Pull(id) PROVE RequestInv'
  BY <1>3 DEF Messages!Pull, Messages!Handled, Messages!Request, RequestInv
<1>4. ASSUME NEW id \in Ids, Messages!AnswerPull(id) PROVE RequestInv'
  BY <1>4 DEF Messages!AnswerPull, RequestInv
<1>5. ASSUME Messages!RequestStop
      PROVE  /\ pulls' \subseteq Ids /\ owed' \in [Ids -> Int] /\ pulls' \subseteq pulls
             /\ \A i \in Ids : owed'[i] = IF i \in pulls' THEN 1 ELSE 0
             /\ (shutdown /\ UNCHANGED pulls) \/ pulls' = {}
  <2>1. CASE shutdown
    BY <1>5, <2>1 DEF Messages!RequestStop, RequestInv
  <2>2. CASE ~shutdown
    <3>1. pulls' = {} /\ owed' = [i \in Ids |-> owed[i] - (IF i \in pulls THEN 1 ELSE 0)]
      BY <1>5, <2>2, CountedOne DEF Messages!RequestStop
    <3> QED
      BY <3>1 DEF RequestInv
  <2> QED
    BY <2>1, <2>2
<1>13. ASSUME NEW id \in Ids, Messages!Shutdown(id) PROVE RequestInv'
  <2>1. Messages!RequestStop /\ UNCHANGED <<ended, cancelled, late, credit>>
    BY <1>13 DEF Messages!Shutdown
  <2> QED
    BY <1>5, <2>1 DEF RequestInv
<1>11. ASSUME Messages!Exit PROVE RequestInv'
  <2>1. Messages!RequestStop /\ UNCHANGED <<shutdown, cancelled, late, credit>>
    BY <1>11 DEF Messages!Exit
  <2> QED
    BY <1>5, <2>1 DEF RequestInv
<1>6. ASSUME UNCHANGED requested PROVE RequestInv'
  BY <1>6 DEF Messages!requests, RequestInv
<1>7. ASSUME NEW id \in Ids, Messages!AnswerNow(id) \/ Messages!Complete(id) PROVE UNCHANGED requested
  BY <1>7 DEF Messages!AnswerNow, Messages!Complete, Messages!Responds
<1>8. ASSUME NEW id \in Ids, NEW support, NEW s, NEW folders, NEW root, NEW opens,
             Messages!Initialize(id, support, s, folders, root, opens)
      PROVE  UNCHANGED requested
  BY <1>8 DEF Messages!Initialize, Messages!Responds
<1>9. ASSUME NEW s, Messages!Configure(s) PROVE UNCHANGED requested
  BY <1>9 DEF Messages!Configure
<1>10. ASSUME NEW d, NEW text, Messages!DidOpen(d, text) \/ Messages!DidChange(d, text) \/ Messages!DidClose(d)
                                \/ Messages!DidChangeWatchedFiles(d, text)
       PROVE  UNCHANGED requested
  BY <1>10 DEF Messages!DidOpen, Messages!DidChange, Messages!DidClose, Messages!DidChangeWatchedFiles, Messages!Document
<1>12. ASSUME UNCHANGED Messages!vars PROVE UNCHANGED requested
  BY <1>12 DEF Messages!vars
<1> QED
  BY <1>1, <1>2, <1>3, <1>4, <1>5, <1>6, <1>7, <1>8, <1>9, <1>10, <1>11, <1>12, <1>13 DEF Messages!Next

LEMMA RequestHolds ==
    /\ Messages!Init => RequestInv
    /\ RequestInv => Messages!RequestsAnswered
<1>1. Messages!Init => RequestInv
  BY DEF Messages!Init, RequestInv, Credits
<1>2. RequestInv => Messages!RequestsAnswered
  <2> SUFFICES ASSUME RequestInv
               PROVE  Messages!AnsweredOnce /\ Messages!CancelsBounded
    BY DEF Messages!RequestsAnswered
  <2>1. Messages!AnsweredOnce
    BY CountedOne DEF RequestInv, Messages!AnsweredOnce
  <2>2. Messages!CancelsBounded
    BY CountedOne DEF RequestInv, Messages!CancelsBounded
  <2> QED
    BY <2>1, <2>2
<1> QED
  BY <1>1, <1>2

-----------------------------------------------------------------------------
(* The settings.                                                           *)

LEMMA SettingStep ==
    SettingInv /\ [Messages!Next]_(Messages!vars) => SettingInv'
<1> SUFFICES ASSUME SettingInv, [Messages!Next]_(Messages!vars)
             PROVE  SettingInv'
  OBVIOUS
<1> DEFINE settled == <<initialized, commandLine, engine, snippets, capable, item>>
<1>1. ASSUME UNCHANGED settled PROVE SettingInv'
  BY <1>1 DEF SettingInv, Messages!CommandLineWins, Messages!SnippetsUnderstood
<1>2. ASSUME NEW id \in Ids, NEW support, NEW s, NEW folders, NEW root,
             NEW opens \in BOOLEAN, Messages!Initialize(id, support, s, folders, root, opens)
      PROVE  SettingInv'
  <2>1. Messages!CommandLineWins'
    BY <1>2 DEF Messages!Initialize, Messages!EngineOf, Messages!CommandLineWins
  <2>2. initialized' \in BOOLEAN
    BY <1>2 DEF Messages!Initialize, SettingInv
  <2>3. snippets' = capable' /\ item' = "none"
    BY <1>2 DEF Messages!Initialize, Messages!Snippets, SettingInv
  <2> QED
    BY <2>1, <2>2, <2>3 DEF SettingInv, Messages!SnippetsUnderstood
<1>3. ASSUME NEW s, Messages!Configure(s) PROVE SettingInv'
  <2>1. Messages!CommandLineWins'
    BY <1>3 DEF Messages!Configure, Messages!EngineOf, Messages!CommandLineWins, Messages!selection
  <2> QED
    BY <2>1, <1>3 DEF Messages!Configure, SettingInv, Messages!SnippetsUnderstood
<1>4. ASSUME NEW id \in Ids, Messages!Complete(id) PROVE SettingInv'
  <2>1. item' = "name${1})$0" => snippets
    BY <1>4 DEF Messages!Complete, Messages!Inserted
  <2>2. initialized /\ UNCHANGED <<initialized, commandLine, engine, snippets, capable>>
    BY <1>4 DEF Messages!Complete, Messages!selection
  <2> QED
    BY <2>1, <2>2 DEF SettingInv, Messages!CommandLineWins, Messages!SnippetsUnderstood
<1>5. ASSUME NEW id \in Ids, \/ Messages!Cancel(id) \/ Messages!RefuseCancelled(id) \/ Messages!AnswerNow(id)
                             \/ Messages!Pull(id) \/ Messages!AnswerPull(id) \/ Messages!Shutdown(id)
      PROVE  UNCHANGED settled
  BY <1>5 DEF Messages!Cancel, Messages!RefuseCancelled, Messages!AnswerNow, Messages!Pull, Messages!AnswerPull, Messages!Shutdown, Messages!selection, Messages!settings
<1>6. ASSUME NEW d, NEW text, Messages!DidOpen(d, text) \/ Messages!DidChange(d, text) \/ Messages!DidClose(d)
                                \/ Messages!DidChangeWatchedFiles(d, text)
      PROVE  UNCHANGED settled
  BY <1>6 DEF Messages!DidOpen, Messages!DidChange, Messages!DidClose, Messages!DidChangeWatchedFiles, Messages!Document, Messages!selection, Messages!settings
<1>7. ASSUME Messages!Exit \/ UNCHANGED Messages!vars PROVE UNCHANGED settled
  BY <1>7 DEF Messages!Exit, Messages!vars, Messages!selection, Messages!settings
<1> QED
  BY <1>1, <1>2, <1>3, <1>4, <1>5, <1>6, <1>7 DEF Messages!Next

-----------------------------------------------------------------------------
(* The texts.                                                              *)

LEMMA TextStep ==
    TextInv /\ [Messages!Next]_(Messages!vars) => TextInv'
<1> SUFFICES ASSUME TextInv, [Messages!Next]_(Messages!vars)
             PROVE  TextInv'
  OBVIOUS
<1>0. Messages!Absent \notin Texts
  BY DirectoriesAssumption DEF Messages!Tree
<1> DEFINE texts == <<initialized, shown, disk, index, buffers>>
<1>1. ASSUME UNCHANGED texts PROVE TextInv'
  BY <1>1 DEF TextInv, Messages!TextsCurrent
<1>2. ASSUME NEW id, NEW support, NEW s, NEW folders, NEW root,
             NEW opens \in BOOLEAN, Messages!Initialize(id, support, s, folders, root, opens)
      PROVE  TextInv'
  <2>1. /\ UNCHANGED <<shown, disk, buffers>>
        /\ \/ /\ initialized' = opens
              /\ index' = [d \in Docs |-> IF opens /\ d \notin Rejected THEN disk[d] ELSE Messages!Absent]
           \/ UNCHANGED <<initialized, index>>
    BY <1>2 DEF Messages!Initialize
  <2>2. \A d \in Docs : shown[d] = Messages!Absent
    BY <1>2 DEF Messages!Initialize, TextInv
  <2> QED
    BY <2>1, <2>2 DEF TextInv, Messages!TextsCurrent
<1>3. ASSUME NEW d \in Docs, NEW text \in Texts,
             Messages!DidOpen(d, text) \/ Messages!DidChange(d, text)
      PROVE  TextInv'
  BY <1>0, <1>3 DEF Messages!DidOpen, Messages!DidChange, Messages!Document, TextInv, Messages!TextsCurrent
<1>4. ASSUME NEW d \in Docs, Messages!DidClose(d) PROVE TextInv'
  BY <1>0, <1>4 DEF Messages!DidClose, Messages!Document, TextInv, Messages!TextsCurrent
<1>5. ASSUME NEW d \in Docs, NEW text \in Texts, Messages!DidChangeWatchedFiles(d, text)
      PROVE  TextInv'
  BY <1>0, <1>5 DEF Messages!DidChangeWatchedFiles, Messages!NotBuffered, Messages!Document, TextInv, Messages!TextsCurrent
<1>6. ASSUME NEW id, \/ Messages!Cancel(id) \/ Messages!RefuseCancelled(id) \/ Messages!AnswerNow(id) \/ Messages!Complete(id)
                     \/ Messages!Pull(id) \/ Messages!AnswerPull(id) \/ Messages!Shutdown(id)
      PROVE  UNCHANGED texts
  BY <1>6 DEF Messages!Cancel, Messages!RefuseCancelled, Messages!AnswerNow, Messages!Complete, Messages!Pull, Messages!AnswerPull, Messages!Shutdown, Messages!documents
<1>7. ASSUME NEW s, Messages!Configure(s) PROVE UNCHANGED texts
  BY <1>7 DEF Messages!Configure, Messages!documents
<1>8. ASSUME Messages!Exit \/ UNCHANGED Messages!vars PROVE UNCHANGED texts
  BY <1>8 DEF Messages!Exit, Messages!vars, Messages!documents
<1> QED
  BY <1>1, <1>2, <1>3, <1>4, <1>5, <1>6, <1>7, <1>8 DEF Messages!Next

-----------------------------------------------------------------------------
(* The project.                                                            *)

(* A directory is one of those around itself, and so is the parent of each *)
(* of them.                                                                *)
LEMMA AroundClosed ==
    ASSUME NEW dir \in Messages!Directories
    PROVE  /\ dir \in Messages!Above(dir)
           /\ Messages!Above(dir) \in Messages!Upward
<1>1. dir \in Messages!Above(dir)
  BY DEF Messages!Above
<1>2. ASSUME NEW d \in Messages!Above(dir), ParentOf[d] # 0
      PROVE  ParentOf[d] \in Messages!Above(dir)
  <2>1. d \in Messages!Directories
    BY DEF Messages!Above
  <2>2. \A S \in Messages!Upward : dir \in S => ParentOf[d] \in S
    BY <1>2 DEF Messages!Above, Messages!Upward
  <2>3. Messages!Directories \in Messages!Upward
    BY DirectoriesAssumption DEF Messages!Upward, Messages!Tree
  <2>4. ParentOf[d] \in Messages!Directories
    BY <2>2, <2>3
  <2> QED
    BY <2>2, <2>4 DEF Messages!Above
<1>3. Messages!Above(dir) \subseteq Messages!Directories
  BY DEF Messages!Above
<1> QED
  BY <1>1, <1>2, <1>3 DEF Messages!Upward

(* Around a directory there is nothing but itself and what is around its   *)
(* parent.                                                                 *)
LEMMA AroundStep ==
    ASSUME NEW e \in Messages!Directories, NEW d \in Messages!Above(e), d # e
    PROVE  ParentOf[e] \in Messages!Directories /\ d \in Messages!Above(ParentOf[e])
<1> DEFINE rest == IF ParentOf[e] = 0 THEN {} ELSE Messages!Above(ParentOf[e])
<1>1. ParentOf[e] = 0 \/ ParentOf[e] \in Messages!Directories
  BY DirectoriesAssumption DEF Messages!Tree
<1>2. ParentOf[e] # 0 => rest \in Messages!Upward /\ ParentOf[e] \in rest
  BY <1>1, AroundClosed
<1>3. {e} \cup rest \in Messages!Upward
  BY <1>2 DEF Messages!Upward
<1>4. d \in {e} \cup rest
  BY <1>3 DEF Messages!Above
<1> QED
  BY <1>1, <1>4

(* What find_project_root finds holds a project, and every project around  *)
(* the directory is around it too.                                         *)
LEMMA RootNearest ==
    ASSUME NEW dir \in Messages!Directories, NEW r \in Messages!Root(dir)
    PROVE  /\ r \in Messages!Above(dir) \cap Projects
           /\ Messages!Above(dir) \cap Projects \subseteq Messages!Above(r)
<1> DEFINE holders == Messages!Above(dir) \cap Projects
<1>1. holders # {}
  BY DEF Messages!Root
<1>2. \E d \in holders : holders \subseteq Messages!Above(d)
  <2> SUFFICES ASSUME \A d \in holders : ~(holders \subseteq Messages!Above(d))
               PROVE  FALSE
    OBVIOUS
  <2> DEFINE S == {e \in Messages!Above(dir) : holders \subseteq Messages!Above(e)}
  <2>1. S \in Messages!Upward
    <3> SUFFICES ASSUME NEW e \in S, ParentOf[e] # 0
                 PROVE  ParentOf[e] \in S
      BY DEF Messages!Upward, Messages!Above
    <3>1. e \in Messages!Directories /\ e \notin holders
      BY DEF Messages!Above
    <3>2. ParentOf[e] \in Messages!Above(dir)
      BY AroundClosed DEF Messages!Upward
    <3>3. ASSUME NEW h \in holders PROVE h \in Messages!Above(ParentOf[e])
      <4>1. h \in Messages!Above(e) /\ h # e
        BY <3>1
      <4> QED
        BY <3>1, <4>1, AroundStep
    <3> QED
      BY <3>2, <3>3
  <2>2. dir \in S
    BY AroundClosed
  <2>3. Messages!Above(dir) \subseteq S
    BY <2>1, <2>2 DEF Messages!Above
  <2> QED
    BY <1>1, <2>3
<1>3. r = CHOOSE d \in holders : holders \subseteq Messages!Above(d)
  BY <1>1 DEF Messages!Root
<1> QED
  BY <1>2, <1>3

(* A root that is found is the nearest one, and one is found if there is   *)
(* any.                                                                    *)
LEMMA RootFound ==
    ASSUME NEW dir \in Messages!Directories
    PROVE  /\ \A r \in Messages!Root(dir) : Messages!Nearest(r, dir)
           /\ Messages!Root(dir) # {} <=> Messages!Placed(dir)
<1>1. \A r \in Messages!Root(dir) : Messages!Nearest(r, dir)
  BY RootNearest DEF Messages!Nearest
<1>2. Messages!Root(dir) # {} <=> Messages!Placed(dir)
  BY DEF Messages!Root, Messages!Placed
<1> QED
  BY <1>1, <1>2

(* The only root that is selected is the project around what was asked for.*)
LEMMA SelectedNearest ==
    ASSUME option \in Options, NEW folders \in SUBSET Messages!Directories,
           NEW root \in Messages!Directories,
           NEW r, Messages!Selected(folders, root) = {r}
    PROVE  \/ option # 0 /\ Messages!Nearest(r, option)
           \/ /\ option = 0 /\ \E d \in folders : Messages!Placed(d)
              /\ \A d \in folders : Messages!Placed(d) => Messages!Nearest(r, d)
           \/ /\ option = 0 /\ \A d \in folders : ~Messages!Placed(d)
              /\ Messages!Nearest(r, IF Messages!Placed(root) THEN root ELSE Current)
<1>1. /\ Current \in Messages!Directories /\ 0 \notin Messages!Directories
      /\ option # 0 => option \in Messages!Directories
  BY DirectoriesAssumption DEF Messages!Tree
<1>2. CASE option # 0
  BY <1>1, <1>2, RootFound DEF Messages!Selected
<1> DEFINE given == UNION {Messages!Root(d) : d \in folders}
<1>3. CASE option = 0 /\ given # {}
  <2>1. given = {r}
    BY <1>3 DEF Messages!Selected, Messages!Roots
  <2>2. \A d \in folders : Messages!Root(d) \subseteq {r}
    BY <2>1
  <2>3. \E d \in folders : Messages!Root(d) # {}
    BY <1>3
  <2>4. \A d \in folders : /\ Messages!Placed(d) <=> Messages!Root(d) # {}
                          /\ r \in Messages!Root(d) => Messages!Nearest(r, d)
    BY RootFound
  <2>5. \A d \in folders : Messages!Placed(d) => Messages!Nearest(r, d)
    <3> SUFFICES ASSUME NEW d \in folders, Messages!Placed(d)
                 PROVE  Messages!Nearest(r, d)
      OBVIOUS
    <3>1. r \in Messages!Root(d)
      <4>1. Messages!Root(d) # {}
        BY RootFound
      <4>2. Messages!Root(d) \subseteq {r}
        BY <2>2
      <4> QED
        BY <4>1, <4>2
    <3> QED
      BY <2>4, <3>1
  <2>6. \E d \in folders : Messages!Placed(d)
    BY <2>3, RootFound
  <2> QED
    BY <1>3, <2>5, <2>6
<1>4. CASE option = 0 /\ given = {}
  <2>1. \A d \in folders : ~Messages!Placed(d)
    BY <1>4, RootFound
  <2>2. CASE Messages!Root(root) # {}
    <3>1. Messages!Root(root) = {r}
      BY <1>4, <2>2 DEF Messages!Selected, Messages!Roots
    <3> QED
      BY <1>4, <2>1, <3>1, RootFound
  <2>3. CASE Messages!Root(root) = {}
    <3>1. Messages!Root(Current) = {r}
      BY <1>4, <2>3 DEF Messages!Selected, Messages!Roots
    <3> QED
      BY <1>1, <1>4, <2>1, <2>3, <3>1, RootFound
  <2> QED
    BY <2>2, <2>3
<1> QED
  BY <1>2, <1>3, <1>4

(* The project, and the option that the server was started with.           *)
ProjectInv == option \in Options /\ Messages!ProjectNearest

LEMMA ProjectStep ==
    ProjectInv /\ [Messages!Next]_(Messages!vars) => ProjectInv'
<1> SUFFICES ASSUME ProjectInv, [Messages!Next]_(Messages!vars)
             PROVE  ProjectInv'
  OBVIOUS
<1> DEFINE placed == <<initialized, project, asked, option>>
<1>1. ASSUME UNCHANGED placed PROVE ProjectInv'
  BY <1>1 DEF ProjectInv, Messages!ProjectNearest, Messages!Nearest, Messages!Placed, Messages!Above,
              Messages!Upward, Messages!Directories
<1>0. Messages!FolderSets \subseteq SUBSET Messages!Directories /\ Messages!ClientRoots \subseteq Messages!Directories
  BY DirectoriesAssumption DEF Messages!FolderSets, Messages!ClientRoots, Messages!Tree
<1>2. ASSUME NEW id \in Ids, NEW support, NEW s, NEW folders \in SUBSET Messages!Directories,
             NEW root \in Messages!Directories, NEW opens \in BOOLEAN,
             Messages!Initialize(id, support, s, folders, root, opens),
             ~UNCHANGED placed
      PROVE  ProjectInv'
  <2> DEFINE roots == Messages!Selected(folders, root)
  <2>1. /\ roots \in {{r} : r \in roots} /\ project' \in roots /\ UNCHANGED option
        /\ asked' = [folders |-> folders, root |-> root]
    BY <1>2 DEF Messages!Initialize
  <2>3. roots = {project'}
    BY <2>1
  <2>4. asked'.folders = folders /\ asked'.root = root
    BY <2>1
  <2>5. option \in Options
    BY DEF ProjectInv
  <2>6. ASSUME NEW r, roots = {r}
        PROVE  \/ option # 0 /\ Messages!Nearest(r, option)
               \/ /\ option = 0 /\ \E d \in folders : Messages!Placed(d)
                  /\ \A d \in folders : Messages!Placed(d) => Messages!Nearest(r, d)
               \/ /\ option = 0 /\ \A d \in folders : ~Messages!Placed(d)
                  /\ Messages!Nearest(r, IF Messages!Placed(root) THEN root ELSE Current)
    BY <2>5, <2>6, SelectedNearest
  <2> HIDE DEF roots
  <2>7. \/ option # 0 /\ Messages!Nearest(project', option)
        \/ /\ option = 0 /\ \E d \in folders : Messages!Placed(d)
           /\ \A d \in folders : Messages!Placed(d) => Messages!Nearest(project', d)
        \/ /\ option = 0 /\ \A d \in folders : ~Messages!Placed(d)
           /\ Messages!Nearest(project', IF Messages!Placed(root) THEN root ELSE Current)
    BY <2>3, <2>6
  <2> QED
    BY <2>1, <2>4, <2>7 DEF ProjectInv, Messages!ProjectNearest, Messages!Nearest, Messages!Placed,
       Messages!Above, Messages!Upward, Messages!Directories
<1>3. ASSUME NEW id \in Ids, \/ Messages!Cancel(id) \/ Messages!RefuseCancelled(id) \/ Messages!AnswerNow(id)
                             \/ Messages!Complete(id) \/ Messages!Pull(id) \/ Messages!AnswerPull(id)
                             \/ Messages!Shutdown(id)
      PROVE  UNCHANGED placed
  BY <1>3 DEF Messages!Cancel, Messages!RefuseCancelled, Messages!AnswerNow, Messages!Complete,
              Messages!Pull, Messages!AnswerPull, Messages!Shutdown, Messages!selection
<1>4. ASSUME NEW d, NEW text, \/ Messages!DidOpen(d, text) \/ Messages!DidChange(d, text)
                              \/ Messages!DidClose(d) \/ Messages!DidChangeWatchedFiles(d, text)
      PROVE  UNCHANGED placed
  BY <1>4 DEF Messages!DidOpen, Messages!DidChange, Messages!DidClose,
              Messages!DidChangeWatchedFiles, Messages!Document, Messages!selection
<1>5. ASSUME NEW s, Messages!Configure(s) PROVE UNCHANGED placed
  BY <1>5 DEF Messages!Configure, Messages!selection
<1>6. ASSUME Messages!Exit \/ UNCHANGED Messages!vars PROVE UNCHANGED placed
  BY <1>6 DEF Messages!Exit, Messages!vars, Messages!selection
<1> QED
  BY <1>0, <1>1, <1>2, <1>3, <1>4, <1>5, <1>6 DEF Messages!Next

-----------------------------------------------------------------------------
(* The message loop as a whole.                                            *)

LEMMA StateHolds ==
    /\ Messages!Init => SettingInv /\ TextInv /\ ProjectInv
    /\ SettingInv /\ TextInv /\ ProjectInv => Messages!StateFollowsClient
<1>1. Messages!Init => SettingInv /\ TextInv /\ ProjectInv
  BY DEF Messages!Init, SettingInv, Messages!CommandLineWins, Messages!SnippetsUnderstood,
         TextInv, Messages!TextsCurrent, ProjectInv, Messages!ProjectNearest
<1> QED
  BY <1>1 DEF SettingInv, TextInv, ProjectInv, Messages!StateFollowsClient

MessagesInv == RequestInv /\ SettingInv /\ TextInv /\ ProjectInv

LEMMA MessagesStep ==
    /\ AllInit /\ world = "messages" => MessagesInv
    /\ MessagesInv /\ world = "messages" /\ [AllNext]_allVars => MessagesInv'
    /\ [AllNext]_allVars => world' = world
<1>1. AllInit /\ world = "messages" => MessagesInv
  BY Worlds, RequestHolds, StateHolds DEF MessagesInv
<1>2. MessagesInv /\ world = "messages" /\ [AllNext]_allVars => MessagesInv'
  BY Worlds, RequestStep, SettingStep, TextStep, ProjectStep DEF MessagesInv
<1> QED
  BY <1>1, <1>2, Worlds

(* No request of a session is answered twice, and what waits at a shutdown *)
(* or at the end is answered then; a pull that comes after the shutdown is *)
(* kept without an answer.  A cancellation refuses one pull that waits and *)
(* one later request of its id at most, in whatever order requests are     *)
(* cancelled, pulled and shut down (main.cpp: the dispatch, $/cancelRequest*)
(* and diagnostic_coordinator.cpp: request_stop).                          *)
THEOREM RequestsGetAnswers == AllSpec => []RequestsAnswered
<1> DEFINE Inv == ~(world = "messages") \/ MessagesInv
<1>1. AllInit => Inv
  BY MessagesStep
<1>2. Inv /\ [AllNext]_allVars => Inv'
  BY MessagesStep
<1>3. Inv => RequestsAnswered
  BY RequestHolds DEF MessagesInv, RequestsAnswered
<1> QED
  BY <1>1, <1>2, <1>3, PTL DEF AllSpec

(* The state of a session is what its client and its command line asked    *)
(* for: the engine of the command line, snippets only for a client that    *)
(* understands them, the innermost project around the directory of         *)
(* --project or, without that option, around the folders, the root or the  *)
(* working directory, in this order, and the editor's text of each open    *)
(* document and the file of every other.  A session whose workspace failed *)
(* to open is not initialized and promises nothing of the project          *)
(* (main.cpp: apply_configuration, project_from_initialize, the documents).*)
THEOREM StateIsTheClients == AllSpec => []StateFollowsClient
<1> DEFINE Inv == ~(world = "messages") \/ MessagesInv
<1>1. AllInit => Inv
  BY MessagesStep
<1>2. Inv /\ [AllNext]_allVars => Inv'
  BY MessagesStep
<1>3. Inv => StateFollowsClient
  BY StateHolds DEF MessagesInv, StateFollowsClient
<1> QED
  BY <1>1, <1>2, <1>3, PTL DEF AllSpec

-----------------------------------------------------------------------------
(* The policy of warnings: what the lines read last say.                   *)

(* Numbers up to a bound have a greatest one.                              *)
LEMMA GreatestExists ==
    ASSUME NEW n \in Nat, NEW S \in SUBSET (0..n), S # {}
    PROVE  \E x \in S : \A y \in S : y <= x
<1> DEFINE less == OpToRel(<, Nat)
           T == {n - y : y \in S}
<1>1. T \subseteq Nat /\ T # {}
  <2>1. \A y \in S : y \in Int /\ n - y \in Nat
    OBVIOUS
  <2> QED
    BY <2>1
<1>2. PICK t \in T : \A u \in T : ~(<<u, t>> \in less)
  <2> HIDE DEF T
  <2> QED
    BY <1>1, WFMin, NatLessThanWellFounded
<1>3. \A u \in T : ~(u < t)
  BY <1>1, <1>2 DEF OpToRel
<1>4. PICK x \in S : t = n - x
  BY <1>2
<1>5. ASSUME NEW y \in S PROVE y <= x
  <2>1. ~(n - y < n - x)
    BY <1>3, <1>4
  <2> HIDE DEF T, less
  <2>2. n \in Int /\ x \in Int /\ y \in Int
    OBVIOUS
  <2> QED
    BY <2>1, <2>2
<1> QED
  BY <1>5

LatestOf(S) == IF S = {} THEN 0 ELSE CHOOSE n \in S : \A m \in S : m <= n

LEMMA LatestOfSet ==
    ASSUME NEW n \in Nat, NEW S \in SUBSET (1..n)
    PROVE  /\ S # {} => LatestOf(S) \in S
           /\ S = {} => LatestOf(S) = 0
           /\ LatestOf(S \cup {n + 1}) = n + 1
<1>1. ASSUME S # {} PROVE LatestOf(S) \in S
  <2>1. S \in SUBSET (0..n)
    OBVIOUS
  <2>2. \E x \in S : \A y \in S : y <= x
    BY <1>1, <2>1, GreatestExists
  <2> QED
    BY <1>1, <2>2 DEF LatestOf
<1>2. LatestOf(S \cup {n + 1}) = n + 1
  <2> DEFINE U == S \cup {n + 1}
  <2>1. n + 1 \in U /\ \A m \in U : m <= n + 1
    OBVIOUS
  <2>2. \A x \in U : (\A m \in U : m <= x) => x = n + 1
    BY <2>1
  <2>3. (CHOOSE x \in U : \A m \in U : m <= x) = n + 1
    <3> HIDE DEF U
    <3> QED
      BY <2>1, <2>2
  <2> QED
    BY <2>1, <2>3 DEF LatestOf
<1> QED
  BY <1>1, <1>2 DEF LatestOf

(* The lines of a debug section that have a key, and those that set a      *)
(* warning to a level there is.                                            *)
Told(key) == {n \in DOMAIN read : Policy!InDebug(n) /\ read[n].key = key}
SetTo(name) == {n \in DOMAIN read : Policy!InDebug(n) /\ (read[n].key = "level"
                                        /\ read[n].name = name /\ read[n].value \in 0..2)}

(* What the policy keeps is what these lines say.                          *)
PolicyInv ==
    /\ read \in Seq(Lines)
    /\ (section = "debug") <=>
           \E m \in 1..Len(read) :
               /\ read[m].key = "section" /\ read[m].section = "debug"
               /\ \A k \in (m + 1)..Len(read) : read[k].key # "section"
    /\ enabled = IF Told("enable") = {} THEN TRUE ELSE read[LatestOf(Told("enable"))].on
    /\ directories = IF Told("directory_rules") = {} THEN {Policy!Addons}
                     ELSE read[LatestOf(Told("directory_rules"))].rules
    /\ levels = [name \in Names |->
                    IF SetTo(name) # {} THEN read[LatestOf(SetTo(name))].value
                    ELSE IF name \in Policy!Defaults THEN 1 ELSE 0]

(* Reading a line leaves those before it, and makes it count when the      *)
(* section is debug.                                                       *)
LEMMA ReadCounts ==
    ASSUME PolicyInv, NEW line \in Lines, Policy!Read(line)
    PROVE  /\ read' \in Seq(Lines) /\ Len(read) \in Nat /\ Len(read') = Len(read) + 1
           /\ read'[Len(read) + 1] = line
           /\ \A k \in 1..Len(read) : read'[k] = read[k] /\ (Policy!InDebug(k)' <=> Policy!InDebug(k))
           /\ \A k : k = Len(read) + 1 =>
                  (Policy!InDebug(k)' <=> section = "debug" /\ line.key # "section")
<1> DEFINE n == Len(read)
<1>1. /\ read' \in Seq(Lines) /\ n \in Nat /\ Len(read') = n + 1
      /\ read'[n + 1] = line /\ \A k \in 1..n : read'[k] = read[k]
  BY DEF PolicyInv, Policy!Read
<1>2. ASSUME NEW k \in 1..n PROVE Policy!InDebug(k)' <=> Policy!InDebug(k)
  <2>1. \A m \in 1..(k - 1) : m \in 1..n
    BY <1>1
  <2>2. \A m \in 1..(k - 1) : \A j \in (m + 1)..k : j \in 1..n
    BY <1>1
  <2> QED
    BY <1>1, <2>1, <2>2 DEF Policy!InDebug
<1>3. ASSUME NEW c, c = n + 1
      PROVE  Policy!InDebug(c)' <=> section = "debug" /\ line.key # "section"
  <2> DEFINE Opens(m) == read[m].key = "section" /\ read[m].section = "debug"
  <2>1. (section = "debug") <=> \E m \in 1..n : Opens(m) /\ \A k \in (m + 1)..n : read[k].key # "section"
    BY DEF PolicyInv
  <2>2. Policy!InDebug(c)' <=>
           \E m \in 1..n : Opens(m) /\ \A k \in (m + 1)..(n + 1) : read'[k].key # "section"
    <3>1. c - 1 = n
      BY <1>1, <1>3
    <3>2. Policy!InDebug(c)' <=>
             \E m \in 1..n :
                 /\ read'[m].key = "section" /\ read'[m].section = "debug"
                 /\ \A k \in (m + 1)..c : read'[k].key # "section"
      BY <3>1 DEF Policy!InDebug
    <3> QED
      BY <1>1, <1>3, <3>2
  <2>3. ASSUME NEW m \in 1..n
        PROVE  (\A k \in (m + 1)..(n + 1) : read'[k].key # "section")
               <=> (line.key # "section" /\ \A k \in (m + 1)..n : read[k].key # "section")
    <3>1. \A k : k \in (m + 1)..(n + 1) <=> (k = n + 1 \/ k \in (m + 1)..n)
      BY <1>1
    <3>2. \A k \in (m + 1)..n : k \in 1..n
      BY <1>1
    <3> QED
      BY <1>1, <3>1, <3>2
  <2> QED
    BY <2>1, <2>2, <2>3
<1> QED
  BY <1>1, <1>2, <1>3

(* So it joins the lines that count for its key.                           *)
LEMMA ReadTells ==
    ASSUME PolicyInv, NEW line \in Lines, Policy!Read(line), NEW key, key # "section"
    PROVE  /\ Told(key) \in SUBSET (1..Len(read))
           /\ Told(key)' = Told(key) \cup IF section = "debug" /\ line.key = key
                                          THEN {Len(read) + 1} ELSE {}
<1> DEFINE n == Len(read)
<1>2. n \in Nat /\ DOMAIN read = 1..n /\ DOMAIN read' = 1..(n + 1)
  BY ReadCounts DEF PolicyInv
<1>3. ASSUME NEW k \in 1..n PROVE k \in Told(key)' <=> k \in Told(key)
  <2>1. k \in DOMAIN read /\ k \in DOMAIN read'
    BY <1>2
  <2>2. read'[k] = read[k] /\ (Policy!InDebug(k)' <=> Policy!InDebug(k))
    BY ReadCounts
  <2> QED
    BY <2>1, <2>2 DEF Told
<1>4. n + 1 \in Told(key)' <=> section = "debug" /\ line.key = key
  <2>1. n + 1 \in DOMAIN read' /\ read'[n + 1] = line
    BY <1>2, ReadCounts
  <2>2. \A k : k = n + 1 => (Policy!InDebug(k)' <=> section = "debug" /\ line.key # "section")
    BY ReadCounts
  <2> QED
    BY <2>1, <2>2 DEF Told
<1>5. Told(key) \subseteq 1..n /\ Told(key)' \subseteq 1..(n + 1)
  BY <1>2 DEF Told
<1>6. \A k \in 1..(n + 1) : k \in 1..n \/ k = n + 1
  BY <1>2
<1>7. n + 1 \notin 1..n
  BY <1>2
<1> HIDE DEF n
<1> QED
  BY <1>3, <1>4, <1>5, <1>6, <1>7 DEF n

LEMMA ReadSets ==
    ASSUME PolicyInv, NEW line \in Lines, Policy!Read(line), NEW name
    PROVE  /\ SetTo(name) \in SUBSET (1..Len(read))
           /\ SetTo(name)' = SetTo(name) \cup
                  IF section = "debug" /\ line.key = "level" /\ line.name = name /\ line.value \in 0..2
                  THEN {Len(read) + 1} ELSE {}
<1> DEFINE n == Len(read)
<1>2. n \in Nat /\ DOMAIN read = 1..n /\ DOMAIN read' = 1..(n + 1)
  BY ReadCounts DEF PolicyInv
<1>3. ASSUME NEW k \in 1..n PROVE k \in SetTo(name)' <=> k \in SetTo(name)
  <2>1. k \in DOMAIN read /\ k \in DOMAIN read'
    BY <1>2
  <2>2. read'[k] = read[k] /\ (Policy!InDebug(k)' <=> Policy!InDebug(k))
    BY ReadCounts
  <2> QED
    BY <2>1, <2>2 DEF SetTo
<1>4. n + 1 \in SetTo(name)' <=> section = "debug" /\ line.key = "level"
                                /\ line.name = name /\ line.value \in 0..2
  <2>1. n + 1 \in DOMAIN read' /\ read'[n + 1] = line
    BY <1>2, ReadCounts
  <2>2. \A k : k = n + 1 => (Policy!InDebug(k)' <=> section = "debug" /\ line.key # "section")
    BY ReadCounts
  <2> QED
    BY <2>1, <2>2 DEF SetTo
<1>5. SetTo(name) \subseteq 1..n /\ SetTo(name)' \subseteq 1..(n + 1)
  BY <1>2 DEF SetTo
<1>6. \A k \in 1..(n + 1) : k \in 1..n \/ k = n + 1
  BY <1>2
<1>7. n + 1 \notin 1..n
  BY <1>2
<1> HIDE DEF n
<1> QED
  BY <1>3, <1>4, <1>5, <1>6, <1>7 DEF n

(* The section that is read is that of the last line that opens one.       *)
LEMMA SectionStep ==
    ASSUME PolicyInv, NEW line \in Lines, Policy!Read(line),
           section' = IF line.key = "section" THEN line.section ELSE section
    PROVE  (section' = "debug") <=>
               \E m \in 1..Len(read') :
                   /\ read'[m].key = "section" /\ read'[m].section = "debug"
                   /\ \A k \in (m + 1)..Len(read') : read'[k].key # "section"
<1> DEFINE n == Len(read)
           Opens(m) == read'[m].key = "section" /\ read'[m].section = "debug"
           Closed(m) == \A k \in (m + 1)..(n + 1) : read'[k].key # "section"
<1>1. /\ n \in Nat /\ Len(read') = n + 1 /\ read'[n + 1] = line
      /\ \A k \in 1..n : read'[k] = read[k]
  BY ReadCounts
<1>2. Closed(n + 1)
  BY <1>1
<1>3. \A m \in 1..(n + 1) : m \in 1..n \/ m = n + 1
  BY <1>1
<1>4. \A m \in 1..n : n + 1 \in (m + 1)..(n + 1)
  BY <1>1
<1>5. CASE line.key = "section"
  <2>1. \A m \in 1..n : ~Closed(m)
    BY <1>1, <1>4, <1>5
  <2>2. (\E m \in 1..(n + 1) : Opens(m) /\ Closed(m)) <=> Opens(n + 1)
    <3> HIDE DEF Opens, Closed
    <3>1. n + 1 \in 1..(n + 1)
      BY <1>1
    <3> QED
      BY <1>2, <1>3, <2>1, <3>1
  <2> QED
    BY <1>1, <1>5, <2>2
<1>6. CASE line.key # "section"
  <2>1. ~Opens(n + 1)
    BY <1>1, <1>6
  <2>2. ASSUME NEW m \in 1..n
        PROVE  Closed(m) <=> \A k \in (m + 1)..n : read[k].key # "section"
    <3>1. \A k : k \in (m + 1)..(n + 1) <=> (k = n + 1 \/ k \in (m + 1)..n)
      BY <1>1
    <3>2. \A k \in (m + 1)..n : k \in 1..n
      BY <1>1
    <3> QED
      BY <1>1, <1>6, <3>1, <3>2
  <2>3. (section = "debug") <=>
            \E m \in 1..n : /\ read[m].key = "section" /\ read[m].section = "debug"
                            /\ \A k \in (m + 1)..n : read[k].key # "section"
    BY DEF PolicyInv
  <2>4. (section = "debug") <=> \E m \in 1..n : Opens(m) /\ Closed(m)
    BY <1>1, <2>2, <2>3
  <2>5. \A m \in 1..n : m \in 1..(n + 1)
    BY <1>1
  <2>6. (section = "debug") <=> \E m \in 1..(n + 1) : Opens(m) /\ Closed(m)
    <3> HIDE DEF Opens, Closed
    <3> QED
      BY <1>3, <2>1, <2>4, <2>5
  <2> QED
    BY <1>1, <1>6, <2>6
<1> QED
  BY <1>5, <1>6

(* What does not count leaves the latest line; what counts is the latest.  *)
LEMMA LatestStep ==
    ASSUME PolicyInv, NEW line \in Lines, Policy!Read(line)
    PROVE  \A S \in SUBSET (1..Len(read)) :
               /\ S # {} => read'[LatestOf(S)] = read[LatestOf(S)]
               /\ read'[LatestOf(S \cup {Len(read) + 1})] = line
<1> SUFFICES ASSUME NEW S \in SUBSET (1..Len(read))
             PROVE  /\ S # {} => read'[LatestOf(S)] = read[LatestOf(S)]
                    /\ read'[LatestOf(S \cup {Len(read) + 1})] = line
  OBVIOUS
<1>1. Len(read) \in Nat
  BY ReadCounts
<1> QED
  BY <1>1, ReadCounts, LatestOfSet

LEMMA PolicyStep ==
    PolicyInv /\ [Policy!Next]_(Policy!vars) => PolicyInv'
<1> SUFFICES ASSUME PolicyInv, [Policy!Next]_(Policy!vars)
             PROVE  PolicyInv'
  OBVIOUS
<1>1. ASSUME UNCHANGED Policy!vars PROVE PolicyInv'
  BY <1>1 DEF PolicyInv, Policy!vars, Told, SetTo, Policy!InDebug
<1>2. ASSUME NEW line \in Lines, Policy!Read(line),
             \/ Policy!ReadSection(line) \/ Policy!ReadIgnored(line) \/ Policy!ReadEnable(line)
             \/ Policy!ReadLevel(line) \/ Policy!ReadRules(line)
      PROVE  PolicyInv'
  <2> DEFINE told == section = "debug"
  <2>1. /\ section' = IF line.key = "section" THEN line.section ELSE section
        /\ enabled' = IF told /\ line.key = "enable" THEN line.on ELSE enabled
        /\ directories' = IF told /\ line.key = "directory_rules" THEN line.rules ELSE directories
        /\ levels' = IF told /\ line.key = "level" /\ line.value \in 0..2
                     THEN [levels EXCEPT ![line.name] = line.value] ELSE levels
    BY <1>2 DEF Policy!ReadSection, Policy!ReadIgnored, Policy!ReadEnable, Policy!ReadLevel,
                Policy!ReadRules, Policy!Setting
  <2>2. read' \in Seq(Lines)
    BY <1>2, ReadCounts
  <2>3. \A S \in SUBSET (1..Len(read)) :
            /\ S # {} => read'[LatestOf(S)] = read[LatestOf(S)]
            /\ read'[LatestOf(S \cup {Len(read) + 1})] = line
    BY <1>2, LatestStep
  <2>4. (section' = "debug") <=>
               \E m \in 1..Len(read') :
                   /\ read'[m].key = "section" /\ read'[m].section = "debug"
                   /\ \A k \in (m + 1)..Len(read') : read'[k].key # "section"
    BY <1>2, <2>1, SectionStep
  <2>5. enabled' = IF Told("enable")' = {} THEN TRUE ELSE read'[LatestOf(Told("enable")')].on
    <3> DEFINE S == Told("enable")
    <3>1. S \in SUBSET (1..Len(read)) /\ S' = S \cup IF told /\ line.key = "enable"
                                                    THEN {Len(read) + 1} ELSE {}
      BY <1>2, ReadTells
    <3>2. enabled = IF S = {} THEN TRUE ELSE read[LatestOf(S)].on
      BY DEF PolicyInv
    <3>3. CASE told /\ line.key = "enable"
      <4>1. S' = S \cup {Len(read) + 1}
        BY <3>1, <3>3
      <4>2. read'[LatestOf(S')] = line
        BY <2>3, <3>1, <4>1
      <4> QED
        BY <2>1, <3>2, <3>3, <4>1, <4>2
    <3>4. CASE ~(told /\ line.key = "enable")
      <4>1. S' = S
        BY <3>1, <3>4
      <4>2. S # {} => read'[LatestOf(S')] = read[LatestOf(S)]
        BY <2>3, <3>1, <4>1
      <4> QED
        BY <2>1, <3>2, <3>4, <4>1, <4>2
    <3> QED
      BY <3>3, <3>4
  <2>6. directories' = IF Told("directory_rules")' = {} THEN {Policy!Addons}
                       ELSE read'[LatestOf(Told("directory_rules")')].rules
    <3> DEFINE S == Told("directory_rules")
    <3>1. S \in SUBSET (1..Len(read)) /\ S' = S \cup IF told /\ line.key = "directory_rules"
                                                    THEN {Len(read) + 1} ELSE {}
      BY <1>2, ReadTells
    <3>2. directories = IF S = {} THEN {Policy!Addons} ELSE read[LatestOf(S)].rules
      BY DEF PolicyInv
    <3>3. CASE told /\ line.key = "directory_rules"
      <4>1. S' = S \cup {Len(read) + 1}
        BY <3>1, <3>3
      <4>2. read'[LatestOf(S')] = line
        BY <2>3, <3>1, <4>1
      <4> QED
        BY <2>1, <3>2, <3>3, <4>1, <4>2
    <3>4. CASE ~(told /\ line.key = "directory_rules")
      <4>1. S' = S
        BY <3>1, <3>4
      <4>2. S # {} => read'[LatestOf(S')] = read[LatestOf(S)]
        BY <2>3, <3>1, <4>1
      <4> QED
        BY <2>1, <3>2, <3>4, <4>1, <4>2
    <3> QED
      BY <3>3, <3>4
  <2>7. levels' = [name \in Names |->
                      IF SetTo(name)' # {} THEN read'[LatestOf(SetTo(name)')].value
                      ELSE IF name \in Policy!Defaults THEN 1 ELSE 0]
    <3> DEFINE Level(name) == IF SetTo(name) # {} THEN read[LatestOf(SetTo(name))].value
                              ELSE IF name \in Policy!Defaults THEN 1 ELSE 0
               LevelNow(name) == IF SetTo(name)' # {} THEN read'[LatestOf(SetTo(name)')].value
                              ELSE IF name \in Policy!Defaults THEN 1 ELSE 0
    <3>1. levels = [name \in Names |-> Level(name)]
      BY DEF PolicyInv
    <3>2. ASSUME NEW name \in Names
          PROVE  LevelNow(name) = IF told /\ line.key = "level" /\ line.name = name /\ line.value \in 0..2
                                  THEN line.value ELSE Level(name)
      <4> DEFINE S == SetTo(name)
      <4>1. S \in SUBSET (1..Len(read))
            /\ S' = S \cup IF told /\ line.key = "level" /\ line.name = name /\ line.value \in 0..2
                           THEN {Len(read) + 1} ELSE {}
        BY <1>2, ReadSets
      <4>2. CASE told /\ line.key = "level" /\ line.name = name /\ line.value \in 0..2
        <5>1. S' = S \cup {Len(read) + 1}
          BY <4>1, <4>2
        <5>2. read'[LatestOf(S')] = line
          BY <2>3, <4>1, <5>1
        <5> QED
          BY <4>2, <5>1, <5>2
      <4>3. CASE ~(told /\ line.key = "level" /\ line.name = name /\ line.value \in 0..2)
        <5>1. S' = S
          BY <4>1, <4>3
        <5>2. S # {} => read'[LatestOf(S')] = read[LatestOf(S)]
          BY <2>3, <4>1, <5>1
        <5> QED
          BY <4>3, <5>1, <5>2
      <4> QED
        BY <4>2, <4>3
    <3> HIDE DEF Level, LevelNow
    <3>3. levels' = [name \in Names |-> LevelNow(name)]
      BY <2>1, <3>1, <3>2
    <3> QED
      BY <3>3 DEF LevelNow
  <2> QED
    BY <2>2, <2>4, <2>5, <2>6, <2>7 DEF PolicyInv
<1>3. ASSUME NEW line \in Lines,
             \/ Policy!ReadSection(line) \/ Policy!ReadIgnored(line) \/ Policy!ReadEnable(line)
             \/ Policy!ReadLevel(line) \/ Policy!ReadRules(line)
      PROVE  Policy!Read(line)
  BY <1>3 DEF Policy!ReadSection, Policy!ReadIgnored, Policy!ReadEnable, Policy!ReadLevel,
              Policy!ReadRules
<1> QED
  BY <1>1, <1>2, <1>3 DEF Policy!Next

(* A line counts from 1: 0 says that there is none.                        *)
LEMMA ToldNumbers ==
    PolicyInv => /\ \A key : (LatestOf(Told(key)) = 0) <=> (Told(key) = {})
                 /\ \A name : (LatestOf(SetTo(name)) = 0) <=> (SetTo(name) = {})
<1> SUFFICES ASSUME PolicyInv
             PROVE  /\ \A key : (LatestOf(Told(key)) = 0) <=> (Told(key) = {})
                    /\ \A name : (LatestOf(SetTo(name)) = 0) <=> (SetTo(name) = {})
  OBVIOUS
<1>1. Len(read) \in Nat /\ DOMAIN read = 1..Len(read)
  BY DEF PolicyInv
<1>2. ASSUME NEW S \in SUBSET (1..Len(read)) PROVE (LatestOf(S) = 0) <=> (S = {})
  <2>1. /\ S # {} => LatestOf(S) \in S
        /\ S = {} => LatestOf(S) = 0
    BY <1>1, LatestOfSet
  <2>2. 0 \notin S
    OBVIOUS
  <2> QED
    BY <2>1, <2>2
<1>3. \A key : Told(key) \in SUBSET (1..Len(read))
  BY <1>1 DEF Told
<1>4. \A name : SetTo(name) \in SUBSET (1..Len(read))
  BY <1>1 DEF SetTo
<1> QED
  BY <1>2, <1>3, <1>4

(* Of two directories around a script, the shorter one is around the other.*)
LEMMA PrefixesOfOne ==
    ASSUME NEW path \in Seq(STRING), NEW d \in Seq(STRING), NEW e \in Seq(STRING),
           Policy!IsPrefix(d, path), Policy!IsPrefix(e, path)
    PROVE  Policy!IsPrefix(e, d) <=> Len(e) <= Len(d)
<1>1. \A i \in 1..Len(d) : d[i] = path[i]
  BY DEF Policy!IsPrefix
<1>2. \A i \in 1..Len(e) : e[i] = path[i]
  BY DEF Policy!IsPrefix
<1> QED
  BY <1>1, <1>2 DEF Policy!IsPrefix

LEMMA RulesInForce ==
    PolicyInv => /\ \A d \in directories : d.directory \in Seq(STRING)
                 /\ Policy!Functional(directories)
<1> SUFFICES ASSUME PolicyInv
             PROVE  /\ \A d \in directories : d.directory \in Seq(STRING)
                    /\ Policy!Functional(directories)
  OBVIOUS
<1> DEFINE S == Told("directory_rules")
<1>1. CASE S = {}
  <2>1. directories = {Policy!Addons}
    BY <1>1 DEF PolicyInv
  <2>2. Policy!Addons.directory \in Seq(STRING)
    BY LinesAssumption DEF Policy!Written
  <2> QED
    BY <2>1, <2>2 DEF Policy!Functional
<1>2. CASE S # {}
  <2>1. S \in SUBSET (1..Len(read)) /\ Len(read) \in Nat
    BY DEF PolicyInv, Told
  <2>2. LatestOf(S) \in S
    BY <1>2, <2>1, LatestOfSet
  <2>3. read[LatestOf(S)] \in Lines /\ read[LatestOf(S)].key = "directory_rules"
    BY <2>1, <2>2 DEF PolicyInv, Told
  <2>4. directories = read[LatestOf(S)].rules
    BY <1>2 DEF PolicyInv
  <2> QED
    BY <2>3, <2>4, LinesAssumption DEF Policy!Written
<1> QED
  BY <1>1, <1>2

(* Which of the rules decides: the longest that is around the script, which*)
(* is within all the others.                                               *)
LEMMA InnermostDecides ==
    ASSUME PolicyInv, NEW path \in Paths
    PROVE  Policy!Included(path) <=>
               \/ Policy!Matching(path) = {}
               \/ \E d \in Policy!Matching(path) :
                     /\ d.decision = 1
                     /\ \A e \in Policy!Matching(path) : Policy!IsPrefix(e.directory, d.directory)
<1> DEFINE around == Policy!Matching(path)
<1>1. path \in Seq(STRING) /\ Len(path) \in Nat
  BY LinesAssumption DEF Policy!Written
<1>2. ASSUME NEW d \in around
      PROVE  /\ d \in directories /\ d.directory \in Seq(STRING) /\ d.decision \in {0, 1}
             /\ Policy!IsPrefix(d.directory, path) /\ Len(d.directory) \in 0..Len(path)
  <2>1. /\ d \in directories /\ d.decision \in {0, 1} /\ Policy!IsPrefix(d.directory, path)
    BY DEF Policy!Matching
  <2>2. d.directory \in Seq(STRING)
    BY <2>1, RulesInForce
  <2> QED
    BY <1>1, <2>1, <2>2 DEF Policy!IsPrefix
<1>3. ASSUME NEW d \in around, NEW e \in around
      PROVE  /\ Policy!IsPrefix(e.directory, d.directory) <=> Len(e.directory) <= Len(d.directory)
             /\ Len(e.directory) = Len(d.directory) => e.decision = d.decision
  <2>1. Policy!IsPrefix(e.directory, d.directory) <=> Len(e.directory) <= Len(d.directory)
    BY <1>1, <1>2, PrefixesOfOne
  <2>2. ASSUME Len(e.directory) = Len(d.directory) PROVE e.decision = d.decision
    <3>1. Policy!IsPrefix(e.directory, d.directory)
      BY <1>2, <2>1, <2>2
    <3>2. e.directory \in Seq(STRING) /\ d.directory \in Seq(STRING)
      BY <1>2
    <3>3. e.directory = d.directory
      <4> HIDE DEF around
      <4> DEFINE u == e.directory
                 v == d.directory
      <4>1. u \in Seq(STRING) /\ v \in Seq(STRING) /\ Len(u) = Len(v) /\ Policy!IsPrefix(u, v)
        BY <2>2, <3>1, <3>2
      <4> HIDE DEF u, v
      <4>2. \A i \in 1..Len(u) : u[i] = v[i]
        BY <4>1 DEF Policy!IsPrefix
      <4>3. u = v
        BY <4>1, <4>2
      <4> QED
        BY <4>3 DEF u, v
    <3> QED
      BY <1>2, <3>3, RulesInForce DEF Policy!Functional
  <2> QED
    BY <2>1, <2>2
<1>4. ASSUME around # {}
      PROVE  \E d \in around : \A e \in around : Len(e.directory) <= Len(d.directory)
  <2> DEFINE lengths == {Len(d.directory) : d \in around}
  <2>1. lengths \in SUBSET (0..Len(path)) /\ lengths # {}
    <3> HIDE DEF around
    <3> QED
      BY <1>2, <1>4
  <2>2. PICK l \in lengths : \A k \in lengths : k <= l
    <3> HIDE DEF lengths
    <3> QED
      BY <1>1, <2>1, GreatestExists
  <2> QED
    BY <2>2
<1>5. Policy!Included(path) <=>
          \A d \in around : (\A e \in around : Len(e.directory) <= Len(d.directory)) => d.decision = 1
  BY DEF Policy!Included
<1> HIDE DEF around
<1>6. ASSUME Policy!Included(path), around # {}
      PROVE  \E d \in around : /\ d.decision = 1
                               /\ \A e \in around : Policy!IsPrefix(e.directory, d.directory)
  <2>1. PICK d \in around : \A e \in around : Len(e.directory) <= Len(d.directory)
    BY <1>4, <1>6
  <2>2. d.decision = 1
    BY <1>5, <1>6, <2>1
  <2> QED
    BY <1>3, <2>1, <2>2
<1>7. ASSUME NEW d \in around, d.decision = 1,
             \A e \in around : Policy!IsPrefix(e.directory, d.directory)
      PROVE  Policy!Included(path)
  <2> SUFFICES ASSUME NEW f \in around, \A e \in around : Len(e.directory) <= Len(f.directory)
               PROVE  f.decision = 1
    BY <1>5
  <2>1. Len(d.directory) <= Len(f.directory)
    OBVIOUS
  <2>2. Len(f.directory) <= Len(d.directory)
    BY <1>3, <1>7
  <2>3. Len(f.directory) = Len(d.directory)
    BY <1>2, <2>1, <2>2
  <2> QED
    BY <1>3, <1>7, <2>3
<1>8. around = {} => Policy!Included(path)
  BY <1>5
<1> QED
  BY <1>6, <1>7, <1>8 DEF around

LEMMA PolicyHolds ==
    /\ Policy!Init => PolicyInv
    /\ PolicyInv => Policy!PolicyAsWritten
<1>1. Policy!Init => PolicyInv
  <2> SUFFICES ASSUME Policy!Init PROVE PolicyInv
    OBVIOUS
  <2>1. read \in Seq(Lines) /\ Len(read) = 0 /\ DOMAIN read = {}
    <3>1. read = <<>>
      BY DEF Policy!Init
    <3> QED
      BY <3>1
  <2>2. \A key : Told(key) = {}
    BY <2>1 DEF Told
  <2>3. \A name : SetTo(name) = {}
    BY <2>1 DEF SetTo
  <2>4. 1..Len(read) = {}
    BY <2>1
  <2>5. section # "debug" /\ enabled = TRUE /\ directories = {Policy!Addons}
    BY DEF Policy!Init
  <2>6. levels = [name \in Names |-> IF name \in Policy!Defaults THEN 1 ELSE 0]
    BY DEF Policy!Init
  <2>7. levels = [name \in Names |->
                    IF SetTo(name) # {} THEN read[LatestOf(SetTo(name))].value
                    ELSE IF name \in Policy!Defaults THEN 1 ELSE 0]
    BY <2>3, <2>6
  <2> QED
    BY <2>1, <2>2, <2>4, <2>5, <2>7 DEF PolicyInv
<1>2. ASSUME PolicyInv PROVE Policy!InnermostRuleCounts
  <2> DEFINE n == LatestOf(Told("directory_rules"))
             rules == IF n = 0 THEN {Policy!Addons} ELSE read[n].rules
             around(path) == {d \in rules : d.decision \in {0, 1}
                                            /\ Policy!IsPrefix(d.directory, path)}
  <2>1. rules = directories
    BY <1>2, ToldNumbers DEF PolicyInv
  <2>2. \A path \in Paths :
            Policy!Included(path) <=>
               \/ around(path) = {}
               \/ \E d \in around(path) : /\ d.decision = 1
                                          /\ \A e \in around(path) :
                                                 Policy!IsPrefix(e.directory, d.directory)
    <3> HIDE DEF rules
    <3>1. \A path : around(path) = Policy!Matching(path)
      BY <2>1 DEF Policy!Matching
    <3> HIDE DEF around
    <3> QED
      BY <1>2, <3>1, InnermostDecides
  <2> QED
    BY <2>2 DEF Policy!InnermostRuleCounts, Policy!Latest, LatestOf, Told
<1>3. ASSUME PolicyInv PROVE Policy!LastSettingCounts
  <2> DEFINE on == LatestOf(Told("enable"))
             Set(name) == LatestOf(SetTo(name))
  <2>1. ASSUME NEW name \in Names
        PROVE  Policy!level(name, <<>>) =
                   IF on # 0 /\ ~read[on].on THEN 0
                   ELSE IF Policy!Included(<<>>) THEN
                            IF Set(name) # 0 THEN read[Set(name)].value
                            ELSE IF name \in Policy!Defaults THEN 1 ELSE 0
                        ELSE 0
    <3>1. enabled <=> ~(on # 0 /\ ~read[on].on)
      BY <1>3, ToldNumbers DEF PolicyInv
    <3>2. levels[name] = IF Set(name) # 0 THEN read[Set(name)].value
                         ELSE IF name \in Policy!Defaults THEN 1 ELSE 0
      BY <1>3, ToldNumbers DEF PolicyInv
    <3> HIDE DEF on, Set
    <3> QED
      BY <3>1, <3>2 DEF Policy!level
  <2> QED
    BY <2>1 DEF Policy!LastSettingCounts, Policy!Latest, LatestOf, Told, SetTo
<1> QED
  BY <1>1, <1>2, <1>3 DEF Policy!PolicyAsWritten

(* The level of each warning in each script is the one that project.godot  *)
(* says: of the last settings in a debug section, under the rule of the    *)
(* innermost directory that the last directory_rules name, whatever the    *)
(* order of lines and sections (warnings.cpp: load and level).             *)
THEOREM PolicyFollowsSettings == AllSpec => []PolicyAsWritten
<1> DEFINE Inv == ~(world = "policy") \/ PolicyInv
<1>1. AllInit => Inv
  BY Worlds, PolicyHolds
<1>2. Inv /\ [AllNext]_allVars => Inv'
  BY Worlds, PolicyStep
<1>3. Inv => PolicyAsWritten
  BY PolicyHolds DEF PolicyAsWritten
<1> QED
  BY <1>1, <1>2, <1>3, PTL DEF AllSpec

(***************************************************************************)
(* The scan of a source, for every source.                                 *)
(***************************************************************************)

(* What holds of 0 and passes from each number to the next holds of all.   *)
LEMMA PassesOn ==
    ASSUME NEW S, 0 \in S, \A n \in Nat : n \in S => n + 1 \in S
    PROVE  Nat \subseteq S
<1> DEFINE T == {n \in Nat : n \notin S}
           less == OpToRel(<, Nat)
<1> SUFFICES ASSUME T # {}
             PROVE  FALSE
  OBVIOUS
<1>1. PICK t \in T : \A u \in T : ~(<<u, t>> \in less)
  <2> T \subseteq Nat
    OBVIOUS
  <2> HIDE DEF T
  <2> QED
    BY WFMin, NatLessThanWellFounded
<1>2. \A u \in T : ~(u < t)
  BY <1>1 DEF OpToRel
<1>3. t \in Nat /\ t # 0
  OBVIOUS
<1>4. t - 1 \in Nat /\ t - 1 < t /\ (t - 1) + 1 = t
  BY <1>3
<1>5. t - 1 \in S
  BY <1>2, <1>4
<1> QED
  BY <1>4, <1>5

-----------------------------------------------------------------------------
(* The reference is defined by a recursion that has a solution.            *)

Prefix(f, n) == f[0] = Scan!Outside /\ \A m \in 0..(n - 1) : f[m + 1] = Scan!After(f[m], m)

LEMMA PrefixExists == \A n \in Nat : \E f : Prefix(f, n)
<1> DEFINE S == {n \in Nat : \E f : Prefix(f, n)}
<1>1. 0 \in S
  <2>1. Prefix([m \in {0} |-> Scan!Outside], 0)
    BY DEF Prefix
  <2> QED
    BY <2>1
<1>2. ASSUME NEW n \in Nat, n \in S
      PROVE  n + 1 \in S
  <2>1. PICK f : Prefix(f, n)
    BY <1>2
  <2> DEFINE g == [m \in 0..(n + 1) |-> IF m <= n THEN f[m] ELSE Scan!After(f[n], n)]
  <2>2. g[0] = Scan!Outside
    BY <2>1 DEF Prefix
  <2>3. ASSUME NEW m \in 0..n
        PROVE  g[m + 1] = Scan!After(g[m], m)
    <3>1. m \in 0..(n + 1) /\ m + 1 \in 0..(n + 1) /\ m <= n /\ g[m] = f[m]
      OBVIOUS
    <3>2. CASE m = n
      BY <3>1, <3>2
    <3>3. CASE m # n
      <4>1. m + 1 <= n /\ m \in 0..(n - 1)
        BY <3>3
      <4>2. f[m + 1] = Scan!After(f[m], m)
        BY <2>1, <4>1 DEF Prefix
      <4>3. g[m + 1] = f[m + 1]
        BY <3>1, <4>1
      <4> QED
        BY <3>1, <4>2, <4>3
    <3> QED
      BY <3>2, <3>3
  <2>4. (n + 1) - 1 = n
    OBVIOUS
  <2>5. Prefix(g, n + 1)
    BY <2>2, <2>3, <2>4 DEF Prefix
  <2> QED
    BY <2>5
<1> QED
  <2> HIDE DEF S
  <2>1. Nat \subseteq S
    BY <1>1, <1>2, PassesOn
  <2> QED
    BY <2>1 DEF S

LEMMA PrefixUnique ==
    ASSUME NEW f, NEW g, NEW n \in Nat, NEW k \in Nat, Prefix(f, n), Prefix(g, k)
    PROVE  \A m \in Nat : m <= n /\ m <= k => f[m] = g[m]
<1> DEFINE S == {m \in Nat : m <= n /\ m <= k => f[m] = g[m]}
<1>1. 0 \in S
  BY DEF Prefix
<1>2. ASSUME NEW m \in Nat, m \in S
      PROVE  m + 1 \in S
  <2> SUFFICES ASSUME m + 1 <= n, m + 1 <= k
               PROVE  f[m + 1] = g[m + 1]
    OBVIOUS
  <2>1. m \in 0..(n - 1) /\ m \in 0..(k - 1)
    OBVIOUS
  <2>2. f[m] = g[m]
    BY <1>2
  <2>3. f[m + 1] = Scan!After(f[m], m) /\ g[m + 1] = Scan!After(g[m], m)
    BY <2>1 DEF Prefix
  <2> QED
    BY <2>2, <2>3
<1> QED
  <2> HIDE DEF S
  <2>1. Nat \subseteq S
    BY <1>1, <1>2, PassesOn
  <2> QED
    BY <2>1 DEF S

LEMMA ReadingSteps ==
    /\ Scan!Reading[0] = Scan!Outside
    /\ \A n \in Nat : Scan!Reading[n + 1] = Scan!After(Scan!Reading[n], n)
<1> DEFINE F == [n \in Nat |-> (CHOOSE f : Prefix(f, n))[n]]
           Rec(f) == [n \in Nat |-> IF n = 0 THEN Scan!Outside ELSE Scan!After(f[n - 1], n - 1)]
<1>1. \A n \in Nat : Prefix(CHOOSE f : Prefix(f, n), n)
  BY PrefixExists
<1>2. F[0] = Scan!Outside
  BY <1>1 DEF Prefix
<1>3. ASSUME NEW n \in Nat
      PROVE  F[n + 1] = Scan!After(F[n], n)
  <2> DEFINE f == CHOOSE f : Prefix(f, n)
             g == CHOOSE g : Prefix(g, n + 1)
  <2>1. Prefix(f, n) /\ Prefix(g, n + 1)
    BY <1>1
  <2>2. F[n] = f[n] /\ F[n + 1] = g[n + 1]
    OBVIOUS
  <2> HIDE DEF F, f, g
  <2>3. g[n] = f[n]
    BY <2>1, PrefixUnique
  <2>4. g[n + 1] = Scan!After(g[n], n)
    BY <2>1 DEF Prefix
  <2> QED
    BY <2>2, <2>3, <2>4
<1>4. F = Rec(F)
  <2>1. F = [n \in Nat |-> F[n]]
    OBVIOUS
  <2> HIDE DEF F
  <2>2. ASSUME NEW n \in Nat, n # 0
        PROVE  F[n] = Scan!After(F[n - 1], n - 1)
    <3>1. n - 1 \in Nat /\ (n - 1) + 1 = n
      BY <2>2
    <3> QED
      BY <1>3, <3>1
  <2> QED
    BY <1>2, <2>1, <2>2
<1>5. Scan!Reading = Rec(Scan!Reading)
  <2> HIDE DEF F
  <2>1. Scan!Reading = CHOOSE f : f = Rec(f)
    BY DEF Scan!Reading
  <2> QED
    BY <1>4, <2>1
<1>6. Scan!Reading[0] = Scan!Outside
  BY <1>5
<1>7. ASSUME NEW n \in Nat
      PROVE  Scan!Reading[n + 1] = Scan!After(Scan!Reading[n], n)
  <2>1. n + 1 \in Nat /\ n + 1 # 0 /\ (n + 1) - 1 = n
    OBVIOUS
  <2>2. Rec(Scan!Reading)[n + 1] = Scan!After(Scan!Reading[n], n)
    BY <2>1
  <2> HIDE DEF Rec
  <2> QED
    BY <1>5, <2>2
<1> QED
  BY <1>6, <1>7

-----------------------------------------------------------------------------
(* The inductive invariant.                                                *)

SpanRecords ==
    [kind : {"comment", "string", "ampersand", "caret"}, begin : Nat, quoteBegin : Nat,
     quote : {"none", "single", "double"}, width : Nat, raw : BOOLEAN, end : Nat, closed : BOOLEAN]

LexicalTypes ==
    /\ Len(source) \in Nat /\ DOMAIN source = 1..Len(source)
    /\ \A n \in DOMAIN source : source[n] # "end"
    /\ place \in 0..Len(source)
    /\ inside \in {"code", "comment", "string"}
    /\ span \in SpanRecords /\ spans \in Seq(SpanRecords)

(* The reader is in code too, and what comes next does not begin a raw     *)
(* string that the scan missed.                                            *)
Ready(byte) ==
    /\ Scan!Reading[byte].due = 0
    /\ \/ Scan!Reading[byte].in \in {"code", "closing"}
       \/ Scan!Reading[byte].in = "comment" /\ Scan!Byte(byte) = "newline"

NoMark(byte) ==
    ~(Scan!Quote(byte) /\ Scan!Byte(byte - 1) = "r" /\ ~Scan!Name(Scan!Byte(byte - 2)))

InCode == inside = "code" => place = Len(source) \/ (Ready(place) /\ NoMark(place))

(* Scan and reader are in the same comment, or in the same string.         *)
InComment ==
    inside = "comment" =>
        /\ span.kind = "comment" /\ span.begin < place
        /\ Scan!Reading[place].in = "comment" /\ Scan!Reading[place].due = 0
        /\ \A byte \in Nat : span.begin <= byte /\ byte < place => Scan!Reading[byte + 1].in = "comment"

StringRead(begin, quoteBegin, end) ==
    \A byte \in Nat : begin <= byte /\ byte < end =>
        IF byte < quoteBegin THEN Scan!Reading[byte + 1].in = "code" /\ Scan!Marks(byte)
        ELSE Scan!Reading[byte + 1].in = "string"

InString ==
    inside = "string" =>
        /\ span.kind # "comment" /\ span.begin <= span.quoteBegin /\ span.quoteBegin < place
        /\ span.quote \in {"single", "double"} /\ span.width \in {1, 3}
        /\ Scan!Reading[place].in = "string" /\ Scan!Reading[place].quote = span.quote
        /\ Scan!Reading[place].width = span.width /\ Scan!Reading[place].raw = span.raw
        /\ Scan!Reading[place].due = 0 \/ place = Len(source)
        /\ StringRead(span.begin, span.quoteBegin, place)

(* What reading finds in a span, and outside of the spans.                 *)
SpanRead(s) ==
    \A byte \in Nat : s.begin <= byte /\ byte < s.end =>
        IF s.kind = "comment" THEN Scan!Reading[byte + 1].in = "comment"
        ELSE IF byte < s.quoteBegin THEN Scan!Reading[byte + 1].in = "code" /\ Scan!Marks(byte)
        ELSE IF s.closed /\ byte = s.end - 1
             THEN Scan!Reading[byte + 1].in = "closing" /\ Scan!Reading[byte + 1].due = 0
        ELSE \/ Scan!Reading[byte + 1].in = "string"
             \/ Scan!Reading[byte + 1].in = "closing" /\ Scan!Reading[byte + 1].due > 0

SpansRead == \A n \in DOMAIN spans : SpanRead(spans[n])

Reached == IF inside = "code" THEN place ELSE span.begin

CodeRead ==
    \A byte \in Nat : byte < Reached =>
        (Scan!Code(byte) => Scan!Reading[byte + 1].in = "code" /\ ~Scan!Marks(byte))

Finished(s) == s.kind = "comment" \/ s.closed

Ordered ==
    /\ Scan!SpansOrdered
    /\ \A n \in DOMAIN spans : /\ spans[n].end <= Reached
                               /\ Finished(spans[n]) \/ (inside = "code" /\ place = Len(source))

LexicalInv == /\ LexicalTypes /\ InCode /\ InComment /\ InString
        /\ SpansRead /\ CodeRead /\ Ordered

-----------------------------------------------------------------------------
(* What is behind the end, and what does not change with the source.       *)

LEMMA Within ==
    ASSUME LexicalTypes
    PROVE  \A byte \in Int : Scan!Byte(byte) # "end" <=> byte \in 0..(Len(source) - 1)
<1> DEFINE n == Len(source)
<1>1. n \in Nat
  BY DEF LexicalTypes
<1>4. \A k \in 1..n : source[k] # "end"
  BY DEF LexicalTypes
<1> HIDE DEF n
<1>2. ASSUME NEW byte \in Int, byte \in 0..(n - 1)
      PROVE  Scan!Byte(byte) # "end"
  <2>1. byte + 1 \in 1..n
    BY <1>1, <1>2
  <2>2. Scan!Byte(byte) = source[byte + 1]
    BY <1>2 DEF Scan!Byte, n
  <2> QED
    BY <1>4, <2>1, <2>2
<1>3. ASSUME NEW byte \in Int, byte \notin 0..(n - 1)
      PROVE  Scan!Byte(byte) = "end"
  BY <1>3 DEF Scan!Byte, n
<1> QED
  BY <1>2, <1>3 DEF n

LEMMA SameSource ==
    ASSUME source' = source
    PROVE  /\ Scan!Reading' = Scan!Reading
           /\ \A byte : Scan!Byte(byte)' = Scan!Byte(byte)
           /\ \A byte : Scan!Quote(byte)' = Scan!Quote(byte)
           /\ \A byte : Scan!Marks(byte)' = Scan!Marks(byte)
           /\ \A byte : Ready(byte)' = Ready(byte)
           /\ \A byte : NoMark(byte)' = NoMark(byte)
           /\ \A s : SpanRead(s)' = SpanRead(s)
           /\ \A b, q, e : StringRead(b, q, e)' = StringRead(b, q, e)
<1>1. Scan!Reading' = Scan!Reading
  BY DEF Scan!Reading, Scan!After, Scan!FromCode, Scan!FromString, Scan!Thrice, Scan!Quote,
         Scan!Byte
<1>2. \A byte : Scan!Byte(byte)' = Scan!Byte(byte)
  BY DEF Scan!Byte
<1>3. \A byte : Scan!Quote(byte)' = Scan!Quote(byte)
  BY <1>2 DEF Scan!Quote
<1>4. \A byte : Scan!Marks(byte)' = Scan!Marks(byte)
  BY <1>1, <1>2, <1>3 DEF Scan!Marks
<1>5. \A byte : Ready(byte)' = Ready(byte)
  BY <1>1, <1>2 DEF Ready
<1>6. \A byte : NoMark(byte)' = NoMark(byte)
  BY <1>2, <1>3 DEF NoMark
<1>7. \A s : SpanRead(s)' = SpanRead(s)
  BY <1>1, <1>4 DEF SpanRead
<1>8. \A b, q, e : StringRead(b, q, e)' = StringRead(b, q, e)
  BY <1>1, <1>4 DEF StringRead
<1> QED
  BY <1>1, <1>2, <1>3, <1>4, <1>5, <1>6, <1>7, <1>8

(* What the reader is in is a record of what it remembers.                 *)
States == [in : {"code", "comment", "string", "closing"}, quote : {"none", "single", "double"},
           width : {0, 1, 3}, raw : BOOLEAN, due : Int]

LEMMA ReadingTypes == \A n \in Nat : Scan!Reading[n] \in States
<1> DEFINE S == {n \in Nat : Scan!Reading[n] \in States}
<1>1. Scan!Outside \in States
  BY DEF Scan!Outside, States
<1>2. ASSUME NEW s \in States, NEW byte \in Nat
      PROVE  Scan!After(s, byte) \in States
  <2>1. [s EXCEPT !.due = @ - 1] \in States
    BY <1>2 DEF States
  <2>2. Scan!FromCode(byte) \in States
    <3>1. [Scan!Outside EXCEPT !.in = "comment"] \in States
      BY <1>1 DEF States
    <3>2. ASSUME Scan!Quote(byte), NEW r \in BOOLEAN, NEW w \in {1, 3}, NEW d \in {0, 2}
          PROVE  [in |-> "string", quote |-> Scan!Byte(byte), width |-> w, raw |-> r, due |-> d]
                     \in States
      BY <3>2 DEF Scan!Quote, States
    <3> DEFINE r == Scan!Byte(byte - 1) = "r" /\ ~Scan!Name(Scan!Byte(byte - 2))
               w == IF Scan!Thrice(byte) THEN 3 ELSE 1
               d == IF Scan!Thrice(byte) THEN 2 ELSE 0
    <3>3. r \in BOOLEAN /\ w \in {1, 3} /\ d \in {0, 2}
      OBVIOUS
    <3>4. Scan!FromCode(byte) =
                         IF Scan!Byte(byte) = "hash"
                         THEN [Scan!Outside EXCEPT !.in = "comment"]
                         ELSE IF Scan!Quote(byte)
                         THEN [in |-> "string", quote |-> Scan!Byte(byte), width |-> w, raw |-> r,
                               due |-> d]
                         ELSE Scan!Outside
      BY DEF Scan!FromCode
    <3> HIDE DEF r, w, d
    <3> QED
      BY <1>1, <3>1, <3>2, <3>3, <3>4
  <2>3. Scan!FromString(s, byte) \in States
    <3>1. [s EXCEPT !.due = 0] \in States /\ [s EXCEPT !.due = 1] \in States
      BY DEF States
    <3>2. ASSUME NEW d \in Int
          PROVE  [s EXCEPT !.in = "closing", !.due = d] \in States
      BY DEF States
    <3>3. s.width - 1 \in Int
      BY DEF States
    <3>4. [s EXCEPT !.in = "closing", !.due = s.width - 1] \in States
      <4> SUFFICES ASSUME NEW d \in Int, d = s.width - 1
                   PROVE  [s EXCEPT !.in = "closing", !.due = d] \in States
        BY <3>3
      <4> QED
        BY <3>2
    <3>5. CASE Scan!Byte(byte) = "backslash"
      <4>1. \/ Scan!FromString(s, byte) = [s EXCEPT !.due = 0]
            \/ Scan!FromString(s, byte) = [s EXCEPT !.due = 1]
        BY <3>5 DEF Scan!FromString
      <4> QED
        BY <3>1, <4>1
    <3>6. CASE Scan!Byte(byte) # "backslash"
      BY <3>4, <3>6 DEF Scan!FromString
    <3> QED
      BY <3>5, <3>6
  <2> QED
    BY <1>1, <2>1, <2>2, <2>3 DEF Scan!After
<1>3. 0 \in S
  BY <1>1, ReadingSteps
<1>4. \A n \in Nat : n \in S => n + 1 \in S
  BY <1>2, ReadingSteps
<1> QED
  <2> HIDE DEF S
  <2>1. Nat \subseteq S
    BY <1>3, <1>4, PassesOn
  <2> QED
    BY <2>1 DEF S

(* The reader in code.                                                     *)
LEMMA ReadyReads ==
    ASSUME NEW byte \in Nat, Ready(byte)
    PROVE  Scan!Reading[byte + 1] = Scan!FromCode(byte)
<1>1. Scan!Reading[byte + 1] = Scan!After(Scan!Reading[byte], byte)
  BY ReadingSteps
<1>2. CASE Scan!Reading[byte].in = "comment" /\ Scan!Byte(byte) = "newline"
  BY <1>1, <1>2 DEF Ready, Scan!After, Scan!FromCode, Scan!Quote
<1>3. CASE Scan!Reading[byte].in \in {"code", "closing"}
  BY <1>1, <1>3 DEF Ready, Scan!After
<1> QED
  BY <1>2, <1>3 DEF Ready

(* The reader in a comment, in a string, and in a delimiter of three.      *)
LEMMA InsideReads ==
    ASSUME NEW byte \in Nat
    PROVE  /\ Scan!Reading[byte].due = 0 /\ Scan!Reading[byte].in = "comment"
                /\ Scan!Byte(byte) # "newline" =>
                  Scan!Reading[byte + 1] = Scan!Reading[byte]
           /\ Scan!Reading[byte].due = 0 /\ Scan!Reading[byte].in = "string" =>
                  Scan!Reading[byte + 1] = Scan!FromString(Scan!Reading[byte], byte)
           /\ Scan!Reading[byte].due > 0 =>
                  Scan!Reading[byte + 1] = [Scan!Reading[byte] EXCEPT !.due = @ - 1]
<1>1. Scan!Reading[byte + 1] = Scan!After(Scan!Reading[byte], byte)
  BY ReadingSteps
<1> QED
  BY <1>1 DEF Scan!After

(* The spans are a sequence of records.                                    *)
LEMMA SpanFields ==
    ASSUME LexicalTypes
    PROVE  /\ Len(spans) \in Nat /\ DOMAIN spans = 1..Len(spans)
           /\ \A n \in DOMAIN spans : spans[n].begin \in Nat /\ spans[n].end \in Nat
<1>1. spans \in Seq(SpanRecords)
  BY DEF LexicalTypes
<1>2. ASSUME NEW n \in DOMAIN spans
      PROVE  spans[n] \in SpanRecords
  BY <1>1
<1>3. \A n \in DOMAIN spans : spans[n].begin \in Nat /\ spans[n].end \in Nat
  BY <1>2 DEF SpanRecords
<1> QED
  BY <1>1, <1>3

(* What goes on in a step that ends no span.                               *)
LEMMA SpansStay ==
    ASSUME LexicalInv, source' = source, spans' = spans, place' \in 0..Len(source),
           Reached' \in Nat, Reached' >= Reached, inside # "code" \/ place < Len(source)
    PROVE  SpansRead' /\ Ordered'
<1>1. SpansRead'
  BY SameSource DEF LexicalInv, SpansRead
<1>2. Scan!SpansOrdered'
  BY DEF LexicalInv, Ordered, Scan!SpansOrdered
<1>3. ASSUME NEW n \in DOMAIN spans
      PROVE  spans[n].end <= Reached' /\ Finished(spans[n])
  <2>1. spans[n].end <= Reached
    BY DEF LexicalInv, Ordered
  <2>2. Finished(spans[n])
    <3> place \in Int /\ Len(source) \in Int
      BY DEF LexicalInv, LexicalTypes
    <3>1. ~(inside = "code" /\ place = Len(source))
      OBVIOUS
    <3> QED
      BY <3>1 DEF LexicalInv, Ordered
  <2>3. spans[n].end \in Nat
    BY SpanFields DEF LexicalInv
  <2>4. Reached \in Int
    BY DEF LexicalInv, LexicalTypes, SpanRecords, Reached
  <2> QED
    BY <2>1, <2>2, <2>3, <2>4
<1> QED
  BY <1>1, <1>2, <1>3 DEF Ordered, Finished

LEMMA CodeStays ==
    ASSUME LexicalInv, source' = source, spans' = spans, Reached' = Reached
    PROVE  CodeRead'
<1>1. \A byte : Scan!Code(byte)' = Scan!Code(byte)
  BY DEF Scan!Code, Scan!SpanAt
<1> QED
  BY <1>1, SameSource DEF LexicalInv, CodeRead

(* The span that is being read ends.                                       *)
LEMMA EndStep ==
    ASSUME LexicalInv, inside # "code", NEW next \in Nat, NEW closed \in BOOLEAN,
           Scan!End(next, closed),
           span.begin < next, place <= next, next <= Len(source),
           SpanRead([span EXCEPT !.end = next, !.closed = closed]),
           span.kind = "comment" \/ closed \/ next = Len(source),
           next = Len(source) \/ (Ready(next) /\ NoMark(next))
    PROVE  LexicalInv'
<1> SUFFICES ASSUME NEW s, s = [span EXCEPT !.end = next, !.closed = closed],
                    NEW k, k = Len(spans) + 1
             PROVE  LexicalInv'
  OBVIOUS
<1>1. /\ source' = source /\ spans' = Append(spans, s) /\ place' = next
      /\ inside' = "code" /\ span' = Scan!NoSpan
  BY DEF Scan!End
<1>2. /\ s \in SpanRecords /\ s.begin = span.begin /\ s.end = next /\ s.kind = span.kind
      /\ s.closed = closed
  BY DEF LexicalInv, LexicalTypes, SpanRecords
<1>3. spans \in Seq(SpanRecords) /\ span.begin \in Nat
  BY DEF LexicalInv, LexicalTypes, SpanRecords
<1>4. /\ k \in Nat /\ DOMAIN spans' = 1..k /\ Len(spans') = k /\ spans'[k] = s
      /\ \A n \in 1..(k - 1) : spans'[n] = spans[n] /\ n \in DOMAIN spans
      /\ DOMAIN spans = 1..(k - 1)
  BY <1>1, <1>2, <1>3
<1>5. \A n \in 1..k : n = k \/ n \in 1..(k - 1)
  BY <1>4
<1>6. LexicalTypes'
  BY <1>1, <1>2 DEF LexicalInv, LexicalTypes, Scan!NoSpan, SpanRecords
<1>7. InCode' /\ InComment' /\ InString'
  BY <1>1, SameSource DEF InCode, InComment, InString
<1>8. SpansRead'
  <2>1. SpanRead(s)
    OBVIOUS
  <2>2. \A n \in 1..(k - 1) : SpanRead(spans[n])'
    BY <1>1, <1>4, SameSource DEF LexicalInv, SpansRead
  <2>3. SpanRead(s)'
    BY <1>1, <2>1, SameSource
  <2> QED
    BY <1>4, <1>5, <2>2, <2>3 DEF SpansRead
<1>9. CodeRead'
  <2> SUFFICES ASSUME NEW byte \in Nat, byte < next, Scan!Code(byte)'
               PROVE  Scan!Reading[byte + 1].in = "code" /\ ~Scan!Marks(byte)
    BY <1>1, SameSource DEF CodeRead, Reached
  <2>1. ~(s.begin <= byte /\ byte < s.end)
    <3>1. k \in DOMAIN spans'
      BY <1>4
    <3> QED
      BY <1>4, <3>1 DEF Scan!Code, Scan!SpanAt
  <2>2. byte < span.begin
    BY <1>2, <1>3, <2>1
  <2>3. Scan!Code(byte)
    BY <1>4 DEF Scan!Code, Scan!SpanAt
  <2> QED
    BY <2>2, <2>3 DEF LexicalInv, CodeRead, Reached
<1>10. ASSUME NEW n \in 1..(k - 1)
       PROVE  /\ spans[n].begin < spans[n].end /\ spans[n].end <= span.begin
              /\ spans[n].end <= Len(source) /\ Finished(spans[n])
              /\ n + 1 < k => spans[n].end <= spans[n + 1].begin
  <2>1. n \in DOMAIN spans /\ (n + 1 < k => n < Len(spans))
    BY <1>3, <1>4
  <2> QED
    BY <2>1 DEF LexicalInv, Ordered, Scan!SpansOrdered, Reached
<1>12. Ordered'
  <2>1. ASSUME NEW n \in 1..(k - 1)
        PROVE  /\ spans'[n].begin < spans'[n].end /\ spans'[n].end <= Len(source)
               /\ spans'[n].end <= next /\ Finished(spans'[n])
               /\ spans'[n].end <= spans'[n + 1].begin
    <3>1. spans'[n] = spans[n] /\ n \in DOMAIN spans
      BY <1>4
    <3>2. spans[n].end \in Nat
      BY <3>1, SpanFields DEF LexicalInv
    <3>3. spans[n].end <= next
      BY <1>3, <1>10, <3>2
    <3>4. CASE n + 1 = k
      BY <1>2, <1>4, <1>10, <3>1, <3>3, <3>4
    <3>5. CASE n + 1 # k
      <4>1. n + 1 < k /\ n + 1 \in 1..(k - 1)
        BY <1>4, <3>5
      <4> QED
        BY <1>4, <1>10, <3>1, <3>3, <4>1
    <3> QED
      BY <3>4, <3>5
  <2>2. /\ spans'[k].begin < spans'[k].end /\ spans'[k].end <= Len(source)
        /\ spans'[k].end <= next
        /\ Finished(spans'[k]) \/ next = Len(source)
    BY <1>2, <1>4 DEF Finished
  <2>3. \A n \in 1..k : n < k => n \in 1..(k - 1)
    BY <1>4
  <2>4. Scan!SpansOrdered'
    BY <1>1, <1>4, <1>5, <2>1, <2>2, <2>3 DEF Scan!SpansOrdered, Finished
  <2> QED
    BY <1>1, <1>4, <1>5, <2>1, <2>2, <2>4 DEF Ordered, Reached, Finished
<1> QED
  BY <1>6, <1>7, <1>8, <1>9, <1>12 DEF LexicalInv

-----------------------------------------------------------------------------
(* The steps.                                                              *)

LEMMA SkipStep ==
    ASSUME LexicalInv, Scan!Skip
    PROVE  LexicalInv'
<1>1. /\ inside = "code" /\ place < Len(source) /\ Scan!Byte(place) # "hash"
      /\ ~Scan!Quote(Scan!QuoteAt)
      /\ place' = place + 1 /\ source' = source /\ inside' = inside /\ span' = span
      /\ spans' = spans
  BY DEF Scan!Skip
<1>2. place \in Nat /\ Len(source) \in Nat /\ place + 1 \in 0..Len(source)
  BY <1>1 DEF LexicalInv, LexicalTypes
<1>3. ~Scan!Raw /\ ~Scan!Sign /\ ~Scan!Quote(place)
  BY <1>1 DEF Scan!QuoteAt, Scan!Raw, Scan!Sign
<1>4. Scan!Reading[place + 1] = Scan!Outside
  <2>1. Ready(place)
    BY <1>1, <1>2 DEF LexicalInv, InCode
  <2> QED
    BY <1>1, <1>2, <1>3, <2>1, ReadyReads DEF Scan!FromCode
<1>5. ~Scan!Marks(place)
  BY <1>3 DEF Scan!Marks, Scan!Raw, Scan!Sign
<1>6. Ready(place + 1)
  BY <1>4 DEF Ready, Scan!Outside
<1>7. NoMark(place + 1)
  <2>1. (place + 1) - 1 = place /\ (place + 1) - 2 = place - 1
    BY <1>2
  <2> QED
    BY <1>3, <2>1 DEF NoMark, Scan!Raw
<1>8. LexicalTypes' /\ Reached' = place + 1 /\ Reached = place
  BY <1>1, <1>2 DEF LexicalInv, LexicalTypes, Reached
<1>9. InCode' /\ InComment' /\ InString'
  BY <1>1, <1>6, <1>7, SameSource DEF InCode, InComment, InString
<1>10. SpansRead' /\ Ordered'
  BY <1>1, <1>2, <1>8, SpansStay
<1>11. CodeRead'
  <2>1. \A byte : Scan!Code(byte)' = Scan!Code(byte)
    BY <1>1 DEF Scan!Code, Scan!SpanAt
  <2>2. \A byte \in Nat : byte < place + 1 => byte < place \/ byte = place
    BY <1>2
  <2>3. Scan!Reading[place + 1].in = "code"
    BY <1>4 DEF Scan!Outside
  <2>4. \A byte \in Nat : byte < place =>
            (Scan!Code(byte) => Scan!Reading[byte + 1].in = "code" /\ ~Scan!Marks(byte))
    BY <1>8 DEF LexicalInv, CodeRead
  <2> QED
    BY <1>1, <1>5, <1>8, <2>1, <2>2, <2>3, <2>4, SameSource DEF CodeRead
<1> QED
  BY <1>8, <1>9, <1>10, <1>11 DEF LexicalInv

LEMMA CommentBeginsStep ==
    ASSUME LexicalInv, Scan!CommentBegins
    PROVE  LexicalInv'
<1>1. /\ inside = "code" /\ Scan!Byte(place) = "hash" /\ inside' = "comment"
      /\ place' = place + 1
      /\ span' = [Scan!NoSpan EXCEPT !.kind = "comment", !.begin = place]
      /\ source' = source /\ spans' = spans
  BY DEF Scan!CommentBegins
<1>2. place \in Nat /\ Len(source) \in Nat
  BY DEF LexicalInv, LexicalTypes
<1>3. place < Len(source) /\ place + 1 \in 0..Len(source)
  BY <1>1, <1>2, Within DEF LexicalInv
<1>4. Scan!Reading[place + 1] = [Scan!Outside EXCEPT !.in = "comment"]
  <2>1. Ready(place)
    BY <1>1, <1>2, <1>3 DEF LexicalInv, InCode
  <2> QED
    BY <1>1, <1>2, <2>1, ReadyReads DEF Scan!FromCode
<1>5. Scan!Reading[place + 1].in = "comment" /\ Scan!Reading[place + 1].due = 0
  BY <1>4 DEF Scan!Outside
<1>6. span' \in SpanRecords /\ span'.kind = "comment" /\ span'.begin = place
  BY <1>1, <1>2 DEF Scan!NoSpan, SpanRecords
<1>7. LexicalTypes' /\ Reached' = place /\ Reached = place
  BY <1>1, <1>2, <1>3, <1>6 DEF LexicalInv, LexicalTypes, Reached
<1>8. InCode' /\ InString'
  BY <1>1 DEF InCode, InString
<1>9. InComment'
  <2>1. \A byte \in Nat : place <= byte /\ byte < place + 1 => byte = place
    BY <1>2
  <2>2. place < place + 1
    BY <1>2
  <2> QED
    BY <1>1, <1>5, <1>6, <2>1, <2>2, SameSource DEF InComment
<1>10. SpansRead' /\ Ordered'
  BY <1>1, <1>2, <1>3, <1>7, SpansStay
<1>11. CodeRead'
  BY <1>1, <1>7, CodeStays
<1> QED
  BY <1>7, <1>8, <1>9, <1>10, <1>11 DEF LexicalInv

LEMMA CommentReadsStep ==
    ASSUME LexicalInv, Scan!CommentReads
    PROVE  LexicalInv'
<1>1. /\ inside = "comment" /\ Scan!Byte(place) # "end" /\ Scan!Byte(place) # "newline"
      /\ place' = place + 1
      /\ source' = source /\ inside' = inside /\ span' = span /\ spans' = spans
  BY DEF Scan!CommentReads, Scan!Read
<1>2. place \in Nat /\ Len(source) \in Nat /\ span \in SpanRecords /\ span.begin \in Nat
  BY DEF LexicalInv, LexicalTypes, SpanRecords
<1>3. place < Len(source) /\ place + 1 \in 0..Len(source)
  BY <1>1, <1>2, Within DEF LexicalInv
<1>4. /\ span.kind = "comment" /\ span.begin < place
      /\ Scan!Reading[place].in = "comment" /\ Scan!Reading[place].due = 0
      /\ \A byte \in Nat : span.begin <= byte /\ byte < place => Scan!Reading[byte + 1].in = "comment"
  BY <1>1 DEF LexicalInv, InComment
<1>5. Scan!Reading[place + 1] = Scan!Reading[place]
  BY <1>1, <1>2, <1>4, InsideReads
<1>6. LexicalTypes' /\ Reached' = span.begin /\ Reached = span.begin
  BY <1>1, <1>3 DEF LexicalInv, LexicalTypes, Reached
<1>7. InCode' /\ InString'
  BY <1>1 DEF InCode, InString
<1>8. InComment'
  <2>1. \A byte \in Nat : byte < place + 1 => byte < place \/ byte = place
    BY <1>2
  <2>2. span.begin < place + 1
    BY <1>2, <1>4
  <2>3. \A byte \in Nat : span.begin <= byte /\ byte < place + 1 => Scan!Reading[byte + 1].in = "comment"
    BY <1>4, <1>5, <2>1
  <2> QED
    BY <1>1, <1>4, <1>5, <2>2, <2>3, SameSource DEF InComment
<1>9. SpansRead' /\ Ordered'
  BY <1>1, <1>2, <1>3, <1>6, SpansStay
<1>10. CodeRead'
  BY <1>1, <1>6, CodeStays
<1> QED
  BY <1>6, <1>7, <1>8, <1>9, <1>10 DEF LexicalInv

LEMMA CommentEndsStep ==
    ASSUME LexicalInv, Scan!CommentEnds
    PROVE  LexicalInv'
<1>1. inside = "comment" /\ Scan!Byte(place) \in {"end", "newline"} /\ Scan!End(place, FALSE)
  BY DEF Scan!CommentEnds
<1>2. /\ place \in Nat /\ Len(source) \in Nat /\ place <= Len(source)
      /\ span \in SpanRecords
      /\ place <= place
  BY DEF LexicalInv, LexicalTypes
<1>3. /\ span.kind = "comment" /\ span.begin < place
      /\ Scan!Reading[place].in = "comment" /\ Scan!Reading[place].due = 0
      /\ \A byte \in Nat : span.begin <= byte /\ byte < place => Scan!Reading[byte + 1].in = "comment"
  BY <1>1 DEF LexicalInv, InComment
<1>4. SpanRead([span EXCEPT !.end = place, !.closed = FALSE])
  BY <1>2, <1>3 DEF SpanRead, SpanRecords
<1>5. Scan!Byte(place) = "end" => place = Len(source)
  BY <1>2, Within DEF LexicalInv
<1>6. Scan!Byte(place) = "newline" => Ready(place) /\ NoMark(place)
  BY <1>3 DEF Ready, NoMark, Scan!Quote
<1> QED
  BY <1>1, <1>2, <1>3, <1>4, <1>5, <1>6, EndStep

(* The reader at the quote that the scan finds.                            *)
LEMMA AtQuote ==
    ASSUME LexicalInv, Scan!StringBegins
    PROVE  /\ Scan!QuoteAt \in Nat /\ place <= Scan!QuoteAt /\ Scan!QuoteAt < Len(source)
           /\ \/ Scan!QuoteAt = place
              \/ Scan!QuoteAt = place + 1 /\ Scan!Reading[place + 1].in = "code" /\ Scan!Marks(place)
           /\ Scan!Reading[Scan!QuoteAt + 1] = Scan!FromCode(Scan!QuoteAt)
           /\ Scan!Quote(Scan!QuoteAt) /\ Scan!Byte(Scan!QuoteAt) # "hash"
           /\ Scan!Raw <=>
                 (Scan!Byte(Scan!QuoteAt - 1) = "r" /\ ~Scan!Name(Scan!Byte(Scan!QuoteAt - 2)))
<1>1. inside = "code" /\ Scan!Byte(place) # "hash" /\ Scan!Quote(Scan!QuoteAt)
  BY DEF Scan!StringBegins
<1>2. place \in Nat /\ Len(source) \in Nat
  BY DEF LexicalInv, LexicalTypes
<1>3. Scan!QuoteAt \in Nat /\ place <= Scan!QuoteAt
  BY <1>2 DEF Scan!QuoteAt
<1>4. Scan!Byte(Scan!QuoteAt) # "end" /\ Scan!Byte(Scan!QuoteAt) # "hash"
  BY <1>1 DEF Scan!Quote
<1>5. Scan!QuoteAt < Len(source)
  BY <1>2, <1>3, <1>4, Within DEF LexicalInv
<1>6. Ready(place) /\ NoMark(place)
  BY <1>1, <1>2, <1>3, <1>5 DEF LexicalInv, InCode
<1>7. CASE Scan!Raw \/ Scan!Sign
  <2>1. Scan!QuoteAt = place + 1 /\ Scan!Quote(place + 1)
    BY <1>1, <1>7 DEF Scan!QuoteAt
  <2>2. Scan!Byte(place) \in {"r", "ampersand", "caret"} /\ ~Scan!Quote(place)
    BY <1>7 DEF Scan!Raw, Scan!Sign, Scan!Quote
  <2>3. Scan!Reading[place + 1] = Scan!Outside
    BY <1>1, <1>2, <1>6, <2>2, ReadyReads DEF Scan!FromCode
  <2>4. Scan!Reading[place + 1].in = "code" /\ Ready(place + 1)
    BY <2>3 DEF Scan!Outside, Ready
  <2>5. Scan!Marks(place)
    BY <1>7, <2>1, <2>4 DEF Scan!Marks, Scan!Raw, Scan!Sign
  <2>6. Scan!Reading[Scan!QuoteAt + 1] = Scan!FromCode(Scan!QuoteAt)
    BY <1>3, <2>1, <2>4, ReadyReads
  <2>7. Scan!QuoteAt - 1 = place /\ Scan!QuoteAt - 2 = place - 1
    BY <1>2, <2>1
  <2>8. Scan!Raw <=> (Scan!Byte(Scan!QuoteAt - 1) = "r" /\ ~Scan!Name(Scan!Byte(Scan!QuoteAt - 2)))
    BY <2>1, <2>7 DEF Scan!Raw
  <2> QED
    BY <1>1, <1>3, <1>4, <1>5, <2>1, <2>4, <2>5, <2>6, <2>8
<1>8. CASE ~(Scan!Raw \/ Scan!Sign)
  <2>1. Scan!QuoteAt = place
    BY <1>8 DEF Scan!QuoteAt
  <2>2. Scan!Reading[Scan!QuoteAt + 1] = Scan!FromCode(Scan!QuoteAt)
    BY <1>2, <1>6, <2>1, ReadyReads
  <2>3. ~(Scan!Byte(Scan!QuoteAt - 1) = "r" /\ ~Scan!Name(Scan!Byte(Scan!QuoteAt - 2)))
    BY <1>1, <1>6, <2>1 DEF NoMark
  <2> QED
    BY <1>1, <1>3, <1>4, <1>5, <1>8, <2>1, <2>2, <2>3
<1> QED
  BY <1>7, <1>8

LEMMA StringBeginsStep ==
    ASSUME LexicalInv, Scan!StringBegins
    PROVE  LexicalInv'
<1> SUFFICES ASSUME NEW q, q = Scan!QuoteAt
             PROVE  LexicalInv'
  OBVIOUS
<1>1. /\ inside = "code" /\ inside' = "string" /\ place' = q + Scan!Width(q)
      /\ span' = [Scan!NoSpan EXCEPT
                      !.kind = IF Scan!Sign THEN Scan!Byte(place) ELSE "string", !.begin = place,
                                !.quoteBegin = q, !.quote = Scan!Byte(q),
                                !.width = Scan!Width(q), !.raw = Scan!Raw]
      /\ source' = source /\ spans' = spans
  BY DEF Scan!StringBegins
<1>2. place \in Nat /\ Len(source) \in Nat
  BY DEF LexicalInv, LexicalTypes
<1>3. /\ q \in Nat /\ place <= q /\ q < Len(source)
      /\ q = place \/ (q = place + 1 /\ Scan!Reading[place + 1].in = "code" /\ Scan!Marks(place))
      /\ Scan!Reading[q + 1] = Scan!FromCode(q) /\ Scan!Quote(q) /\ Scan!Byte(q) # "hash"
      /\ Scan!Raw <=> (Scan!Byte(q - 1) = "r" /\ ~Scan!Name(Scan!Byte(q - 2)))
  BY AtQuote
<1>4. Scan!Byte(q) \in {"single", "double"} /\ Scan!Byte(q) # "end"
  BY <1>3 DEF Scan!Quote
<1>5. Scan!Width(q) \in {1, 3} /\ Scan!Raw \in BOOLEAN
  BY DEF Scan!Width, Scan!Raw
<1>6. /\ span' \in SpanRecords /\ span'.kind # "comment" /\ span'.begin = place
      /\ span'.quoteBegin = q /\ span'.quote = Scan!Byte(q) /\ span'.width = Scan!Width(q)
      /\ span'.raw = Scan!Raw
  <2> SUFFICES ASSUME NEW kind, kind = IF Scan!Sign THEN Scan!Byte(place) ELSE "string",
                      NEW r \in BOOLEAN, r = Scan!Raw, NEW w \in {1, 3}, w = Scan!Width(q),
                      NEW b \in {"single", "double"}, b = Scan!Byte(q)
               PROVE  /\ span' \in SpanRecords /\ span'.kind # "comment"
                      /\ span'.begin = place
                      /\ span'.quoteBegin = q /\ span'.quote = b /\ span'.width = w
                      /\ span'.raw = r
    BY <1>4, <1>5
  <2>1. kind \in {"string", "ampersand", "caret"}
    BY DEF Scan!Sign
  <2>2. span' = [Scan!NoSpan EXCEPT !.kind = kind, !.begin = place, !.quoteBegin = q, !.quote = b,
                               !.width = w, !.raw = r]
    BY <1>1
  <2>3. span' = [kind |-> kind, begin |-> place, quoteBegin |-> q, quote |-> b, width |-> w,
                 raw |-> r, end |-> 0, closed |-> FALSE]
    BY <2>2 DEF Scan!NoSpan
  <2>4. span' \in SpanRecords
    BY <1>2, <1>3, <2>1, <2>3 DEF SpanRecords
  <2> QED
    BY <2>1, <2>3, <2>4
<1>7. /\ Scan!Reading[q + 1] = [in |-> "string", quote |-> Scan!Byte(q), width |-> Scan!Width(q),
                                raw |-> Scan!Raw,
                           due |-> Scan!Width(q) - 1]
  <2>1. Scan!Width(q) = IF Scan!Thrice(q) THEN 3 ELSE 1
    BY DEF Scan!Width, Scan!Thrice
  <2>2. Scan!Width(q) - 1 = IF Scan!Thrice(q) THEN 2 ELSE 0
    BY <2>1
  <2>3. Scan!Raw = (Scan!Byte(q - 1) = "r" /\ ~Scan!Name(Scan!Byte(q - 2)))
    BY <1>3, <1>5
  <2> QED
    BY <1>3, <2>1, <2>2, <2>3 DEF Scan!FromCode
<1>8. /\ q + Scan!Width(q) \in 0..Len(source) /\ q < q + Scan!Width(q)
      /\ \A byte \in Nat : q <= byte /\ byte < q + Scan!Width(q) => Scan!Reading[byte + 1].in = "string"
      /\ Scan!Reading[q + Scan!Width(q)].in = "string"
      /\ Scan!Reading[q + Scan!Width(q)].quote = Scan!Byte(q)
      /\ Scan!Reading[q + Scan!Width(q)].width = Scan!Width(q)
      /\ Scan!Reading[q + Scan!Width(q)].raw = Scan!Raw
      /\ Scan!Reading[q + Scan!Width(q)].due = 0
  <2>1. CASE Scan!Width(q) = 1
    <3>1. \A byte \in Nat : q <= byte /\ byte < q + 1 => byte = q
      BY <1>3
    <3> QED
      BY <1>3, <1>7, <2>1, <3>1
  <2>2. CASE Scan!Width(q) = 3
    <3>1. Scan!Byte(q + 2) # "end"
      BY <1>4, <2>2 DEF Scan!Width
    <3>2. q + 2 < Len(source) /\ q + 3 \in 0..Len(source)
      BY <1>2, <1>3, <3>1, Within DEF LexicalInv
    <3>3. q + 1 \in Nat /\ q + 2 \in Nat /\ (q + 1) + 1 = q + 2 /\ (q + 2) + 1 = q + 3
      BY <1>3
    <3>4. Scan!Reading[q + 1].due = 2 /\ Scan!Reading[q + 1].in = "string"
      BY <1>7, <2>2
    <3>5. Scan!Reading[q + 2] = [Scan!Reading[q + 1] EXCEPT !.due = @ - 1]
      <4>1. Scan!Reading[q + 1].due > 0
        BY <3>4
      <4> QED
        BY <3>3, <4>1, InsideReads
    <3>6. Scan!Reading[q + 2] = [in |-> "string", quote |-> Scan!Byte(q), width |-> 3,
                                 raw |-> Scan!Raw,
                            due |-> 1]
      BY <1>7, <2>2, <3>5
    <3>7. Scan!Reading[q + 3] = [Scan!Reading[q + 2] EXCEPT !.due = @ - 1]
      <4>1. Scan!Reading[q + 2].due > 0
        BY <3>6
      <4> QED
        BY <3>3, <4>1, InsideReads
    <3>8. Scan!Reading[q + 3] = [in |-> "string", quote |-> Scan!Byte(q), width |-> 3,
                                 raw |-> Scan!Raw,
                            due |-> 0]
      BY <3>6, <3>7
    <3>9. \A byte \in Nat : q <= byte /\ byte < q + 3 => byte \in {q, q + 1, q + 2}
      BY <1>3
    <3>10. \A byte \in {q, q + 1, q + 2} : Scan!Reading[byte + 1].in = "string"
      BY <3>3, <3>4, <3>6, <3>8
    <3> QED
      BY <1>3, <2>2, <3>2, <3>8, <3>9, <3>10
  <2> QED
    BY <1>5, <2>1, <2>2
<1>9. LexicalTypes' /\ Reached' = place /\ Reached = place
  BY <1>1, <1>6, <1>8 DEF LexicalInv, LexicalTypes, Reached
<1>10. InCode' /\ InComment'
  BY <1>1 DEF InCode, InComment
<1>11. InString'
  <2> SUFFICES ASSUME NEW e, e = q + Scan!Width(q)
               PROVE  InString'
    OBVIOUS
  <2>1. StringRead(place, q, e)
    <3>1. \A byte \in Nat : place <= byte /\ byte < q => byte = place /\ q = place + 1
      BY <1>2, <1>3
    <3>2. \A byte \in Nat : byte < q \/ q <= byte
      BY <1>3
    <3> QED
      BY <1>3, <1>8, <3>1, <3>2 DEF StringRead
  <2>3. StringRead(span.begin, span.quoteBegin, place)'
    <3>1. span'.begin = place /\ span'.quoteBegin = q /\ place' = e
      BY <1>1, <1>6
    <3>2. Scan!Reading' = Scan!Reading /\ \A byte : Scan!Marks(byte)' = Scan!Marks(byte)
      BY <1>1, SameSource
    <3> QED
      BY <2>1, <3>1, <3>2 DEF StringRead
  <2>4. /\ Scan!Reading'[place'].in = "string" /\ Scan!Reading'[place'].quote = Scan!Byte(q)
        /\ Scan!Reading'[place'].width = Scan!Width(q)
        /\ Scan!Reading'[place'].raw = Scan!Raw /\ Scan!Reading'[place'].due = 0
    BY <1>1, <1>8, SameSource
  <2> QED
    BY <1>1, <1>3, <1>4, <1>5, <1>6, <1>8, <2>3, <2>4 DEF InString
<1>12. SpansRead' /\ Ordered'
  BY <1>1, <1>2, <1>3, <1>8, <1>9, SpansStay
<1>13. CodeRead'
  BY <1>1, <1>9, CodeStays
<1> QED
  BY <1>9, <1>10, <1>11, <1>12, <1>13 DEF LexicalInv

(* A byte further in the string, or two.                                   *)
LEMMA StringGoesOn ==
    ASSUME LexicalInv, inside = "string", NEW next, Scan!Read(next),
           next \in 0..Len(source), place < next,
           \A byte \in Nat : place <= byte /\ byte < next => Scan!Reading[byte + 1].in = "string",
           Scan!Reading[next].in = "string", Scan!Reading[next].quote = span.quote,
           Scan!Reading[next].width = span.width, Scan!Reading[next].raw = span.raw,
           Scan!Reading[next].due = 0 \/ next = Len(source)
    PROVE  LexicalInv'
<1>1. /\ place' = next /\ source' = source /\ inside' = inside /\ span' = span
      /\ spans' = spans
  BY DEF Scan!Read
<1>2. /\ place \in Nat /\ Len(source) \in Nat /\ span.begin \in Nat
      /\ span.quoteBegin \in Nat /\ next \in Nat
  BY DEF LexicalInv, LexicalTypes, SpanRecords
<1>3. /\ span.kind # "comment" /\ span.begin <= span.quoteBegin /\ span.quoteBegin < place
      /\ span.quote \in {"single", "double"} /\ span.width \in {1, 3}
      /\ StringRead(span.begin, span.quoteBegin, place)
  BY DEF LexicalInv, InString
<1>4. LexicalTypes' /\ Reached' = span.begin /\ Reached = span.begin
  BY <1>1 DEF LexicalInv, LexicalTypes, Reached
<1>5. InCode' /\ InComment'
  BY <1>1 DEF InCode, InComment
<1>6. InString'
  <2>1. ASSUME NEW byte \in Nat, span.begin <= byte, byte < next
        PROVE  IF byte < span.quoteBegin THEN Scan!Reading[byte + 1].in = "code" /\ Scan!Marks(byte)
               ELSE Scan!Reading[byte + 1].in = "string"
    <3>1. CASE byte < place
      BY <1>3, <2>1, <3>1 DEF StringRead
    <3>2. CASE place <= byte
      BY <1>2, <1>3, <2>1, <3>2
    <3> QED
      BY <1>2, <3>1, <3>2
  <2>2. StringRead(span.begin, span.quoteBegin, place)'
    BY <1>1, <2>1, SameSource DEF StringRead
  <2>3. span.quoteBegin < next
    BY <1>2, <1>3
  <2> QED
    BY <1>1, <1>3, <2>2, <2>3, SameSource DEF InString
<1>7. SpansRead' /\ Ordered'
  BY <1>1, <1>2, <1>4, SpansStay
<1>8. CodeRead'
  BY <1>1, <1>4, CodeStays
<1> QED
  BY <1>4, <1>5, <1>6, <1>7, <1>8 DEF LexicalInv

LEMMA InsideString ==
    ASSUME LexicalInv, inside = "string", Scan!Byte(place) # "end"
    PROVE  /\ place \in Nat /\ place < Len(source) /\ Len(source) \in Nat
           /\ place + 1 \in 0..Len(source)
           /\ Scan!Reading[place].in = "string" /\ Scan!Reading[place].quote = span.quote
           /\ Scan!Reading[place].width = span.width
           /\ Scan!Reading[place].raw = span.raw /\ Scan!Reading[place].due = 0
           /\ span.quote \in {"single", "double"} /\ span.width \in {1, 3}
           /\ span.raw \in BOOLEAN
           /\ Scan!Reading[place + 1] = Scan!FromString(Scan!Reading[place], place)
<1>1. place \in Nat /\ Len(source) \in Nat
  BY DEF LexicalInv, LexicalTypes
<1>2. place < Len(source) /\ place + 1 \in 0..Len(source)
  BY <1>1, Within DEF LexicalInv
<1>3. /\ Scan!Reading[place].in = "string" /\ Scan!Reading[place].quote = span.quote
      /\ Scan!Reading[place].width = span.width /\ Scan!Reading[place].raw = span.raw
      /\ span.quote \in {"single", "double"} /\ span.width \in {1, 3}
  BY DEF LexicalInv, InString
<1>4. Scan!Reading[place].due = 0
  BY <1>1, <1>2 DEF LexicalInv, InString
<1>5. span.raw \in BOOLEAN
  BY DEF LexicalInv, LexicalTypes, SpanRecords
<1> QED
  BY <1>1, <1>2, <1>3, <1>4, <1>5, InsideReads

LEMMA StringReadsStep ==
    ASSUME LexicalInv, Scan!StringReads
    PROVE  LexicalInv'
<1>1. /\ inside = "string" /\ Scan!Byte(place) # "end" /\ Scan!Byte(place) # "backslash"
      /\ ~Scan!Closes
      /\ Scan!Read(place + 1)
  BY DEF Scan!StringReads
<1>2. Scan!Reading[place + 1] = Scan!Reading[place]
  BY <1>1, InsideString DEF Scan!FromString, Scan!Closes, Scan!Thrice
<1>3. \A byte \in Nat : place <= byte /\ byte < place + 1 => byte = place
  BY <1>1, InsideString
<1>4. place < place + 1
  BY <1>1, InsideString
<1> QED
  BY <1>1, <1>2, <1>3, <1>4, InsideString, StringGoesOn

LEMMA StringEscapesStep ==
    ASSUME LexicalInv, Scan!StringEscapes
    PROVE  LexicalInv'
<1>1. inside = "string" /\ Scan!Byte(place) = "backslash" /\ Scan!Read(Scan!Escaped)
  BY DEF Scan!StringEscapes
<1>2. /\ place \in Nat /\ place < Len(source) /\ Len(source) \in Nat
      /\ place + 1 \in 0..Len(source)
      /\ Scan!Reading[place].in = "string" /\ Scan!Reading[place].quote = span.quote
      /\ Scan!Reading[place].width = span.width /\ Scan!Reading[place].raw = span.raw
      /\ Scan!Reading[place].due = 0
      /\ Scan!Reading[place + 1] = Scan!FromString(Scan!Reading[place], place)
  BY <1>1, InsideString
<1> DEFINE kept == span.raw /\ Scan!Byte(place + 1) \notin {span.quote, "backslash"}
<1>3. Scan!Reading[place + 1] = [Scan!Reading[place] EXCEPT !.due = IF kept THEN 0 ELSE 1]
  BY <1>1, <1>2 DEF Scan!FromString
<1> DEFINE due == IF kept THEN 0 ELSE 1
<1>4. due \in {0, 1} /\ (kept => due = 0) /\ (~kept => due = 1)
  OBVIOUS
<1>5. Scan!Escaped = IF Scan!Byte(place + 1) = "end" \/ kept THEN place + 1 ELSE place + 2
  BY DEF Scan!Escaped
<1> HIDE DEF kept, due
<1>6. Scan!Reading[place + 1] = [Scan!Reading[place] EXCEPT !.due = due]
  BY <1>3 DEF due
<1>7. /\ Scan!Reading[place + 1].in = "string" /\ Scan!Reading[place + 1].quote = span.quote
      /\ Scan!Reading[place + 1].width = span.width
      /\ Scan!Reading[place + 1].raw = span.raw
      /\ Scan!Reading[place + 1].due = due
  <2>1. Scan!Reading[place] \in States
    BY <1>2, ReadingTypes
  <2> QED
    BY <1>2, <1>6, <2>1 DEF States
<1>8. CASE Scan!Byte(place + 1) = "end"
  <2>1. ~(place + 1 \in 0..(Len(source) - 1)) /\ place + 1 \in Int
    BY <1>2, <1>8, Within DEF LexicalInv
  <2>2. place + 1 = Len(source) /\ Scan!Escaped = place + 1
    BY <1>2, <1>5, <1>8, <2>1
  <2>3. \A byte \in Nat : place <= byte /\ byte < place + 1 => byte = place
    BY <1>2
  <2>4. place < place + 1
    BY <1>2
  <2> QED
    BY <1>1, <1>2, <1>7, <2>2, <2>3, <2>4, StringGoesOn
<1>9. CASE Scan!Byte(place + 1) # "end" /\ kept
  <2>1. Scan!Escaped = place + 1 /\ place < place + 1
    BY <1>2, <1>5, <1>9
  <2>2. \A byte \in Nat : place <= byte /\ byte < place + 1 => byte = place
    BY <1>2
  <2> QED
    BY <1>1, <1>2, <1>4, <1>7, <1>9, <2>1, <2>2, StringGoesOn
<1>10. CASE Scan!Byte(place + 1) # "end" /\ ~kept
  <2>1. Scan!Escaped = place + 2 /\ place < place + 2 /\ place + 1 \in Nat /\ (place + 1) + 1 = place + 2
    BY <1>2, <1>5, <1>10
  <2>2. place + 2 \in 0..Len(source)
    <3>1. place + 1 \in 0..(Len(source) - 1)
      BY <1>2, <1>10, <2>1, Within DEF LexicalInv
    <3> QED
      BY <1>2, <3>1
  <2>3. Scan!Reading[place + 1].due > 0
    BY <1>4, <1>7, <1>10
  <2>4. Scan!Reading[place + 2] = [Scan!Reading[place + 1] EXCEPT !.due = @ - 1]
    BY <2>1, <2>3, InsideReads
  <2>5. /\ Scan!Reading[place + 2].in = "string"
        /\ Scan!Reading[place + 2].quote = span.quote
        /\ Scan!Reading[place + 2].width = span.width
        /\ Scan!Reading[place + 2].raw = span.raw
        /\ Scan!Reading[place + 2].due = 0
    <3>1. Scan!Reading[place + 1] \in States
      BY <2>1, ReadingTypes
    <3>2. Scan!Reading[place + 1].due = 1
      BY <1>4, <1>7, <1>10
    <3> QED
      BY <1>7, <2>4, <3>1, <3>2 DEF States
  <2>6. \A byte \in Nat : place <= byte /\ byte < place + 2 => byte = place \/ byte = place + 1
    BY <1>2
  <2> QED
    BY <1>1, <1>7, <2>1, <2>2, <2>5, <2>6, StringGoesOn
<1> QED
  BY <1>8, <1>9, <1>10

LEMMA StringClosesStep ==
    ASSUME LexicalInv, Scan!StringCloses
    PROVE  LexicalInv'
<1>1. /\ inside = "string" /\ Scan!Byte(place) = span.quote
      /\ Scan!End(place + span.width, TRUE)
      /\ span.width = 1 \/ (Scan!Byte(place + 1) = span.quote /\ Scan!Byte(place + 2) = span.quote)
  BY DEF Scan!StringCloses, Scan!Closes
<1>2. span.quote \in {"single", "double"} /\ span.width \in {1, 3}
  BY <1>1 DEF LexicalInv, InString
<1>3. Scan!Byte(place) # "end" /\ Scan!Byte(place) # "backslash"
  BY <1>1, <1>2
<1>4. /\ place \in Nat /\ place < Len(source) /\ Len(source) \in Nat
      /\ place + 1 \in 0..Len(source)
      /\ Scan!Reading[place].in = "string" /\ Scan!Reading[place].quote = span.quote
      /\ Scan!Reading[place].width = span.width /\ Scan!Reading[place].raw = span.raw
      /\ Scan!Reading[place].due = 0
      /\ Scan!Reading[place + 1] = Scan!FromString(Scan!Reading[place], place)
  BY <1>1, <1>3, InsideString
<1>5. Scan!Reading[place + 1] = [Scan!Reading[place] EXCEPT !.in = "closing", !.due = span.width - 1]
  BY <1>1, <1>2, <1>3, <1>4 DEF Scan!FromString, Scan!Thrice
<1>6. Scan!Reading[place + 1].in = "closing" /\ Scan!Reading[place + 1].due = span.width - 1
  <2>1. Scan!Reading[place] \in States
    BY <1>4, ReadingTypes
  <2> QED
    BY <1>5, <2>1 DEF States
<1> SUFFICES ASSUME NEW next, next = place + span.width
             PROVE  LexicalInv'
  OBVIOUS
<1>7. /\ next \in Nat /\ place < next /\ next <= Len(source)
      /\ Scan!Byte(next - 1) = span.quote
      /\ Scan!Reading[next].in = "closing" /\ Scan!Reading[next].due = 0
      /\ \A byte \in Nat : place <= byte /\ byte < next - 1 =>
             Scan!Reading[byte + 1].in = "closing" /\ Scan!Reading[byte + 1].due > 0
  <2>1. CASE span.width = 1
    <3>1. next = place + 1 /\ next - 1 = place /\ place < next
      BY <1>4, <2>1
    <3>2. \A byte \in Nat : ~(place <= byte /\ byte < place)
      BY <1>4
    <3> QED
      BY <1>1, <1>4, <1>6, <2>1, <3>1, <3>2
  <2>2. CASE span.width = 3
    <3>1. next = place + 3 /\ next - 1 = place + 2 /\ place < next /\ next \in Nat
      BY <1>4, <2>2
    <3>2. place + 1 \in Nat /\ place + 2 \in Nat /\ (place + 1) + 1 = place + 2 /\ (place + 2) + 1 = place + 3
      BY <1>4
    <3>3. Scan!Byte(place + 2) = span.quote
      BY <1>1, <2>2
    <3>4. place + 2 \in 0..(Len(source) - 1)
      <4>1. Scan!Byte(place + 2) # "end"
        BY <1>2, <3>3
      <4> QED
        BY <3>2, <4>1, Within DEF LexicalInv
    <3>5. next <= Len(source)
      BY <1>4, <3>1, <3>4
    <3>6. Scan!Reading[place + 1].due = 2
      BY <1>6, <2>2
    <3>7. Scan!Reading[place + 2].in = "closing" /\ Scan!Reading[place + 2].due = 1
      <4>1. Scan!Reading[place + 1] \in States /\ Scan!Reading[place + 1].due > 0
        BY <3>2, <3>6, ReadingTypes
      <4>2. Scan!Reading[place + 2] = [Scan!Reading[place + 1] EXCEPT !.due = @ - 1]
        BY <3>2, <4>1, InsideReads
      <4> QED
        BY <1>6, <3>6, <4>1, <4>2 DEF States
    <3>8. Scan!Reading[place + 3].in = "closing" /\ Scan!Reading[place + 3].due = 0
      <4>1. Scan!Reading[place + 2] \in States /\ Scan!Reading[place + 2].due > 0
        BY <3>2, <3>7, ReadingTypes
      <4>2. Scan!Reading[place + 3] = [Scan!Reading[place + 2] EXCEPT !.due = @ - 1]
        BY <3>2, <4>1, InsideReads
      <4> QED
        BY <3>7, <4>1, <4>2 DEF States
    <3>9. \A byte \in Nat : place <= byte /\ byte < place + 2 => byte = place \/ byte = place + 1
      BY <1>4
    <3>10. \A byte \in Nat : place <= byte /\ byte < place + 2 =>
               Scan!Reading[byte + 1].in = "closing" /\ Scan!Reading[byte + 1].due > 0
      BY <1>6, <3>2, <3>6, <3>7, <3>9
    <3> QED
      BY <3>1, <3>3, <3>5, <3>8, <3>10
  <2> QED
    BY <1>2, <2>1, <2>2
<1>8. /\ span \in SpanRecords /\ span.kind # "comment" /\ span.begin <= span.quoteBegin
      /\ span.quoteBegin < place /\ span.begin \in Nat /\ span.quoteBegin \in Nat
      /\ StringRead(span.begin, span.quoteBegin, place)
  <2>1. span \in SpanRecords
    BY DEF LexicalInv, LexicalTypes
  <2> QED
    BY <1>1, <2>1 DEF LexicalInv, InString, SpanRecords
<1>9. SpanRead([span EXCEPT !.end = next, !.closed = TRUE])
  <2> SUFFICES ASSUME NEW byte \in Nat, span.begin <= byte, byte < next
               PROVE  IF byte < span.quoteBegin THEN Scan!Reading[byte + 1].in = "code" /\ Scan!Marks(byte)
                      ELSE IF byte = next - 1
                      THEN Scan!Reading[byte + 1].in = "closing" /\ Scan!Reading[byte + 1].due = 0
                      ELSE \/ Scan!Reading[byte + 1].in = "string"
                           \/ Scan!Reading[byte + 1].in = "closing" /\ Scan!Reading[byte + 1].due > 0
    BY <1>8 DEF SpanRead, SpanRecords
  <2>1. CASE byte < place
    <3>1. byte # next - 1
      BY <1>4, <1>7, <2>1
    <3> QED
      BY <1>8, <2>1, <3>1 DEF StringRead
  <2>2. CASE place <= byte /\ byte = next - 1
    <3>1. byte + 1 = next /\ ~(byte < span.quoteBegin)
      BY <1>4, <1>7, <1>8, <2>2
    <3> QED
      BY <1>7, <2>2, <3>1
  <2>3. CASE place <= byte /\ byte # next - 1
    <3>1. byte < next - 1
      <4> next \in Nat
        BY <1>7
      <4> QED
        BY <2>3
    <3>2. ~(byte < span.quoteBegin)
      <4> place \in Nat /\ span.quoteBegin \in Nat /\ span.quoteBegin < place
        BY <1>4, <1>8
      <4> QED
        BY <2>3
    <3> QED
      BY <1>7, <2>3, <3>1, <3>2
  <2> QED
    BY <1>4, <2>1, <2>2, <2>3
<1>10. Ready(next) /\ NoMark(next)
  BY <1>2, <1>7 DEF Ready, NoMark
<1>11. span.begin < next /\ place <= next
  BY <1>4, <1>7, <1>8
<1> QED
  BY <1>1, <1>7, <1>9, <1>10, <1>11, EndStep

LEMMA StringStaysOpenStep ==
    ASSUME LexicalInv, Scan!StringStaysOpen
    PROVE  LexicalInv'
<1>1. inside = "string" /\ Scan!Byte(place) = "end" /\ Scan!End(place, FALSE)
  BY DEF Scan!StringStaysOpen
<1>2. /\ place \in Nat /\ Len(source) \in Nat /\ place <= Len(source) /\ place <= place
      /\ span \in SpanRecords
  BY DEF LexicalInv, LexicalTypes
<1>3. place = Len(source)
  <2>1. ~(place \in 0..(Len(source) - 1))
    BY <1>1, <1>2, Within DEF LexicalInv
  <2> QED
    BY <1>2, <2>1
<1>4. /\ span.kind # "comment" /\ span.begin <= span.quoteBegin
      /\ span.quoteBegin < place /\ span.begin \in Nat /\ span.quoteBegin \in Nat
      /\ StringRead(span.begin, span.quoteBegin, place)
  BY <1>1, <1>2 DEF LexicalInv, InString, SpanRecords
<1>5. SpanRead([span EXCEPT !.end = place, !.closed = FALSE])
  BY <1>2, <1>4 DEF SpanRead, SpanRecords, StringRead
<1>6. span.begin < place
  BY <1>2, <1>4
<1> QED
  BY <1>1, <1>2, <1>3, <1>5, <1>6, EndStep

-----------------------------------------------------------------------------
(* The invariant holds of every run and gives the property.                *)

LEMMA LexicalStarts ==
    ASSUME Scan!Init, Scan!Finite
    PROVE  LexicalInv
<1>1. /\ source \in Sources /\ place = 0 /\ inside = "code" /\ span = Scan!NoSpan
      /\ spans = <<>>
  BY DEF Scan!Init
<1>2. /\ Len(source) \in Nat /\ DOMAIN source = 1..Len(source)
      /\ \A n \in DOMAIN source : source[n] # "end"
  BY <1>1 DEF Scan!Finite
<1>3. LexicalTypes
  <2>1. Scan!NoSpan \in SpanRecords /\ <<>> \in Seq(SpanRecords)
    BY DEF Scan!NoSpan, SpanRecords
  <2>2. 0 \in 0..Len(source)
    BY <1>2
  <2> QED
    BY <1>1, <1>2, <2>1, <2>2 DEF LexicalTypes
<1>4. InCode
  <2>1. Scan!Reading[0] = Scan!Outside
    BY ReadingSteps
  <2>2. Ready(0)
    BY <2>1 DEF Ready, Scan!Outside
  <2>3. Scan!Byte(0 - 1) = "end"
    <3>1. 0 - 1 \in Int /\ 0 - 1 \notin 0..(Len(source) - 1)
      BY <1>2
    <3> QED
      BY <1>3, <3>1, Within
  <2>4. NoMark(0)
    BY <2>3 DEF NoMark
  <2> QED
    BY <1>1, <2>2, <2>4 DEF InCode
<1>5. InComment /\ InString
  BY <1>1 DEF InComment, InString
<1>6. SpansRead /\ Ordered
  <2>1. DOMAIN spans = {}
    BY <1>1
  <2> QED
    BY <2>1 DEF SpansRead, Ordered, Scan!SpansOrdered
<1>7. CodeRead
  <2>1. Reached = 0
    BY <1>1 DEF Reached
  <2>2. \A byte \in Nat : ~(byte < 0)
    OBVIOUS
  <2> QED
    BY <2>1, <2>2 DEF CodeRead
<1> QED
  BY <1>3, <1>4, <1>5, <1>6, <1>7 DEF LexicalInv

LEMMA LexicalSteps ==
    ASSUME LexicalInv, [Scan!Next]_(Scan!vars)
    PROVE  LexicalInv'
<1>1. CASE UNCHANGED Scan!vars
  <2>1. /\ source' = source /\ place' = place /\ inside' = inside /\ span' = span
        /\ spans' = spans
    BY <1>1 DEF Scan!vars
  <2>2. LexicalTypes'
    BY <2>1 DEF LexicalInv, LexicalTypes
  <2>3. InCode' /\ InComment' /\ InString'
    BY <2>1, SameSource DEF LexicalInv, InCode, InComment, InString, StringRead
  <2>4. SpansRead'
    BY <2>1, SameSource DEF LexicalInv, SpansRead
  <2>5. CodeRead'
    BY <2>1, CodeStays DEF Reached
  <2>6. Ordered'
    BY <2>1 DEF LexicalInv, Ordered, Scan!SpansOrdered, Reached, Finished
  <2> QED
    BY <2>2, <2>3, <2>4, <2>5, <2>6 DEF LexicalInv
<1>2. CASE Scan!Skip
  BY <1>2, SkipStep
<1>3. CASE Scan!CommentBegins
  BY <1>3, CommentBeginsStep
<1>4. CASE Scan!CommentReads
  BY <1>4, CommentReadsStep
<1>5. CASE Scan!CommentEnds
  BY <1>5, CommentEndsStep
<1>6. CASE Scan!StringBegins
  BY <1>6, StringBeginsStep
<1>7. CASE Scan!StringEscapes
  BY <1>7, StringEscapesStep
<1>8. CASE Scan!StringReads
  BY <1>8, StringReadsStep
<1>9. CASE Scan!StringCloses
  BY <1>9, StringClosesStep
<1>10. CASE Scan!StringStaysOpen
  BY <1>10, StringStaysOpenStep
<1> QED
  BY <1>1, <1>2, <1>3, <1>4, <1>5, <1>6, <1>7, <1>8, <1>9, <1>10 DEF Scan!Next

(* What the spans cover is what the reader finds in comments and strings.  *)
LEMMA CodeIsFound ==
    ASSUME LexicalInv, Scan!Done, NEW byte \in Nat, byte < Len(source)
    PROVE  Scan!Code(byte) <=> Scan!Reading[byte + 1].in = "code" /\ ~Scan!Marks(byte)
<1>1. inside = "code" /\ Reached = Len(source)
  BY DEF Scan!Done, Reached
<1>2. Scan!Code(byte) => Scan!Reading[byte + 1].in = "code" /\ ~Scan!Marks(byte)
  BY <1>1 DEF LexicalInv, CodeRead
<1>3. ASSUME ~Scan!Code(byte)
      PROVE  ~(Scan!Reading[byte + 1].in = "code" /\ ~Scan!Marks(byte))
  <2>1. PICK n \in DOMAIN spans : spans[n].begin <= byte /\ byte < spans[n].end
    BY <1>3 DEF Scan!Code, Scan!SpanAt
  <2>2. SpanRead(spans[n])
    BY DEF LexicalInv, SpansRead
  <2> QED
    BY <2>1, <2>2 DEF SpanRead
<1> QED
  BY <1>2, <1>3

LEMMA ContextIsFound ==
    ASSUME LexicalInv, Scan!Done, NEW byte \in Nat, byte < Len(source)
    PROVE  Scan!ContextAt(byte + 1) # "code" <=>
               \/ Scan!Reading[byte + 1].in \in {"comment", "string"}
               \/ Scan!Reading[byte + 1].in = "closing" /\ Scan!Reading[byte + 1].due > 0
<1> DEFINE found == \/ Scan!Reading[byte + 1].in \in {"comment", "string"}
                    \/ Scan!Reading[byte + 1].in = "closing" /\ Scan!Reading[byte + 1].due > 0
<1>1. (byte + 1) - 1 = byte
  OBVIOUS
<1>2. ASSUME NEW n \in DOMAIN spans
      PROVE  /\ spans[n].kind # "code" /\ spans[n].begin \in Nat /\ spans[n].end \in Nat
             /\ spans[n].quoteBegin \in Nat
  <2>1. spans \in Seq(SpanRecords)
    BY DEF LexicalInv, LexicalTypes
  <2>2. spans[n] \in SpanRecords
    BY <2>1
  <2> QED
    BY <2>2 DEF SpanRecords
<1>3. Scan!ContextAt(byte + 1) # "code" <=> Scan!ContextSpan(byte + 1) # {}
  <2>1. \A n \in Scan!ContextSpan(byte + 1) : n \in DOMAIN spans
    BY DEF Scan!ContextSpan, Scan!SpanAt
  <2>2. \A n \in Scan!ContextSpan(byte + 1) : spans[n].kind # "code"
    BY <1>2, <2>1
  <2> QED
    BY <2>2 DEF Scan!ContextAt
<1>4. ASSUME NEW n \in DOMAIN spans, spans[n].begin <= byte, byte < spans[n].end
      PROVE  (\/ spans[n].kind = "comment"
              \/ byte + 1 > spans[n].quoteBegin /\ (byte + 1 < spans[n].end \/ ~spans[n].closed))
                 <=> found
  <2>1. IF spans[n].kind = "comment" THEN Scan!Reading[byte + 1].in = "comment"
        ELSE IF byte < spans[n].quoteBegin THEN Scan!Reading[byte + 1].in = "code" /\ Scan!Marks(byte)
        ELSE IF spans[n].closed /\ byte = spans[n].end - 1
             THEN Scan!Reading[byte + 1].in = "closing" /\ Scan!Reading[byte + 1].due = 0
        ELSE \/ Scan!Reading[byte + 1].in = "string"
             \/ Scan!Reading[byte + 1].in = "closing" /\ Scan!Reading[byte + 1].due > 0
    BY <1>4 DEF LexicalInv, SpansRead, SpanRead
  <2>2. /\ byte + 1 > spans[n].quoteBegin <=> ~(byte < spans[n].quoteBegin)
        /\ byte + 1 < spans[n].end <=> byte # spans[n].end - 1
    BY <1>2, <1>4
  <2>3. ~(0 > 0)
    OBVIOUS
  <2> QED
    BY <2>1, <2>2, <2>3
<1>5. Scan!ContextSpan(byte + 1) # {} => found
  <2> SUFFICES ASSUME NEW n \in Scan!ContextSpan(byte + 1)
               PROVE  found
    OBVIOUS
  <2>1. /\ n \in DOMAIN spans /\ spans[n].begin <= byte /\ byte < spans[n].end
        /\ \/ spans[n].kind = "comment"
           \/ byte + 1 > spans[n].quoteBegin /\ (byte + 1 < spans[n].end \/ ~spans[n].closed)
    BY <1>1 DEF Scan!ContextSpan, Scan!SpanAt
  <2> QED
    BY <1>4, <2>1
<1>6. found => Scan!ContextSpan(byte + 1) # {}
  <2> SUFFICES ASSUME found
               PROVE  Scan!ContextSpan(byte + 1) # {}
    OBVIOUS
  <2>1. ~Scan!Code(byte)
    BY CodeIsFound
  <2>2. PICK n \in DOMAIN spans : spans[n].begin <= byte /\ byte < spans[n].end
    BY <2>1 DEF Scan!Code, Scan!SpanAt
  <2>3. n \in Scan!SpanAt((byte + 1) - 1)
    BY <1>1, <2>2 DEF Scan!SpanAt
  <2>4. \/ spans[n].kind = "comment"
        \/ byte + 1 > spans[n].quoteBegin /\ (byte + 1 < spans[n].end \/ ~spans[n].closed)
    BY <1>4, <2>2
  <2> QED
    BY <2>3, <2>4 DEF Scan!ContextSpan
<1> QED
  BY <1>3, <1>5, <1>6

LEMMA SpansAreRight ==
    ASSUME LexicalInv
    PROVE  Scan!SpansRight
<1>1. Len(source) \in Nat
  BY DEF LexicalInv, LexicalTypes
<1>2. \A byte \in 0..(Len(source) - 1) : byte \in Nat /\ byte < Len(source)
  BY <1>1
<1>3. Scan!CodeFound
  BY <1>2, CodeIsFound DEF Scan!CodeFound
<1>4. Scan!SpansOrdered
  BY DEF LexicalInv, Ordered
<1>5. Scan!ContextFollows
  <2> SUFFICES ASSUME Scan!Done, NEW caret \in 1..Len(source)
               PROVE  Scan!ContextAt(caret) # "code" <=>
                          \/ Scan!Reading[caret].in \in {"comment", "string"}
                          \/ Scan!Reading[caret].in = "closing" /\ Scan!Reading[caret].due > 0
    BY DEF Scan!ContextFollows
  <2>1. PICK byte \in Nat : byte < Len(source) /\ caret = byte + 1
    <3>1. caret - 1 \in Nat /\ caret - 1 < Len(source) /\ caret = (caret - 1) + 1
      BY <1>1
    <3> QED
      BY <3>1
  <2> QED
    BY <2>1, ContextIsFound
<1> QED
  BY <1>3, <1>4, <1>5 DEF Scan!SpansRight

(* In every source, however its quotes, marks, escapes and comments follow *)
(* each other, the spans follow each other, a byte is taken for code       *)
(* exactly if reading byte after byte finds it in no comment and in no     *)
(* string, and so is the caret (source_lexical.cpp: the constructor,       *)
(* span_at and context_span).                                              *)
THEOREM SpansFound == AllSpec => []SpansRight
<1> DEFINE Inv == ~(world = "lexical") \/ LexicalInv
<1>1. AllInit => Inv
  BY Worlds, LexicalStarts, SourcesAssumption
<1>2. Inv /\ [AllNext]_allVars => Inv'
  BY Worlds, LexicalSteps
<1>3. Inv => SpansRight
  BY SpansAreRight DEF SpansRight
<1> QED
  BY <1>1, <1>2, <1>3, PTL DEF AllSpec
=============================================================================
