------------------------------- MODULE Session -------------------------------
(***************************************************************************)
(* The message loop of one session (src/src/lsp/main.cpp): which request   *)
(* is answered and how, what a client's settings become, which project is  *)
(* opened, and the texts that the workspace is given.  Requests are handled*)
(* one at a time; only a pull may be answered later, by the coordinator.   *)
(***************************************************************************)
EXTENDS Naturals, FiniteSets, FiniteSetsExt, Functions

CONSTANTS
    Ids, Docs, Texts,
    Rejected,           \* documents outside the workspace
    ParentOf, Projects, \* the directories (0 has no parent), and which hold project.godot
    Options,            \* the directories of --project; 0 without one
    Current,            \* the working directory
    CommandLines,       \* the engine of the command line, or "none"
    Traffics,           \* bound: the kinds of message that one client sends
    MaxMessages         \* bound: messages of the client

VARIABLES
    traffic, commandLine,
    option,             \* --project, or 0
    initialized, shutdown,
    ended,              \* "no", or how the process ended
    project, asked,     \* the root of the workspace, and what was asked for
    style, snippets,    \* LspCompletionConfiguration
    engine,             \* the configuration of the engine
    item,               \* what the last completion was sent as
    buffers, index,     \* text of each open buffer, and of the workspace
    disk, shown,        \* text of each file, and of each document of the client
    cancelled,
    pulls,              \* the pulls that the coordinator has not answered
    late,               \* those of them that came after the shutdown
    owed,               \* requests of each id less answers to them
    credit,             \* cancellations of each id less pulls, and less later
                        \* requests, that were refused for them
    capable,            \* whether the client understands snippets
    messages

documents == <<buffers, index, disk, shown>>
settings == <<style, snippets, engine, item, capable>>
selection == <<traffic, commandLine, option, project, asked>>
requests == <<cancelled, pulls, late, owed, credit>>
vars == <<initialized, shutdown, ended, selection, settings, documents,
          requests, messages>>

Absent == "absent"

-----------------------------------------------------------------------------
(* The beginning and the end of a request.                                 *)

(* An id is not used again before its request is answered.                 *)
Request(id) == owed[id] = 0 /\ messages < MaxMessages /\ ended = "no"
Message == messages' = messages + 1
Notification == messages < MaxMessages /\ ended = "no" /\ Message

Handled(id) == Request(id) /\ id \notin cancelled /\ Message

(* The request is received and answered.                                   *)
Responds(id) == UNCHANGED requests

(* $/cancelRequest: a pull that waits is refused now, and the next request *)
(* with the id when it comes.                                              *)
Cancel(id) ==
    /\ Notification
    /\ cancelled' = cancelled \cup {id}
    /\ pulls' = pulls \ {id} /\ late' = late \ {id}
    /\ owed' = [owed EXCEPT ![id] = @ - Cardinality(pulls \cap {id})]
    /\ credit' = [credit EXCEPT
           ![id] = [waiting |-> @.waiting + 1 - Cardinality(pulls \cap {id}),
                    next |-> @.next + 1]]
    /\ UNCHANGED <<initialized, shutdown, ended, selection, settings, documents>>

(* Mutant: a cancelled id is remembered after it was refused.              *)
RefuseCancelledAgain(id) ==
    /\ Request(id) /\ id \in cancelled /\ Message
    /\ UNCHANGED cancelled
    /\ credit' = [credit EXCEPT ![id].next = @ - 1]
    /\ UNCHANGED <<initialized, shutdown, ended, selection, settings, documents,
                   pulls, late, owed>>

RefuseCancelled(id) ==
    /\ Request(id) /\ id \in cancelled /\ Message
    /\ cancelled' = cancelled \ {id}
    /\ credit' = [credit EXCEPT ![id].next = @ - 1]
    /\ UNCHANGED <<initialized, shutdown, ended, selection, settings, documents,
                   pulls, late, owed>>

(* Before initialize, after it, and a method that is not known.            *)
AnswerNow(id) ==
    /\ Handled(id) /\ Responds(id)
    /\ UNCHANGED <<initialized, shutdown, ended, selection, settings, documents>>

(* textDocument/diagnostic: the coordinator answers, at once or later; one *)
(* that comes after the shutdown is kept, and nobody is left to answer it. *)
Pull(id) ==
    /\ Handled(id) /\ initialized
    /\ pulls' = pulls \cup {id} /\ owed' = [owed EXCEPT ![id] = @ + 1]
    /\ late' = IF shutdown THEN late \cup {id} ELSE late
    /\ UNCHANGED <<initialized, shutdown, ended, selection, settings, documents,
                   cancelled, credit>>

AnswerPull(id) ==
    /\ id \in pulls /\ ~shutdown /\ ended = "no"
    /\ pulls' = pulls \ {id} /\ owed' = [owed EXCEPT ![id] = @ - 1]
    /\ UNCHANGED <<initialized, shutdown, ended, selection, settings, documents,
                   cancelled, late, credit, messages>>

(* Mutant: what waits at the stop is forgotten.                            *)
StopForgets == pulls' = {} /\ UNCHANGED owed

(* request_stop: every pull is answered, the first time that it is called. *)
RequestStop ==
    IF shutdown THEN UNCHANGED <<pulls, owed>>
    ELSE /\ pulls' = {}
         /\ owed' = [i \in Ids |-> owed[i] - Cardinality(pulls \cap {i})]

Shutdown(id) ==
    /\ Handled(id) /\ initialized
    /\ shutdown' = TRUE /\ RequestStop
    /\ UNCHANGED <<initialized, ended, selection, settings, documents, cancelled,
                   late, credit>>

(* exit, or the end of the input; the coordinator is destroyed.            *)
Exit ==
    /\ ended = "no"
    /\ ended' \in {IF shutdown THEN "exit 0" ELSE "exit 1", "end of input"}
    /\ RequestStop
    /\ UNCHANGED <<initialized, shutdown, selection, settings, documents,
                   cancelled, late, credit, messages>>

-----------------------------------------------------------------------------
(* apply_configuration, with the settings of a client.                     *)

Settings == [style : {"unset", "unknown", "auto", "name", "openParen"},
             engine : {"unset", "invalid", "off", "attach"}]

(* Bound: settings and the understanding of snippets vary in sessions of   *)
(* that kind only, and so do folders and roots below.                      *)
Unset == [style |-> "unset", engine |-> "unset"]
Sent == IF "settings" \in traffic THEN Settings ELSE {Unset}
Supports == IF "settings" \in traffic THEN BOOLEAN ELSE {TRUE}
Parsed(s) == commandLine # "none" \/ s.engine # "invalid"

(* Mutant: settings win over the command line.                             *)
EngineOfSettings(s) ==
    IF s.engine \notin {"unset", "invalid"} THEN s.engine
    ELSE IF commandLine # "none" THEN commandLine ELSE engine

EngineOf(s) ==
    CASE commandLine # "none" -> commandLine
      [] commandLine = "none" /\ s.engine \notin {"unset", "invalid"} -> s.engine
      [] OTHER -> engine

StyleOf(s, before) == IF s.style \in {"unset", "unknown"} THEN before ELSE s.style

(* The style is set although the engine's settings are refused then.       *)
Configure(s) ==
    /\ Notification /\ initialized
    /\ style' = StyleOf(s, style) /\ engine' = EngineOf(s)
    /\ UNCHANGED <<initialized, shutdown, ended, selection, documents, requests,
                   snippets, item, capable>>

(* completion_json: how a callable is inserted.                            *)
Inserted == CASE style = "auto" /\ snippets -> "name${1})$0"
              [] style = "auto" /\ ~snippets -> "name"
              [] style = "name" -> "name"
              [] OTHER -> "name("

Complete(id) ==
    /\ Handled(id) /\ initialized /\ Responds(id)
    /\ item' = Inserted
    /\ UNCHANGED <<initialized, shutdown, ended, selection, documents, style,
                   snippets, engine, capable>>

-----------------------------------------------------------------------------
(* initialize                                                              *)

Directories == DOMAIN ParentOf
FolderSets == IF "projects" \in traffic THEN SUBSET Directories ELSE {{}}
ClientRoots == IF "projects" \in traffic THEN Directories ELSE {Current}

(* A directory and the ones around it: the least set that has it and the   *)
(* parent of each of its own.                                              *)
Upward == {S \in SUBSET Directories : \A d \in S : ParentOf[d] \in S \cup {0}}
Above(dir) == {d \in Directories : \A S \in Upward : dir \in S => d \in S}

(* Every directory but the outermost has a parent.                         *)
Tree ==
    /\ ParentOf \in [Directories -> Directories \cup {0}] /\ 0 \notin Directories
    /\ Current \in Directories /\ Options \subseteq Directories \cup {0}
    /\ Absent \notin Texts

(* Mutant: the outermost project.                                          *)
OutermostRoot(dir) ==
    LET holders == Above(dir) \cap Projects
    IN IF holders = {} THEN {}
       ELSE {CHOOSE d \in holders : Above(d) \cap Projects = {d}}

(* find_project_root, as the set of what it finds.                         *)
Root(dir) ==
    LET holders == Above(dir) \cap Projects
    IN IF holders = {} THEN {}
       ELSE {CHOOSE d \in holders : holders \subseteq Above(d)}

(* project_from_initialize: several folders, rootUri or rootPath, and the  *)
(* working directory.                                                      *)
Roots(folders, root) ==
    LET given == UNION {Root(d) : d \in folders}
    IN CASE given # {} -> given
         [] given = {} /\ Root(root) # {} -> Root(root)
         [] OTHER -> Root(Current)

(* Mutant: the option is for clients that ask for nothing.                 *)
RootsOrOption(folders, root) ==
    IF option # 0 /\ Roots(folders, root) = {} THEN Root(option) ELSE Roots(folders, root)

(* The option is decisive, found or not.                                   *)
Selected(folders, root) == IF option # 0 THEN Root(option) ELSE Roots(folders, root)

(* Mutant: what an earlier initialize declared is remembered.              *)
SnippetsEver(support) == snippets \/ support

Snippets(support) == support

(* Workspace::open may fail after it has taken the root, with no document  *)
(* indexed.  Settings stay, however initialize ends.                       *)
Initialize(id, support, s, folders, root, opens) ==
    /\ Handled(id) /\ ~initialized /\ Responds(id)
    /\ style' = StyleOf(s, "auto") /\ snippets' = Snippets(support)
    /\ capable' = support
    /\ engine' = EngineOf(s)
    /\ LET roots == Selected(folders, root)
       IN IF Parsed(s) /\ roots \in {{r} : r \in roots}
          THEN /\ initialized' = opens
               /\ asked' = [folders |-> folders, root |-> root]
               /\ project' \in roots
               /\ index' = [d \in Docs |-> IF opens /\ d \notin Rejected
                                            THEN disk[d] ELSE Absent]
          ELSE UNCHANGED <<initialized, asked, project, index>>
    /\ UNCHANGED <<traffic, commandLine, option, shutdown, ended, item, buffers,
                   disk, shown>>

-----------------------------------------------------------------------------
(* The documents.                                                          *)

Document == Notification /\ initialized /\
    UNCHANGED <<initialized, shutdown, ended, selection, settings, requests>>

DidOpen(d, text) ==
    /\ Document /\ shown[d] = Absent
    /\ shown' = [shown EXCEPT ![d] = text]
    /\ buffers' = [buffers EXCEPT ![d] = text]
    /\ index' = IF d \in Rejected THEN index ELSE [index EXCEPT ![d] = text]
    /\ UNCHANGED disk

(* The client's edits; TextEdits shows that the buffer becomes its text.   *)
DidChange(d, text) ==
    /\ Document /\ shown[d] # Absent
    /\ shown' = [shown EXCEPT ![d] = text]
    /\ buffers' = [buffers EXCEPT ![d] = text]
    /\ index' = IF d \in Rejected THEN index ELSE [index EXCEPT ![d] = text]
    /\ UNCHANGED disk

DidClose(d) ==
    /\ Document /\ shown[d] # Absent
    /\ shown' = [shown EXCEPT ![d] = Absent]
    /\ buffers' = [buffers EXCEPT ![d] = Absent]
    /\ index' = IF index[d] = Absent THEN index ELSE [index EXCEPT ![d] = disk[d]]
    /\ UNCHANGED disk

(* Mutant: an open document is read again too.                             *)
Unopened(d) == TRUE

NotBuffered(d) == buffers[d] = Absent

(* A file changes, and the client tells so; a file outside the workspace   *)
(* is read like any other.                                                 *)
DidChangeWatchedFiles(d, text) ==
    /\ Document
    /\ disk' = [disk EXCEPT ![d] = text]
    /\ index' = IF NotBuffered(d) THEN [index EXCEPT ![d] = text] ELSE index
    /\ UNCHANGED <<shown, buffers>>

Init ==
    /\ traffic \in Traffics
    /\ commandLine \in IF "settings" \in traffic THEN CommandLines
                       ELSE CommandLines \cap {"none"}
    /\ option \in IF "projects" \in traffic THEN Options ELSE Options \cap {0}
    /\ initialized = FALSE /\ shutdown = FALSE /\ ended = "no"
    /\ project = 0 /\ asked = [folders |-> {}, root |-> 0]
    /\ style = "auto" /\ snippets = FALSE /\ item = "none" /\ capable = FALSE
    /\ engine = IF commandLine = "none" THEN "off" ELSE commandLine
    /\ disk \in {f \in [Docs -> Texts] : IsInjective(f)}
    /\ index = [d \in Docs |-> Absent]
    /\ buffers = [d \in Docs |-> Absent] /\ shown = [d \in Docs |-> Absent]
    /\ cancelled = {} /\ pulls = {} /\ late = {} /\ messages = 0
    /\ owed = [i \in Ids |-> 0]
    /\ credit = [i \in Ids |-> [waiting |-> 0, next |-> 0]]

Next ==
    \/ \E id \in Ids :
          \/ "requests" \in traffic /\ ( \/ Cancel(id) \/ RefuseCancelled(id)
                                      \/ AnswerNow(id) \/ Pull(id) )
          \/ AnswerPull(id) \/ Shutdown(id)
          \/ "settings" \in traffic /\ Complete(id)
          \/ \E support \in Supports, s \in Sent, folders \in FolderSets,
                root \in ClientRoots, opens \in BOOLEAN :
                Initialize(id, support, s, folders, root, opens)
    \/ "settings" \in traffic /\ \E s \in Settings : Configure(s)
    \/ "documents" \in traffic /\ \E d \in Docs :
          \/ DidClose(d)
          \/ \E text \in Texts : \/ DidOpen(d, text) \/ DidChange(d, text)
                                 \/ DidChangeWatchedFiles(d, text)
    \/ Exit

Spec == Init /\ [][Next]_vars

-----------------------------------------------------------------------------
(* Properties.                                                             *)

(* No request is answered twice, and only a pull may wait for its answer;   *)
(* what waited when the server was shut down or ended has been answered.    *)
AnsweredOnce ==
    /\ \A id \in Ids : owed[id] = Cardinality(pulls \cap {id})
    /\ shutdown \/ ended # "no" => pulls \subseteq late

(* A cancellation refuses one pull that waits and one later request of its  *)
(* id at most: an id that is used again is refused only as often as it was  *)
(* cancelled.  None is forgotten: what waits was not cancelled.             *)
CancelsBounded ==
    /\ \A id \in Ids : /\ credit[id].waiting >= 0
                       /\ credit[id].next >= Cardinality(cancelled \cap {id})
    /\ pulls \cap cancelled = {}

(* The engine of the command line stays, whatever the settings say.         *)
CommandLineWins == commandLine # "none" => engine = commandLine

(* A snippet is sent only to a client that understands snippets, also when  *)
(* an initialize that failed had declared them.                             *)
SnippetsUnderstood == item = "name${1})$0" => capable

(* The innermost project around a directory.                               *)
Nearest(p, dir) ==
    p \in Above(dir) \cap Projects /\ \A q \in Above(dir) \cap Projects : q \in Above(p)
Placed(dir) == Above(dir) \cap Projects # {}

(* The project is the innermost one around --project, whatever the client   *)
(* says; without the option, around every folder that is in a project, or   *)
(* else the root of the client, or else the working directory.              *)
ProjectNearest ==
    initialized =>
        \/ option # 0 /\ Nearest(project, option)
        \/ /\ option = 0 /\ \E d \in asked.folders : Placed(d)
           /\ \A d \in asked.folders : Placed(d) => Nearest(project, d)
        \/ /\ option = 0 /\ \A d \in asked.folders : ~Placed(d)
           /\ Nearest(project, IF Placed(asked.root) THEN asked.root ELSE Current)

(* The workspace sees the editor's text of each open document and the file  *)
(* of every other, in whatever order files change and documents are opened. *)
TextsCurrent ==
    initialized => \A d \in Docs \ Rejected :
        index[d] = IF shown[d] = Absent THEN disk[d] ELSE shown[d]

(* Each request has one answer, and cancellations refuse what they may.    *)
RequestsAnswered ==
    /\ AnsweredOnce
    /\ CancelsBounded

(* What the server works with, the engine, the snippets, the project and   *)
(* the texts, is what its client and its command line asked for last.      *)
StateFollowsClient ==
    /\ CommandLineWins
    /\ SnippetsUnderstood
    /\ ProjectNearest
    /\ TextsCurrent
=============================================================================
