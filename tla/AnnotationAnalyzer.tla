-------------------------- MODULE AnnotationAnalyzer --------------------------
(***************************************************************************)
(* AnnotationAnalyzer (src/src/core/annotations.cpp): the annotations of a *)
(* script are collected with the declarations they precede, and validated  *)
(* in the order of the source.  What one annotation means depends on those *)
(* before it: regions that ignore a warning, annotations that may be used  *)
(* once, and the tool mode.                                                *)
(*                                                                         *)
(* A line of a script holds the annotations written before its             *)
(* declaration, or just one of its own.                                    *)
(***************************************************************************)
EXTENDS SourceLines

CONSTANT Scripts    \* the scripts to analyze: their lines, and who is a Node

VARIABLES
    script,
    uses,               \* the annotations: <<line, index on the line, place>>
    at,                 \* the use that is validated next
    tool,               \* tool_script
    applied,            \* what has been applied to which line
    regions,            \* warning_regions: where a warning began to be ignored
    suppressions,       \* <<warning, first line, last line>>
    abstractClasses, abstractFunctions,
    issues              \* <<a use or <<a line, 0>>, what is wrong>>

marks == <<tool, applied, regions, suppressions, abstractClasses,
           abstractFunctions>>
vars == <<script, uses, at, marks, issues>>

-----------------------------------------------------------------------------
(* The registry.                                                           *)

ClassLevel == {"class", "variable", "constant", "signal", "function"}

Entry(targets, rule, min, max) ==
    [targets |-> targets, rule |-> rule, min |-> min, max |-> max]

Many == 99

Registry ==
    [tool |-> Entry({"script"}, "tool", 0, 0),
     icon |-> Entry({"script"}, "icon", 1, 1),
     static_unload |-> Entry({"script"}, "static_unload", 0, 0),
     abstract |-> Entry({"script", "class", "function"}, "abstract", 0, 0),
     onready |-> Entry({"variable"}, "onready", 0, 0),
     export |-> Entry({"variable"}, "export", 0, 0),
     export_enum |-> Entry({"variable"}, "export", 1, Many),
     export_range |-> Entry({"variable"}, "export", 2, Many),
     export_storage |-> Entry({"variable"}, "storage", 0, 0),
     export_tool_button |-> Entry({"variable"}, "button", 1, 2),
     export_group |-> Entry({"standalone"}, "group", 1, 2),
     warning_ignore |-> Entry(ClassLevel \cup {"statement"}, "ignore", 1, Many),
     warning_ignore_start |-> Entry({"standalone"}, "start", 1, Many),
     warning_ignore_restore |-> Entry({"standalone"}, "restore", 1, Many),
     rpc |-> Entry({"function"}, "rpc", 0, 4)]

Warnings == {"unused_variable", "unused_parameter"}
Known(name) == name \in DOMAIN Registry
Allows(name, target) == Known(name) /\ target \in Registry[name].targets
PureScript(name) == Known(name) /\ Registry[name].targets = {"script"}

-----------------------------------------------------------------------------
(* The syntax tree of the script.                                          *)

Lines == DOMAIN script.lines
Line(l) == script.lines[l]

Container(l) == Parent(script.lines, l)
Inside(l, k) == Nested(script.lines, l, k)
LastLine(k) == LastNested(script.lines, k)

Scope(k) == IF k = 0 THEN Lines ELSE {l \in Lines : Inside(l, k)}
ClassScope(l) == Container(l) = 0 \/ Line(Container(l)).kind = "class"
Siblings(l) == Block(script.lines, Container(l))

OwnLine(l) == Line(l).kind = "annotation"
RootMembers == {l \in Lines : Line(l).depth = 0 /\ ~OwnLine(l)}

(* class_at: the innermost class around a line, itself if it is one.       *)
ClassAt(l) ==
    LET around == {k \in Lines : Line(k).kind = "class" /\ Inside(l, k)}
    IN IF l = 0 \/ around = {} THEN 0 ELSE Latest(around)

(* declaration_target                                                      *)
DeclarationTarget(l, inClass) ==
    CASE ~inClass -> "statement"
      [] Line(l).kind \in ClassLevel -> Line(l).kind
      [] Line(l).kind = "class_name" -> "script"
      [] OTHER -> "none"

-----------------------------------------------------------------------------
(* collect: every annotation with the place it is in and its target.       *)

NextTarget(l) == LET after == {j \in Siblings(l) : j > l /\ ~OwnLine(j)}
                 IN IF after = {} THEN 0 ELSE Earliest(after)

FollowedByScriptAnnotation(l) ==
    \E j \in Siblings(l) :
        /\ j > l /\ \A k \in Siblings(l) : k \in (l + 1)..j => OwnLine(k)
        /\ PureScript(Line(j).notes[1].name)

Levels(l, top) == (IF ClassScope(l) THEN ClassLevel ELSE {"statement"})
    \cup {"standalone"} \cup (IF top THEN {"script"} ELSE {})

(* An annotation on its own line; root_barrier.                            *)
AtTop(l) == Line(l).depth = 0 /\ \A m \in RootMembers : l < m

FreeUse(l) ==
    LET name == Line(l).notes[1].name
        next == NextTarget(l)
        asScript == /\ Allows(name, "script")
                    /\ \/ PureScript(name)
                       \/ /\ AtTop(l)
                          /\ \/ FollowedByScriptAnnotation(l) \/ next = 0
                             \/ Line(next).kind \in {"extends", "class_name"}
    IN [levels |-> Levels(l, AtTop(l)),
        line |-> IF asScript \/ Allows(name, "standalone") THEN 0 ELSE next,
        target |-> CASE Allows(name, "standalone") -> "standalone"
                     [] asScript -> "script"
                     [] ~asScript /\ next = 0 -> "none"
                     [] OTHER -> DeclarationTarget(next, ClassScope(l))]

(* Mutant: source_preamble is never reset.                                 *)
InScript(l) == RootMembers # {}

(* source_preamble: the first member of the script, with all that is in it.*)
InPreamble(l) == \A m \in RootMembers : m <= l => Inside(l, m)

(* An annotation before a declaration on its line.                         *)
BoundUse(l, name) ==
    LET asScript == /\ Allows(name, "script") /\ InPreamble(l)
                    /\ PureScript(name) \/ Line(l).kind = "class_name"
    IN [levels |-> Levels(l, InPreamble(l)),
        line |-> IF asScript THEN 0 ELSE l,
        target |-> IF asScript THEN "script"
                   ELSE DeclarationTarget(l, ClassScope(l))]

(* The uses in the order of the source.                                    *)
Collected ==
    LET of[l \in 0..Len(script.lines)] ==
            IF l = 0 THEN <<>>
            ELSE of[l - 1] \o [i \in DOMAIN Line(l).notes |->
                     <<l, i, IF OwnLine(l) THEN FreeUse(l)
                             ELSE BoundUse(l, Line(l).notes[i].name)>>]
    IN of[Len(script.lines)]

Note(u) == Line(u[1]).notes[u[2]]
Place(u) == u[3]

-----------------------------------------------------------------------------
(* reduce: the value of an argument, which may go through constants.       *)

Unknown == [status |-> "unknown"]
Value(type, text) == [status |-> "value", type |-> type, text |-> text]

(* collect_constants: a constant of a function is known below it only.     *)
Candidates(l, name) ==
    {c \in Lines : /\ Line(c).kind = "constant" /\ Line(c).name = name
                   /\ l \in Scope(Container(c))
                   /\ ClassScope(c) \/ c < l}

Declaration(l, name) ==
    LET here == Candidates(l, name)
    IN CHOOSE c \in here : \A d \in here :
           \/ Line(d).depth < Line(c).depth
           \/ Line(d).depth = Line(c).depth /\ d <= c

(* A constant whose value is being reduced already has no known value.     *)
Constant[c \in Nat, reducing \in SUBSET Lines] ==
    LET value == Line(c).value
    IN CASE c \in reducing -> Unknown
         [] value.kind = "literal" -> Value("String", value.text)
         [] value.kind = "number" -> Value("int", value.text)
         [] value.kind = "call" -> [status |-> "nonconstant"]
         [] Candidates(c, value.text) = {} -> Unknown
         [] OTHER -> Constant[Declaration(c, value.text), reducing \cup {c}]

Reduce(l, argument) ==
    CASE argument.kind = "literal" -> Value("String", argument.text)
      [] argument.kind = "number" -> Value("int", argument.text)
      [] argument.kind = "call" -> [status |-> "nonconstant"]
      [] Candidates(l, argument.text) = {} -> Unknown
      [] OTHER -> Constant[Declaration(l, argument.text), {}]

-----------------------------------------------------------------------------
(* validate: the first thing that is wrong with a use, or "none".          *)

LiteralOnly == {"icon", "warning_ignore_start", "warning_ignore_restore"}
ArgumentType(name, i) ==
    IF <<name, i>> \in ({"export_range"} \X {1, 2, 3}) \cup {<<"rpc", 4>>} THEN "int"
    ELSE "String"

Values(u) == [i \in DOMAIN Note(u).args |-> Reduce(u[1], Note(u).args[i])]

(* validate_arguments                                                      *)
ArgumentsWrong(u) ==
    LET name == Note(u).name
    IN \/ Len(Note(u).args) \notin Registry[name].min..Registry[name].max
       \/ \E i \in DOMAIN Note(u).args :
             \/ name \in LiteralOnly /\ Note(u).args[i].kind # "literal"
             \/ Values(u)[i].status = "nonconstant"
             \/ /\ Values(u)[i].status = "value"
                /\ Values(u)[i].type # ArgumentType(name, i)

Problem(u) ==
    LET name == Note(u).name
        place == Place(u)
    IN CASE ~Known(name) -> "unrecognized"
         [] Known(name) /\ Registry[name].targets \cap place.levels = {} -> "level"
         [] OTHER -> CASE place.target = "none" -> "no target"
                       [] place.target # "none"
                          /\ ~Allows(name, place.target) -> "target"
                       [] Allows(name, place.target)
                          /\ ArgumentsWrong(u) -> "arguments"
                       [] OTHER -> "none"

-----------------------------------------------------------------------------
(* The rules.  Positions are numbers: an annotation begins and ends on its *)
(* line, before what it annotates.                                         *)

Forever == 1000
Begins(u) == 10 * u[1] + 2 * u[2] - 2
Ends(u) == 10 * u[1] + 2 * u[2] - 1
Extent(l) == <<10 * l, 10 * LastLine(l) + 9>>

Use == uses[at]
Here == Place(Use).line
Rule == Registry[Note(Use).name].rule
Applied(key) == <<Here, key>> \in applied
Apply(key) == applied' = applied \cup {<<Here, key>>}
Static == Here # 0 /\ Line(Here).static

Report(what) == issues' = issues \cup {<<Use, what>>}
Accept(rules) ==
    /\ at <= Len(uses) /\ Known(Note(Use).name) /\ Rule \in rules /\ Problem(Use) = "none"
    /\ at' = at + 1 /\ UNCHANGED <<script, uses>>

Refuse ==
    /\ at <= Len(uses)
    /\ \E problem \in {Problem(Use)} : problem # "none" /\ Report(problem)
    /\ at' = at + 1
    /\ UNCHANGED <<script, uses, marks>>

(* Mutant: only the very first annotation makes a tool script.             *)
UseToolFirst ==
    /\ Accept({"tool"})
    /\ IF tool THEN Report("second") ELSE UNCHANGED issues
    /\ tool' = (tool \/ at = 1)
    /\ UNCHANGED <<applied, regions, suppressions, abstractClasses,
                   abstractFunctions>>

UseTool ==
    /\ Accept({"tool"})
    /\ IF tool THEN Report("second") ELSE UNCHANGED issues
    /\ tool' = TRUE
    /\ UNCHANGED <<applied, regions, suppressions, abstractClasses,
                   abstractFunctions>>

(* validate_rpc: one argument of each kind; the path of @icon is not empty. *)
RpcKinds == {{"call_local", "call_remote"}, {"any_peer", "authority"},
             {"reliable", "unreliable", "unreliable_ordered"}}

RpcIssues(u) ==
    LET said == {i \in DOMAIN Values(u) \cap 1..3 : Values(u)[i].status = "value"}
        Twice(kind) == \E i, j \in said : /\ i # j
                                          /\ {Values(u)[i].text, Values(u)[j].text} \subseteq kind
    IN {"rpc argument" : i \in {j \in said : Values(u)[j].text \notin UNION RpcKinds}}
       \cup {"rpc config" : kind \in {k \in RpcKinds : Twice(k)}}

FirstIssues(u) == CASE Rule = "rpc" -> RpcIssues(u)
                    [] Rule = "icon" /\ Values(u)[1] = Value("String", "") -> {"no path"}
                    [] OTHER -> {}

(* @icon, @static_unload, @rpc and @onready: once where they apply.        *)
UseOnce ==
    /\ Accept({"icon", "static_unload", "rpc", "onready"})
    /\ LET inNode == ClassAt(Here) \in script.nodes
       IN CASE Rule = "onready" /\ ~inNode ->
                   Report("no node") /\ UNCHANGED applied
            [] Rule = "onready" /\ inNode /\ Static ->
                   Report("static") /\ UNCHANGED applied
            [] OTHER -> /\ Apply(Rule)
                        /\ IF Applied(Rule) THEN Report("second")
                           ELSE issues' = issues \cup ({Use} \X FirstIssues(Use))
    /\ UNCHANGED <<tool, regions, suppressions, abstractClasses,
                   abstractFunctions>>

(* Mutant: the class an annotation is in, not the one it is about.         *)
UseAbstractNearby ==
    /\ Accept({"abstract"})
    /\ IF Static \/ Applied("abstract")
       THEN /\ Report(IF Static THEN "static" ELSE "second")
            /\ UNCHANGED <<applied, abstractClasses, abstractFunctions>>
       ELSE /\ Apply("abstract") /\ UNCHANGED issues
            /\ IF Place(Use).target = "function"
               THEN /\ abstractFunctions' = abstractFunctions \cup {Here}
                    /\ UNCHANGED abstractClasses
               ELSE /\ abstractClasses' = abstractClasses \cup {ClassAt(Use[1])}
                    /\ UNCHANGED abstractFunctions
    /\ UNCHANGED <<tool, regions, suppressions>>

UseAbstract ==
    /\ Accept({"abstract"})
    /\ IF Static \/ Applied("abstract")
       THEN /\ Report(IF Static THEN "static" ELSE "second")
            /\ UNCHANGED <<applied, abstractClasses, abstractFunctions>>
       ELSE /\ Apply("abstract") /\ UNCHANGED issues
            /\ IF Place(Use).target = "function"
               THEN /\ abstractFunctions' = abstractFunctions \cup {Here}
                    /\ UNCHANGED abstractClasses
               ELSE /\ abstractClasses' = abstractClasses \cup {ClassAt(Here)}
                    /\ UNCHANGED abstractFunctions
    /\ UNCHANGED <<tool, regions, suppressions>>

-----------------------------------------------------------------------------
(* validate_export                                                         *)

Typed(types) == Line(Here).type \in types \cup {"unknown"}

(* validate_export_arguments: the texts are not empty and have no comma.   *)
BadText(u) == /\ Note(u).name # "export"
              /\ \E i \in DOMAIN Values(u) :
                    /\ Values(u)[i].status = "value"
                    /\ Values(u)[i].type = "String"
                    /\ Values(u)[i].text \in {"", ","}

ExportIssues(u) ==
    LET name == Note(u).name
    IN CASE name = "export" /\ Typed({"none"}) ->
                IF Line(Here).type = "none" THEN {"untyped"} ELSE {}
         [] name = "export" /\ ~Typed({"none", "int", "String", "Node",
                                       "Callable"}) -> {"type"}
         [] name = "export" /\ Line(Here).type = "Node" ->
                IF ClassAt(Here) \in script.nodes THEN {} ELSE {"no node"}
         [] name = "export_tool_button" ->
                IF Typed({"Callable", "none"}) THEN {} ELSE {"type"}
         [] name \in {"export_enum", "export_range"} ->
                (IF BadText(u) THEN {"text"} ELSE {}) \cup
                (IF \/ Typed({"int", "none"})
                    \/ name = "export_enum" /\ Typed({"String"})
                 THEN {} ELSE {"type"})
         [] OTHER -> {}

(* Mutant: each kind of export is remembered for itself.                   *)
UseExportByName ==
    /\ Accept({"export", "storage", "button"})
    /\ IF Static \/ Applied(Note(Use).name)
       THEN /\ Report(IF Static THEN "static" ELSE "second")
            /\ UNCHANGED applied
       ELSE /\ Apply(Note(Use).name)
            /\ IF Rule = "button" /\ ~tool THEN Report("not a tool")
               ELSE issues' = issues \cup ({Use} \X ExportIssues(Use))
    /\ UNCHANGED <<tool, regions, suppressions, abstractClasses,
                   abstractFunctions>>

UseExport ==
    /\ Accept({"export", "storage", "button"})
    /\ IF Static \/ Applied("export")
       THEN /\ Report(IF Static THEN "static" ELSE "second")
            /\ UNCHANGED applied
       ELSE /\ Apply("export")
            /\ IF Rule = "button" /\ ~tool THEN Report("not a tool")
               ELSE issues' = issues \cup ({Use} \X ExportIssues(Use))
    /\ UNCHANGED <<tool, regions, suppressions, abstractClasses,
                   abstractFunctions>>

(* @export_group and its kin.                                              *)
UseGroup ==
    /\ Accept({"group"})
    /\ IF ClassScope(Use[1]) THEN UNCHANGED issues ELSE Report("standalone")
    /\ UNCHANGED marks

-----------------------------------------------------------------------------
(* validate_warning: the names of one annotation are different.            *)

Named(u) == {Values(u)[i].text : i \in {j \in DOMAIN Values(u) :
                                          Values(u)[j].status = "value"}}
Warned(u) == Named(u) \cap Warnings
Misnamed(u) == IF Named(u) \subseteq Warnings THEN {} ELSE {<<u, "warning">>}

UseIgnore ==
    /\ Accept({"ignore"})
    /\ suppressions' = suppressions \cup
           {<<w, Extent(Here)[1], Extent(Here)[2]>> : w \in Warned(Use)}
    /\ issues' = issues \cup Misnamed(Use)
    /\ UNCHANGED <<tool, applied, regions, abstractClasses, abstractFunctions>>

UseStart ==
    /\ Accept({"start"})
    /\ regions' = [w \in Warnings |->
           IF w \in Warned(Use) /\ regions[w] = 0 THEN Ends(Use) ELSE regions[w]]
    /\ issues' = issues \cup Misnamed(Use) \cup
           {<<Use, "already">> : w \in {v \in Warned(Use) : regions[v] # 0}}
    /\ UNCHANGED <<tool, applied, suppressions, abstractClasses,
                   abstractFunctions>>

(* Mutant: a region that has been added stays open.                        *)
UseRestoreOpen ==
    /\ Accept({"restore"})
    /\ suppressions' = suppressions \cup
           {<<w, regions[w], Begins(Use)>> :
               w \in {v \in Warned(Use) : regions[v] # 0}}
    /\ UNCHANGED regions
    /\ issues' = issues \cup Misnamed(Use) \cup
           {<<Use, "not ignored">> : w \in {v \in Warned(Use) : regions[v] = 0}}
    /\ UNCHANGED <<tool, applied, abstractClasses, abstractFunctions>>

UseRestore ==
    /\ Accept({"restore"})
    /\ suppressions' = suppressions \cup
           {<<w, regions[w], Begins(Use)>> :
               w \in {v \in Warned(Use) : regions[v] # 0}}
    /\ regions' = [w \in Warnings |-> IF w \in Warned(Use) THEN 0 ELSE regions[w]]
    /\ issues' = issues \cup Misnamed(Use) \cup
           {<<Use, "not ignored">> : w \in {v \in Warned(Use) : regions[v] = 0}}
    /\ UNCHANGED <<tool, applied, abstractClasses, abstractFunctions>>

-----------------------------------------------------------------------------
(* validate_abstract_classes, and the regions that were left open.         *)

NotAbstract == {ClassAt(f) : f \in abstractFunctions} \ abstractClasses

Finish ==
    /\ at = Len(uses) + 1
    /\ issues' = issues
           \cup {<<<<c, 0>>, "not abstract">> : c \in NotAbstract}
           \cup {<<<<f, 0>>, "body">> : f \in {g \in abstractFunctions : Line(g).body}}
    /\ suppressions' = suppressions \cup
           {<<w, regions[w], Forever>> : w \in {v \in Warnings : regions[v] # 0}}
    /\ at' = at + 1
    /\ UNCHANGED <<script, uses, tool, applied, regions, abstractClasses,
                   abstractFunctions>>

Init ==
    /\ script \in Scripts /\ uses = Collected
    /\ at = 1 /\ tool = FALSE /\ applied = {} /\ suppressions = {}
    /\ regions = [w \in Warnings |-> 0]
    /\ abstractClasses = {} /\ abstractFunctions = {} /\ issues = {}

Next ==
    \/ Refuse \/ UseTool \/ UseOnce \/ UseAbstract \/ UseExport \/ UseGroup
    \/ UseIgnore \/ UseStart \/ UseRestore \/ Finish

Spec == Init /\ [][Next]_vars

-----------------------------------------------------------------------------
(* Properties.                                                             *)

Done == at = Len(uses) + 2
All == {uses[i] : i \in DOMAIN uses}
Accepted(rules) ==
    {u \in All : Problem(u) = "none" /\ Registry[Note(u).name].rule \in rules}
Reported(u, what) == <<u, what>> \in issues
Before(l) == {u \in All : Begins(u) < 10 * l}

(* A warning about a line is suppressed exactly if the last annotation      *)
(* before it that starts or restores this warning starts it, or if one      *)
(* that ignores it applies to what the line is in (validate_warning and the *)
(* end of run).                                                             *)
Started(w, l) ==
    \E told \in {{u \in Before(l) \cap Accepted({"start", "restore"}) : w \in Warned(u)}} :
        \E u \in told : /\ \A v \in told : Begins(v) <= Begins(u)
                        /\ Note(u).name = "warning_ignore_start"
Ignored(w, l) == \E u \in Accepted({"ignore"}) :
    w \in Warned(u) /\ Inside(l, Place(u).line)

SuppressedAsWritten ==
    Done => \A w \in Warnings, l \in {k \in Lines : ~OwnLine(k)} :
        (\E s \in suppressions : s[1] = w /\ 10 * l + 5 \in s[2]..s[3])
            <=> Started(w, l) \/ Ignored(w, l)

(* Of the annotations that export one variable only the first can count,    *)
(* whatever their names: each later one is reported (validate_export).      *)
ExportedOnce ==
    Done => \A u, v \in Accepted({"export", "storage", "button"}) :
        Place(u).line = Place(v).line /\ Begins(u) < Begins(v) =>
            Reported(v, "second") \/ Reported(v, "static")

(* An annotation of the whole script that takes effect comes before         *)
(* extends, class_name and every member of the script but the one it is     *)
(* written in, as the message of its refusal says (collect).                *)
ScriptAnnotationsLead ==
    \A u \in All : Problem(u) = "none" /\ PureScript(Note(u).name) =>
        \A m \in RootMembers : m < u[1] => Inside(u[1], m)

(* A tool button is reported for want of @tool only in a script without it, *)
(* although the annotations are validated one after the other.              *)
ToolKnownInTime ==
    Done /\ (\E u \in All : Reported(u, "not a tool")) =>
        \A u \in Accepted({"tool"}) : Line(u[1]).depth > 0

(* A class is reported exactly if it has an abstract method and is not      *)
(* abstract itself (validate_abstract_classes).                             *)
AbstractReported ==
    LET valid == {u \in Accepted({"abstract"}) : ~Reported(u, "static")}
        Of(c, targets) == {u \in valid : /\ Place(u).target \in targets
                                         /\ ClassAt(Place(u).line) = c}
    IN Done => \A c \in {0} \cup {l \in Lines : Line(l).kind = "class"} :
           Reported(<<c, 0>>, "not abstract") <=>
               /\ Of(c, {"function"}) # {} /\ Of(c, {"class", "script"}) = {}

(* Each annotation has effect where it is written for, in whatever order   *)
(* they are collected and validated.                                       *)
AnnotationsInForce ==
    /\ SuppressedAsWritten
    /\ ExportedOnce
    /\ ScriptAnnotationsLead
    /\ ToolKnownInTime
    /\ AbstractReported
=============================================================================
