------------------------------ MODULE MCLanguage ------------------------------
(***************************************************************************)
(* Instances for TLC of the modules about texts, scripts and the index of  *)
(* the workspace.  They do not share state: each behaviour is one of one   *)
(* module, its world, while the variables of the others stay "idle"; those *)
(* of MemberConstants, which this module extends, stay as they are at      *)
(* first.                                                                  *)
(***************************************************************************)
EXTENDS MemberConstants, FiniteSets, SequencesExt

CONSTANTS a, b, c                       \* documents of the workspace

VARIABLES
    world,
    annotated, uses, at, tool, applied, regions, suppressions, abstractClasses,
    abstractFunctions, issues,
    bytes, chars, changes, tree,
    windows, path, uri, canonical, opened,
    alphabet, function, line, scopes, declared, names, bodyIssues,
    lines, blocks, delimiters, continuation, inString, brackets, statements,
    damaged, members, nodes, errors, header,
    signatures, values, outcome, chosen, reported, warned,
    documents, buffers, registry, announced

Idle == "idle"

-----------------------------------------------------------------------------
(* AnnotationAnalyzer: scripts of up to four lines about warnings, about   *)
(* the script and its classes, and of up to three about exports.           *)

Note(name) == [name |-> name, args |-> <<>>]
NoteOf(name, text) == [name |-> name, args |-> <<[kind |-> "literal", text |-> text]>>]
NoteOf2(name, text, text2) ==
    [name |-> name, args |-> <<[kind |-> "literal", text |-> text],
                               [kind |-> "literal", text |-> text2]>>]
NoteNaming(name, text) == [name |-> name, args |-> <<[kind |-> "name", text |-> text]>>]
OwnLine(depth, note) == [depth |-> depth, kind |-> "annotation", notes |-> <<note>>]
Declared(depth, kind, notes) == [depth |-> depth, kind |-> kind, notes |-> notes,
                                 static |-> FALSE, type |-> "int", body |-> FALSE]
Variable(depth, type, notes) == [depth |-> depth, kind |-> "variable", notes |-> notes,
                                 static |-> FALSE, type |-> type]
ConstantOf(depth, name, text) == [depth |-> depth, kind |-> "constant", notes |-> <<>>,
                                  name |-> name, static |-> FALSE,
                                  value |-> [kind |-> "literal", text |-> text]]

WarningLines ==
    {OwnLine(depth, NoteOf(name, "unused_variable")) :
        depth \in 0..1,
        name \in {"warning_ignore", "warning_ignore_start", "warning_ignore_restore"}}
    \cup {Declared(0, "function", <<>>), Declared(1, "statement", <<>>),
          ConstantOf(0, "K", "unused_variable"), ConstantOf(1, "K", "unused_parameter"),
          OwnLine(1, NoteNaming("warning_ignore", "K"))}

ScriptLines ==
    {OwnLine(0, Note("tool")), OwnLine(0, Note("abstract")), OwnLine(0, NoteOf("icon", "x")),
     OwnLine(0, NoteOf("icon", "")), OwnLine(0, Note("static_unload")),
     Declared(0, "class_name", <<Note("abstract")>>), Declared(0, "extends", <<>>),
     Declared(0, "class", <<>>), Declared(0, "class", <<Note("abstract")>>),
     Declared(1, "function", <<Note("abstract")>>), Declared(0, "function", <<Note("abstract")>>),
     Variable(1, "Callable", <<Note("tool")>>),
     Variable(0, "Callable", <<Note("tool"), NoteOf("export_tool_button", "a")>>),
     Variable(1, "Callable", <<NoteOf("export_tool_button", "a")>>)}

ExportLines ==
    {OwnLine(0, Note("onready")), OwnLine(0, Note("export")),
     OwnLine(0, NoteOf("export_enum", "a")), OwnLine(1, NoteOf("export_enum", ",")),
     OwnLine(0, NoteOf("export_group", "g")), OwnLine(1, NoteOf("export_group", "g")),
     Variable(0, "int", <<Note("export"), Note("export_storage")>>),
     [Variable(0, "int", <<Note("export")>>) EXCEPT !.static = TRUE],
     Variable(1, "Node", <<Note("export")>>),
     Declared(0, "class", <<>>), Declared(0, "function", <<Note("rpc"), Note("rpc")>>)}
    \cup {Declared(0, "function", <<NoteOf2("rpc", "any_peer", text)>>) :
              text \in {"authority", "call_local", "other"}}
    \cup {Variable(0, type, <<>>) : type \in {"int", "Node", "Object", "none", "unknown"}}

(* What is indented is in a class or a function.                           *)
Indented(s) ==
    \A n \in DOMAIN s : s[n].depth = 1 =>
        \E k \in 1..(n - 1) : /\ s[k].kind \in {"class", "function"}
                              /\ \A j \in (k + 1)..(n - 1) : s[j].depth = 1

AnnotatedScripts ==
    {[lines |-> s, nodes |-> {0}] :
        s \in {t \in BoundedSeq(WarningLines, 4) \cup BoundedSeq(ScriptLines, 3)
                     \cup BoundedSeq(ExportLines, 3) : t # <<>> /\ Indented(t)}}

Annotations == INSTANCE AnnotationAnalyzer
    WITH Scripts <- AnnotatedScripts, script <- annotated

-----------------------------------------------------------------------------

Edits == INSTANCE TextEdits WITH MaxLength <- 3, MaxChanges <- 2

(* FileUris: every short path, and longer ones about drives and dots.      *)

PathCharacters == {"c", "C", "/", ":", ".", " ", "%"}

FilePaths ==
    {<<"/">> \o t : t \in BoundedSeq(PathCharacters, 2) \cup
        { <<"c", ":", "/">>, <<"c", ":", "c">>, <<"c", ":", "/", "C">>,
          <<"C", ":", "/", "c", "%">>, <<"c", ":", "/", "c", " ", "c">>,
          <<"c", ":", ".", ".">>, <<"c", ":", "/", ".", ".", "/", "c">>,
          <<"c", ":", "c", "/", ".", "/", "C">>, <<"c", "/", ".", "/", "C">>,
          <<"c", "/", ".", ".", "/", "C">>, <<"c", "/", ".", ".">>,
          <<"c", "/", ".", "c">>, <<"c", "/", "/", "C">>, <<".", ".", ".", "c">> }}

Files == INSTANCE FileUris WITH Paths <- FilePaths

-----------------------------------------------------------------------------
(* FunctionBodies: bodies of up to five lines about branches, matches,     *)
(* loops, lambdas, names and the names in patterns.                        *)

BodyLine(depth, kind) == [depth |-> depth, kind |-> kind, name |-> "none", reads |-> {},
                          typed |-> FALSE, pattern |-> "value", guard |-> FALSE]
At(depths, form) == {[form EXCEPT !.depth = depth] : depth \in depths}
Plain(depths, kinds) == UNION {At(depths, BodyLine(0, kind)) : kind \in kinds}
Section(pattern, guard) == [BodyLine(0, "section") EXCEPT !.pattern = pattern, !.guard = guard]
Typed(kind) == [BodyLine(0, kind) EXCEPT !.typed = TRUE]
Named(kind, name) == [BodyLine(0, kind) EXCEPT !.name = name]
Reading(kind, name) == [BodyLine(0, kind) EXCEPT !.reads = {name}]

BodyAlphabets ==
    {{Typed("function")} \cup Plain(1..2, {"expr", "return", "if", "elif", "else"}),
     {Typed("function")} \cup Plain(1..3, {"expr", "return"}) \cup Plain({1}, {"match"})
        \cup At({2}, Section("any", FALSE)) \cup At({2}, Section("any", TRUE)),
     {Typed("function")} \cup Plain(1..3, {"expr", "break"})
        \cup Plain(1..2, {"while", "if", "return"}) \cup Plain({1}, {"else"}),
     {Typed("function")} \cup Plain(1..3, {"return", "break"}) \cup Plain(1..2, {"while"})
        \cup At(1..2, Typed("lambda")),
     {Named("function", "x")}
        \cup UNION {At(1..2, form) : form \in
                {Named("var", "x"), [Named("var", "x") EXCEPT !.reads = {"x"}],
                 Reading("expr", "x"), Named("assign", "x"), Named("lambda", "x"),
                 Named("for", "x")}}
        \cup At({1}, Reading("if", "x")),
     {BodyLine(0, "function")}
        \cup UNION {At(1..2, form) : form \in
                {Named("var", "x"), Named("var", "_x"), Named("const", "x"),
                 Named("augment", "x"), BodyLine(0, "lambda"), Named("for", "x")}}
        \cup At({3}, Reading("expr", "x")),
     {Named("function", "x"), BodyLine(0, "function"), [Named("var", "x") EXCEPT !.depth = 1]}
        \cup At(1..3, Reading("expr", "x")) \cup At({5}, Reading("expr", "x"))
        \cup At({1, 3}, BodyLine(0, "match"))
        \cup UNION {At({2, 4}, form) : form \in
                {Section("value", FALSE), [Section("any", FALSE) EXCEPT !.name = "x"],
                 [Section("any", TRUE) EXCEPT !.name = "x", !.reads = {"x"}]}}}

Bodies == INSTANCE FunctionBodies
    WITH Alphabets <- BodyAlphabets, Names <- {"x", "_x"}, MaxLines <- 5,
         script <- function, at <- line, read <- names, issues <- bodyIssues

-----------------------------------------------------------------------------
(* IndentationCheck: tabs, spaces, both, brackets, a string, a comment and *)
(* a continued line.                                                       *)

Indent(indent, marks) == [indent |-> indent, marks |-> marks]
IndentedLines ==
    {Indent(indent, <<"code">>) :
        indent \in {<<>>, <<"t">>, <<"s">>, <<"t", "t">>, <<"s", "s">>, <<"t", "s", "s">>}}
    \cup {Indent(<<"t">>, marks) :
             marks \in {<<"code", "(">>, <<")">>, <<"code", ")", "(", "#", "(">>,
                        <<"code", "quote">>, <<"code", "\\">>, <<>>, <<"#", "\\">>}}

Indentation == INSTANCE IndentationCheck
    WITH Lines <- IndentedLines, MaxLines <- 5, read <- lines, levels <- blocks

(* FunctionRecovery: functions and classes with headers and brackets that  *)
(* are not finished, and every tree that a parser may make of them.        *)
TextLine(depth, word, name, marks) ==
    [depth |-> depth, word |-> word, name |-> name, marks |-> marks, code |-> TRUE]
FunctionLine(depth, name, marks) == TextLine(depth, "func", name, marks)
CompleteHeader == <<"(", ")", ":">>
DamagedLines ==
    {FunctionLine(0, "f", CompleteHeader), FunctionLine(1, "f", CompleteHeader), FunctionLine(1, "_init", CompleteHeader),
     FunctionLine(0, "f", <<"(">>), FunctionLine(1, "f", <<"(", ")">>),
     FunctionLine(0, "f", <<"(", ")", ":", "x">>), FunctionLine(0, "", <<>>)}
    \cup {TextLine(depth, "class", "c", <<>>) : depth \in 0..1}
    \cup {TextLine(2, "other", "", marks) : marks \in {<<"(">>, <<"\\">>}}
    \cup {TextLine(0, "other", "", <<")">>), TextLine(0, "var", "v", <<":">>),
          TextLine(0, "blank", "", <<>>), [FunctionLine(0, "f", <<>>) EXCEPT !.code = FALSE]}
AfterStatement(s) == \A l \in DOMAIN s : ~s[l].code => l > 1 /\ s[l - 1].word = "other"
DamagedScripts ==
    {s \in BoundedSeq(DamagedLines, 3) :
        (\E l \in DOMAIN s : s[l].word = "func") /\ AfterStatement(s)}
    \cup {s \in [1..4 -> DamagedLines] :
              /\ s[1] = TextLine(0, "class", "c", <<>>) /\ s[2].depth > 0
              /\ AfterStatement(s)
              /\ s[3].word # "func"
              /\ s[4] \in {FunctionLine(0, "f", CompleteHeader), FunctionLine(1, "f", CompleteHeader)}}

Recovery == INSTANCE FunctionRecovery
    WITH Scripts <- DamagedScripts, HeaderLimit <- 2, lines <- damaged, line <- header

(* MemberConstants: two classes with a name in common.                     *)
ConstantForms ==
    {<<"name", <<name>>>> : name \in {"A", "B", "literal", "call", "missing"}}
    \cup {<<operation, <<"A", name>>>> :
             operation \in {"array", "index", "operator"}, name \in {"B", "C", "call", "literal"}}
ConstantScripts ==
    {<<[of |-> <<"Inner", "C">>, operation |-> "array", operands |-> <<"A", "B">>],
       [of |-> <<"Outer", "A">>, operation |-> f[1], operands |-> f[2]],
       [of |-> <<"Inner", "B">>, operation |-> g[1], operands |-> g[2]],
       [of |-> <<"Outer", "B">>, operation |-> h[1], operands |-> h[2]]>> :
        f \in ConstantForms, g \in {e \in ConstantForms : e[1] # "operator"},
        h \in {e \in ConstantForms : e[1] # "index"}}

-----------------------------------------------------------------------------
(* CallCheck: three levels of classes, and up to three overloads of up to  *)
(* two parameters.                                                         *)

Builtin(name) == <<"builtin", name>>
ObjectOf(class) == <<"object", class>>
Valued(type) == [type |-> type, literal |-> FALSE, elements |-> <<>>]
ArrayOf(elements) == [type |-> <<"array", <<"unknown">>>>, literal |-> TRUE, elements |-> elements]
Parameter(type, optional) == [type |-> type, optional |-> optional]
Overload(parameters, vararg) == [parameters |-> parameters, vararg |-> vararg]

ParentOf == [Leaf |-> "Mid", Mid |-> "Node", Node |-> "Object", Other |-> "Object",
             GDScript |-> "Object"]
OneParameter ==
    {Overload(<<Parameter(type, optional)>>, vararg) :
        type \in {Builtin("int"), Builtin("String"), ObjectOf("Node"), ObjectOf("Mid"),
                  ObjectOf("Object"), <<"array", Builtin("int")>>,
                  <<"array", <<"array", ObjectOf("Mid")>>>>, <<"variant">>},
        optional \in BOOLEAN, vararg \in BOOLEAN}
TwoParameters ==
    {Overload(<<Parameter(first, FALSE), Parameter(second, optional)>>, FALSE) :
        first \in {Builtin("float"), ObjectOf("Node"), <<"array", Builtin("int")>>},
        second \in {Builtin("int"), Builtin("Color"), ObjectOf("Leaf")}, optional \in BOOLEAN}
OverloadSets ==
    {<<s>> : s \in OneParameter \cup TwoParameters \cup {Overload(<<>>, FALSE)}}
    \cup {<<s, t>> : s \in {o \in OneParameter : ~o.vararg}, t \in TwoParameters}
    \cup {<<t, Overload(<<>>, FALSE), s>> : s \in OneParameter, t \in TwoParameters}
ArgumentValues ==
    {Valued(Builtin("int")), Valued(Builtin("String")), Valued(ObjectOf("Mid")),
     Valued(ObjectOf("Node")), Valued(ObjectOf("Other")), Valued(<<"class", "Mid">>),
     Valued(<<"class", "Node">>), Valued(<<"variant">>), Valued(<<"unresolved">>),
     ArrayOf(<<Valued(Builtin("int")), Valued(Builtin("String"))>>),
     ArrayOf(<<ArrayOf(<<Valued(ObjectOf("Leaf")), Valued(Builtin("int"))>>)>>)}
ArgumentLists ==
    {<<>>} \cup {<<v>> : v \in ArgumentValues}
    \cup {<<v, w>> : v \in ArgumentValues,
             w \in {Valued(Builtin("String")), Valued(ObjectOf("Node")),
                    ArrayOf(<<Valued(Builtin("int"))>>)}}

Calls == INSTANCE CallCheck
    WITH Parent <- ParentOf, Scripts <- {"Leaf", "Mid"}, ScriptMeta <- "GDScript",
         Overloads <- OverloadSets, Arguments <- ArgumentLists

-----------------------------------------------------------------------------
(* WorkspaceRegistry: three documents that may inherit from, name and hold *)
(* each other, in circles too, and two orders of the hash tables.          *)

Native == <<"RefCounted">>
NoInner == <<"none">>
NoConstants == [n \in {} |-> <<>>]
ConstantK(reference) == [n \in {"K"} |-> reference]
Text(global, extends, consts, inner, result) ==
    [global |-> global, extends |-> extends, consts |-> consts, inner |-> inner, result |-> result]

WorkspaceTexts ==
    [u \in {a, b, c} |->
        CASE u = a -> {Text("A", Native, NoConstants, NoInner, "int"),
                       Text("A", Native, NoConstants, NoInner, "String"),
                       Text("A", <<c>>, NoConstants, NoInner, "int"),
                       Text("", <<"B", "K">>, NoConstants, NoInner, "B"),
                       Text("A", <<"B">>, NoConstants, <<"K">>, "int")}
          [] u = b -> {Text("B", <<"A">>, NoConstants, NoInner, "A"),
                       Text("B", Native, ConstantK(<<a>>), NoInner, "int"),
                       Text("B", <<c>>, NoConstants, <<"I">>, "B"),
                       Text("B", Native, ConstantK(<<"C", "K">>), NoInner, "A")}
          [] u = c -> {Text("C", <<"B">>, NoConstants, NoInner, "B"),
                       Text("C", <<"B">>, NoConstants, NoInner, "A"),
                       Text("C", Native, ConstantK(<<"B", "K">>), NoInner, "int"),
                       Text("B", Native, NoConstants, NoInner, "int")}]
HashOrders == {<<<<a>>, <<b>>, <<c>>, <<a, "I">>, <<b, "I">>>>,
               <<<<b, "I">>, <<a, "I">>, <<c>>, <<b>>, <<a>>>>}

Index == INSTANCE WorkspaceRegistry
    WITH Uris <- {a, b, c}, Texts <- WorkspaceTexts, Orders <- HashOrders, opened <- buffers

-----------------------------------------------------------------------------

annotationsVars == <<annotated, uses, at, tool, applied, regions, suppressions,
                     abstractClasses, abstractFunctions, issues>>
editsVars == <<bytes, chars, changes, tree>>
filesVars == <<windows, path, uri, canonical, opened>>
bodiesVars == <<alphabet, function, line, scopes, declared, names, bodyIssues>>
indentationVars == <<lines, blocks, delimiters, continuation, inString, brackets,
                     statements>>
recoveryVars == <<damaged, members, nodes, errors, header>>
callsVars == <<signatures, values, outcome, chosen, reported, warned>>
indexVars == <<documents, buffers, registry, announced>>

AnnotationsIdle ==
    /\ annotated = Idle /\ uses = Idle /\ at = Idle /\ tool = Idle /\ applied = Idle
    /\ regions = Idle /\ suppressions = Idle /\ abstractClasses = Idle
    /\ abstractFunctions = Idle /\ issues = Idle
EditsIdle ==
    /\ bytes = Idle /\ chars = Idle /\ changes = Idle /\ tree = Idle
FilesIdle ==
    /\ windows = Idle /\ path = Idle /\ uri = Idle /\ canonical = Idle
    /\ opened = Idle
BodiesIdle ==
    /\ alphabet = Idle /\ function = Idle /\ line = Idle /\ scopes = Idle
    /\ declared = Idle /\ names = Idle /\ bodyIssues = Idle
IndentationIdle ==
    /\ lines = Idle /\ blocks = Idle /\ delimiters = Idle /\ continuation = Idle
    /\ inString = Idle /\ brackets = Idle /\ statements = Idle
RecoveryIdle ==
    /\ damaged = Idle /\ members = Idle /\ nodes = Idle /\ errors = Idle
    /\ header = Idle
AnyScript == CHOOSE s \in Scripts : TRUE
ConstantsIdle == script = AnyScript /\ Unevaluated
CallsIdle ==
    /\ signatures = Idle /\ values = Idle /\ outcome = Idle /\ chosen = Idle
    /\ reported = Idle /\ warned = Idle
IndexIdle ==
    /\ documents = Idle /\ buffers = Idle /\ registry = Idle /\ announced = Idle

AllInit ==
    /\ world \in {"annotations", "edits", "files",
                  "bodies", "indentation", "recovery", "constants", "calls", "index"}
    /\ IF world = "annotations" THEN Annotations!Init ELSE AnnotationsIdle
    /\ IF world = "edits" THEN Edits!Init ELSE EditsIdle
    /\ IF world = "files" THEN Files!Init ELSE FilesIdle
    /\ IF world = "bodies" THEN Bodies!Init ELSE BodiesIdle
    /\ IF world = "indentation" THEN Indentation!Init ELSE IndentationIdle
    /\ IF world = "recovery" THEN Recovery!Init ELSE RecoveryIdle
    /\ IF world = "constants" THEN Init ELSE ConstantsIdle
    /\ IF world = "calls" THEN Calls!Init ELSE CallsIdle
    /\ IF world = "index" THEN Index!Init ELSE IndexIdle

In(w) ==
    /\ world = w /\ UNCHANGED world
    /\ IF w = "annotations" THEN TRUE ELSE UNCHANGED annotationsVars
    /\ IF w = "edits" THEN TRUE ELSE UNCHANGED editsVars
    /\ IF w = "files" THEN TRUE ELSE UNCHANGED filesVars
    /\ IF w = "bodies" THEN TRUE ELSE UNCHANGED bodiesVars
    /\ IF w = "indentation" THEN TRUE ELSE UNCHANGED indentationVars
    /\ IF w = "recovery" THEN TRUE ELSE UNCHANGED recoveryVars
    /\ IF w = "constants" THEN TRUE ELSE UNCHANGED vars
    /\ IF w = "calls" THEN TRUE ELSE UNCHANGED callsVars
    /\ IF w = "index" THEN TRUE ELSE UNCHANGED indexVars

AllNext ==
    \/ In("annotations") /\ Annotations!Next
    \/ In("edits") /\ Edits!Next
    \/ In("files") /\ Files!Next
    \/ In("bodies") /\ Bodies!Next
    \/ In("indentation") /\ Indentation!Next
    \/ In("recovery") /\ Recovery!Next
    \/ In("constants") /\ Next
    \/ In("calls") /\ Calls!Next
    \/ In("index") /\ Index!Next

allVars == <<world, annotationsVars, editsVars, filesVars,
          bodiesVars, indentationVars, recoveryVars, vars, callsVars,
          indexVars>>

AllSpec == AllInit /\ [][AllNext]_allVars

-----------------------------------------------------------------------------
(* The properties of the modules, each in its world; the comments at their *)
(* definitions say what they are about.                                    *)

(* annotations.cpp: annotations have effect where they are written for.    *)
AnnotationsInForce == world = "annotations" => Annotations!AnnotationsInForce

(* text.cpp, main.cpp: the buffer is the text of the editor.               *)
TextFollowsEditor == world = "edits" => Edits!TextFollowsEditor

(* uri.cpp: a file has one URI.                                            *)
FilesIdentified == world = "files" => Files!FilesIdentified

(* semantic_analyzer.cpp, syntax_checks.cpp: flow, names and jumps.        *)
BodiesJudged == world = "bodies" => Bodies!BodiesJudged

(* syntax_checks.cpp, document.cpp: indentation, brackets, and what they   *)
(* bound.                                                                  *)
StructureRead ==
    /\ world = "indentation" => Indentation!IndentationJudged
    /\ world = "recovery" => Recovery!DamageContained

(* workspace.cpp, semantic_analyzer.cpp: calls and the help for them.      *)
CallsJudged == world = "calls" => Calls!CallsJudged

(* workspace.cpp: the index after any sequence of changes.                 *)
IndexCoherent == world = "index" => Index!IndexCoherent

(* workspace.cpp: a change calls the documents affected that it affects.   *)
AffectedComplete == [][world = "index" => Index!AffectedByChange]_allVars
=============================================================================
