---------------------------- MODULE FunctionBodies ----------------------------
(***************************************************************************)
(* What the checks of a function body report: names that are never used,   *)
(* statements and patterns that are never reached, ends without a return   *)
(* (src/src/core/semantic_analyzer.cpp), and loops and names of its blocks *)
(* (src/src/core/syntax_checks.cpp).  The analyzer visits the lines in     *)
(* order and keeps a stack of scopes.                                      *)
(***************************************************************************)
EXTENDS SourceLines, FiniteSets, SequencesExt

CONSTANTS
    Alphabets,          \* bound: sets of the lines that one script is made of
    Names, MaxLines     \* bound: the lines of a script

VARIABLES
    alphabet, script,
    at,                 \* the line that is visited next; 0 while it is written
    scopes,             \* the blocks around it: [line, names]
    declared, read,     \* declarations with a binding, <<line, name>>
    issues

vars == <<alphabet, script, at, scopes, declared, read, issues>>

-----------------------------------------------------------------------------
(* The script.                                                             *)

Lines == DOMAIN script
Kind(l) == script[l].kind
Around(l) == Parent(script, l)
Body(l) == Block(script, l)

Functions == {"function", "lambda"}
Loops == {"for", "while"}
Openers == Functions \cup Loops \cup {"if", "elif", "else", "match", "section"}
Alternatives == {"elif", "else"}

(* What the user may write next: no block is empty.                        *)
Fits(line) ==
    LET last == Len(script)
        longer == Append(script, line)
        parent == Parent(longer, last + 1)
        before == Block(longer, parent) \ {last + 1}
    IN /\ line.depth > 0
       /\ IF Kind(last) \in Openers THEN line.depth = script[last].depth + 1
          ELSE line.depth <= script[last].depth
       /\ Kind(parent) = "match" <=> line.kind = "section"
       /\ line.kind \in Alternatives =>
              before # {} /\ Kind(Latest(before)) \in {"if", "elif"}

(* The function that a line is in, and its blocks from there.              *)
Ancestors(l) == {k \in Lines : k < l /\ Nested(script, l, k)}
FunctionOf(l) == Latest({k \in Ancestors(l) : Kind(k) \in Functions})
BlocksOf(l) == {k \in Ancestors(l) : k >= FunctionOf(l)}

(* An if with its alternatives is one statement.                           *)
Statements(k) == {l \in Body(k) : Kind(l) \notin Alternatives \cup {"annotation"}}
Chain(l) ==
    {l} \cup {k \in Body(Around(l)) :
        /\ k > l /\ Kind(k) \in Alternatives
        /\ \A j \in Body(Around(l)) : j \in (l + 1)..k => Kind(j) \in Alternatives}

-----------------------------------------------------------------------------
(* statement_flow: how control may leave a statement.                      *)

CatchesAll(s) == script[s].pattern = "any" /\ ~script[s].guard

(* Mutant: a pattern that catches all is itself not reached.               *)
SectionsBefore(m) ==
    {s \in Body(m) : \A t \in Body(m) : t <= s => ~CatchesAll(t)}

ReachedSections(m) ==
    {s \in Body(m) : \A t \in Body(m) : t < s => ~CatchesAll(t)}

(* Mutant: an if without else may be left by its branches only.            *)
AnyHasElse(l) == TRUE

HasElse(l) == \E k \in Chain(l) : Kind(k) = "else"

(* The flow of each statement, from the last line to the first, and with   *)
(* it the one of each block.                                               *)
Flows ==
    LET flow[l \in Lines] ==
            LET block[done \in SUBSET Lines] ==
                    IF done = {} THEN {"falls"}
                    ELSE LET before == block[done \ {Latest(done)}]
                         IN IF "falls" \in before
                            THEN (before \ {"falls"}) \cup flow[Latest(done)].leaves
                            ELSE before
                inner == block[Statements(l)]
                branches == UNION {flow[k].inner : k \in Chain(l) \ {l}}
            IN [inner |-> inner,
                leaves |->
                    CASE Kind(l) = "return" -> {"returns"}
                      [] Kind(l) = "break" -> {"breaks"}
                      [] Kind(l) = "continue" -> {"continues"}
                      [] Kind(l) = "if" ->
                             inner \cup branches \cup (IF HasElse(l) THEN {} ELSE {"falls"})
                      [] Kind(l) = "match" ->
                             (UNION {flow[s].inner : s \in ReachedSections(l)})
                             \cup (IF \E s \in Body(l) : CatchesAll(s) THEN {} ELSE {"falls"})
                      [] Kind(l) \in Loops -> {"falls"} \cup (inner \cap {"returns"})
                      [] OTHER -> {"falls"}]
    IN flow

(* analyze_block: the first statement that follows one which never falls   *)
(* through; match: the patterns behind one that catches all; and the end   *)
(* of a function that has a type to return.                                *)
FlowIssues ==
    LET flow == Flows
        Dead(l) == \E k \in Statements(Around(l)) : k < l /\ "falls" \notin flow[k].leaves
        dead == {l \in Lines : Kind(l) \notin Alternatives \cup {"annotation", "section",
                                                                  "function"} /\ Dead(l)}
    IN {<<l, "unreachable-code">> : l \in {d \in dead :
            \A k \in dead : Around(k) = Around(d) => d <= k}}
       \cup {<<s, "unreachable-pattern">> : s \in {t \in Lines :
            Kind(t) = "section" /\ t \notin ReachedSections(Around(t))}}
       \cup {<<f, "missing-return-path">> : f \in {g \in Lines :
            /\ Kind(g) \in Functions /\ script[g].typed
            /\ flow[g].inner # {"returns"}}}

-----------------------------------------------------------------------------
(* structural_issues: loops, and the names of one block.                   *)

(* Mutant: the loops around a lambda count.                                *)
LoopsAnywhere(l) == {k \in Ancestors(l) : Kind(k) \in Loops}

LoopsAround(l) == {k \in BlocksOf(l) : Kind(k) \in Loops}

Declares(l) == Kind(l) \in {"var", "const"}
SameBlock(l) == {k \in Body(Around(l)) : k < l /\ Declares(k)}

(* Mutant: a block knows only its own names.                               *)
LocalsOfBlock(l) == {script[k].name : k \in SameBlock(l)}

(* inspect_local_scopes                                                    *)
VisibleLocals(l) ==
    {script[k].name : k \in
        {j \in Lines : \/ /\ Declares(j) /\ j < l
                          /\ Around(j) \in BlocksOf(l)
                       \/ Kind(j) = "for" /\ j \in BlocksOf(l)}}

StructureIssues ==
    {<<l, "outside of a loop">> : l \in {k \in Lines :
        Kind(k) \in {"break", "continue"} /\ LoopsAround(k) = {}}}
    \cup {<<l, "already declared">> : l \in {k \in Lines :
        \/ Declares(k) /\ \E j \in SameBlock(k) : script[j].name = script[k].name
        \/ Kind(k) = "for" /\ script[k].name \in VisibleLocals(k)}}

-----------------------------------------------------------------------------
(* The scopes.                                                             *)

None == "none"

(* The names that a block is opened with; bind_patterns binds those of all *)
(* patterns in the section, also of sections that are nested in it.        *)
Opened(k) ==
    LET bound == {s \in Lines : Kind(s) = "section" /\ Nested(script, s, k)}
    IN [line |-> k,
        names |-> [n \in Names |->
            CASE Kind(k) \in Functions /\ n = script[k].name -> k
              [] Kind(k) = "for" /\ n = script[k].name -> k
              [] Kind(k) = "section" /\ \E s \in bound : script[s].name = n ->
                     CHOOSE s \in bound : script[s].name = n
              [] OTHER -> 0]]

(* Mutant: a name is looked for from the outside.                          *)
BoundOutermost(stack, name) ==
    LET having == {i \in DOMAIN stack : stack[i].names[name] # 0}
    IN IF having = {} THEN {}
       ELSE LET k == stack[Earliest(having)].names[name]
            IN IF Kind(k) \in Functions \/ Declares(k) THEN {<<k, name>>} ELSE {}

(* A parameter has a binding; a variable of a loop or of a pattern has none.*)
Bound(stack, name) ==
    LET having == {i \in DOMAIN stack : stack[i].names[name] # 0}
    IN IF having = {} THEN {}
       ELSE LET k == stack[Latest(having)].names[name]
            IN IF Kind(k) \in Functions \/ Declares(k) THEN {<<k, name>>} ELSE {}

(* resolve_name and annotation_reads: the declarations that names resolve  *)
(* to are read.                                                            *)
Resolved(stack, names) == UNION {Bound(stack, n) : n \in names}

Private(name) == name = "_x"

(* finish_function, for the functions that a line is not in any more.      *)
Unused(left) ==
    {<<d[1], "unused">> : d \in {e \in declared \ read :
        /\ (IF Kind(e[1]) \in Functions THEN e[1] ELSE FunctionOf(e[1])) \in left
        /\ ~Private(e[2])}}

(* The stack when a line is visited; a section has its scope from its own  *)
(* line on, for its guard.                                                 *)
Entered(l) ==
    LET kept == SelectSeq(scopes, LAMBDA s : s.line \in Ancestors(l))
        opened == IF kept # <<>> /\ kept[Len(kept)].line = Around(l) THEN kept
                  ELSE Append(kept, Opened(Around(l)))
    IN IF Kind(l) = "section" THEN Append(opened, Opened(l)) ELSE opened

Left(l) == {s.line : s \in Range(scopes)} \ {s.line : s \in Range(Entered(l))}

(* The names that a line reads: a plain assignment does not read what it   *)
(* assigns, and the patterns of a match are not evaluated.                 *)
Reads(l) == script[l].reads \cup (IF Kind(l) = "augment" THEN {script[l].name} ELSE {})

Declared(l) ==
    (IF Declares(l) THEN {<<l, script[l].name>>} ELSE {})
    \cup (IF Kind(l) \in Functions /\ script[l].name # None
          THEN {<<l, script[l].name>>} ELSE {})

(* analyze_statement, of one line: it is read before it declares.          *)
Visit ==
    /\ at \in Lines
    /\ LET stack == IF at = 1 THEN <<>> ELSE Entered(at)
           top == Len(stack)
       IN /\ read' = read \cup Resolved(stack, Reads(at) \ {None})
          /\ scopes' = IF Declares(at)
                       THEN [stack EXCEPT ![top].names[script[at].name] = at]
                       ELSE stack
          /\ issues' = IF at = 1 THEN issues ELSE issues \cup Unused(Left(at))
    /\ declared' = declared \cup Declared(at)
    /\ at' = at + 1
    /\ UNCHANGED <<alphabet, script>>

Finish ==
    /\ at = Len(script) + 1
    /\ issues' = issues \cup Unused(Lines) \cup FlowIssues \cup StructureIssues
    /\ at' = at + 1
    /\ UNCHANGED <<alphabet, script, scopes, declared, read>>

(* The user writes the script, and then it is analyzed.                    *)
Write(line) ==
    /\ at = 0 /\ Len(script) < MaxLines /\ Fits(line)
    /\ script' = Append(script, line)
    /\ UNCHANGED <<alphabet, at, scopes, declared, read, issues>>

Analyze ==
    /\ at = 0 /\ Kind(Len(script)) \notin Openers
    /\ at' = 1
    /\ UNCHANGED <<alphabet, script, scopes, declared, read, issues>>

Init ==
    /\ alphabet \in Alphabets
    /\ \E line \in alphabet : line.depth = 0 /\ script = <<line>>
    /\ at = 0 /\ scopes = <<>> /\ declared = {} /\ read = {} /\ issues = {}

Next == (\E line \in alphabet : Write(line)) \/ Analyze \/ Visit \/ Finish

Spec == Init /\ [][Next]_vars

-----------------------------------------------------------------------------
(* What a script does when it runs: where control may go from each line.   *)
(* 0 is the end of the function that is run.                               *)

Next1(l) == LET later == {k \in Statements(Around(l)) : k > l}
            IN IF later = {} THEN 0 ELSE Earliest(later)
First(k) == IF Statements(k) = {} THEN 0 ELSE Earliest(Statements(k))

(* After the last statement of a block: the loop again, or what follows.   *)
After ==
    LET after[l \in Lines] ==
            CASE Kind(l) \in Alternatives ->
                     after[Latest({k \in Body(Around(l)) : k < l /\ Kind(k) = "if"})]
              [] Kind(l) = "section" -> after[Around(l)]
              [] Next1(l) # 0 -> Next1(l)
              [] Kind(Around(l)) \in Loops -> Around(l)
              [] Kind(Around(l)) \in Functions -> 0
              [] OTHER -> after[Around(l)]
    IN after

NextLine(set) == IF set = {} THEN {} ELSE {Earliest(set)}
Goes(l, after) ==
    CASE Kind(l) = "return" -> {}
      [] Kind(l) = "break" -> {after[Latest(LoopsAround(l))]}
      [] Kind(l) = "continue" -> {Latest(LoopsAround(l))}
      [] Kind(l) \in {"if", "elif"} ->
             LET others == {k \in Chain(l) : k > l}
             IN {First(l)} \cup (IF others = {} THEN {after[l]} ELSE NextLine(others))
      [] Kind(l) = "else" -> {First(l)}
      [] Kind(l) \in Loops -> {First(l), after[l]}
      [] Kind(l) = "match" -> {Earliest(Body(l))}
      [] Kind(l) = "section" ->
             LET others == {k \in Body(Around(l)) : k > l}
             IN {First(l)} \cup (IF script[l].pattern = "any" /\ ~script[l].guard THEN {}
                                 ELSE IF others = {} THEN {after[l]} ELSE NextLine(others))
      [] OTHER -> {after[l]}

Reached(f, after) ==
    FoldLeftDomain(LAMBDA lines, n : lines \cup UNION {Goes(l, after) : l \in lines \ {0}},
                   {First(f)}, script)

-----------------------------------------------------------------------------
(* Properties.                                                             *)

Done == at = Len(script) + 2
Reported(l, what) == <<l, what>> \in issues
Broken == \E l \in Lines : Reported(l, "outside of a loop")

(* A line can never run exactly if it or a statement or pattern before it   *)
(* in one of the blocks around it is reported as unreachable.               *)
UnreachableFound ==
    Done /\ ~Broken =>
        \A f \in {k \in Lines : Kind(k) \in Functions} : \A reached \in {Reached(f, After)} :
            \A l \in {k \in Lines : Kind(k) \notin {"annotation", "function"} /\ k > f
                                    /\ Nested(script, k, f) /\ FunctionOf(k) = f} :
                l \notin reached <=>
                    \E b \in {l} \cup {k \in Ancestors(l) : k > f}, k \in Lines :
                        /\ k <= b /\ Around(k) = Around(b)
                        /\ Reported(k, "unreachable-code") \/ Reported(k, "unreachable-pattern")

(* A function that has to return something is reported exactly if it may    *)
(* run to its end.                                                          *)
MissingReturnFound ==
    Done /\ ~Broken =>
        \A f \in {k \in Lines : Kind(k) \in Functions /\ script[k].typed} :
            Reported(f, "missing-return-path") <=> 0 \in Reached(f, After)

(* Where the name that a line reads is declared, block by block outwards.   *)
Meant(l, name) ==
    LET here == IF Kind(l) = "section" THEN {l} \cup Ancestors(l) ELSE Ancestors(l)
        In(b) == {k \in Body(b) : k < l /\ Declares(k) /\ script[k].name = name}
                 \cup (IF Kind(b) \in Functions \cup {"for", "section"}
                          /\ script[b].name = name THEN {b} ELSE {})
        having == {b \in here : In(b) # {}}
    IN IF having = {} THEN 0 ELSE Latest(In(Latest(having)))

Plain(name) == ~\E s \in Lines : Kind(s) = "section" /\ script[s].name = name
                                 /\ \E t \in Ancestors(s) : Kind(t) = "section"

(* A variable, a constant or a parameter is reported as unused exactly if   *)
(* no line means it, lambdas included; but for names that begin with an     *)
(* underscore and those that patterns within patterns bind.                 *)
UnusedFound ==
    Done => \A l \in Lines : \A d \in {e \in Declared(l) : Plain(e[2])} :
        Reported(l, "unused") <=>
            /\ ~Private(d[2])
            /\ \A k \in Lines : d[2] \in Reads(k) => Meant(k, d[2]) # l

(* A break or continue that is not reported leaves a loop of its own        *)
(* function, and no loop around a lambda.                                   *)
JumpsStayInside ==
    Done => \A l \in {k \in Lines : Kind(k) \in {"break", "continue"}} :
        ~Reported(l, "outside of a loop") =>
            \E k \in Ancestors(l) : Kind(k) \in Loops /\ FunctionOf(l) < k

(* The variable of a loop that is not reported hides no local of its        *)
(* function: the two passes agree on what is visible there.                 *)
LoopVariableHidesNothing ==
    at \in Lines /\ Kind(at) = "for" /\ <<at, "already declared">> \notin StructureIssues =>
        \A s \in Range(Entered(at)) :
            LET k == s.names[script[at].name]
            IN k # 0 /\ s.line >= FunctionOf(at) => Kind(k) \in Functions \cup {"section"}

(* What is reported about flow, names and jumps in a function is what is   *)
(* wrong with it.                                                          *)
BodiesJudged ==
    /\ UnreachableFound
    /\ MissingReturnFound
    /\ UnusedFound
    /\ JumpsStayInside
    /\ LoopVariableHidesNothing
=============================================================================
