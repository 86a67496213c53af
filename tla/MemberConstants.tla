---------------------------- MODULE MemberConstants ----------------------------
(***************************************************************************)
(* The constants of a script's classes (resolve_member_constant and        *)
(* evaluate in src/src/core/semantic_analyzer.cpp): one is evaluated when  *)
(* it is first needed, in the class that declares it, and what it needs is *)
(* evaluated in between.                                                   *)
(*                                                                         *)
(* A class is "Outer" or "Inner", a constant <<class, name>>.  The         *)
(* expression of a constant is an operation on operands: names, "literal", *)
(* "call" (a value of the running program) or "missing".  A value has a    *)
(* state, is resolved or not, and is quiet when it comes from a circle     *)
(* that was reported.                                                      *)
(***************************************************************************)
EXTENDS Naturals, Sequences

CONSTANTS
    Scripts             \* expressions of the constants of a script, in order:
                        \* sequences of [of, operation, operands]

Others == {"literal", "call", "missing"}
Declarations ==
    [of : {"Outer", "Inner"} \X (STRING \ Others),
     operation : {"name", "array", "operator", "index"}, operands : Seq(STRING)]

ASSUME ScriptsAssumption ==
    \A s \in Scripts :
        /\ s \in Seq(Declarations)
        /\ \A k \in DOMAIN s : s[k].operation = "name" => Len(s[k].operands) = 1

VARIABLES
    script,
    next,               \* the constant run is at
    stack,              \* the constants that are being evaluated
    current,            \* current_class
    resolved,           \* resolved_constants
    circular,           \* reported_constant_cycles
    invalid             \* the constants reported as not constant

vars == <<script, next, stack, current, resolved, circular, invalid>>

Constants == {script[k].of : k \in DOMAIN script}
Declaration(c) == script[CHOOSE k \in DOMAIN script : script[k].of = c]

(* find_member and find_lexical_member: the class, then the one around it. *)
Lookup(class, name) ==
    IF <<class, name>> \in Constants THEN <<class, name>>
    ELSE IF class = "Inner" /\ <<"Outer", name>> \in Constants THEN <<"Outer", name>>
    ELSE <<>>

Value(state, isResolved, quiet) == [state |-> state, resolved |-> isResolved, quiet |-> quiet]
Literal == Value("constant", TRUE, FALSE)
Call == Value("runtime", TRUE, FALSE)
Missing == Value("unknown", FALSE, FALSE)
Cycle == Value("runtime", FALSE, TRUE)

(* What is no constant of the script.                                      *)
Other(name) == CASE name = "literal" -> Literal [] name = "call" -> Call
                 [] OTHER -> Missing

(* combined_constant_state                                                 *)
Combined(values) ==
    LET states == {values[k].state : k \in DOMAIN values}
    IN  IF "runtime" \in states THEN "runtime"
        ELSE IF "unknown" \in states THEN "unknown" ELSE "constant"

(* Mutant: the elements of an array do not make it quiet.                  *)
ApplyLoud(operation, values) ==
    IF operation = "name" THEN values[1]
    ELSE IF operation = "operator" /\ \E k \in DOMAIN values : ~values[k].resolved THEN Missing
    ELSE Value(Combined(values), TRUE, FALSE)

(* A name, an array (a dictionary, a choice), an operator or an index.     *)
Apply(operation, values) ==
    IF operation = "name" THEN values[1]
    ELSE IF operation = "operator" /\ \E k \in DOMAIN values : ~values[k].resolved THEN Missing
    ELSE Value(Combined(values), TRUE,
               operation # "index" /\ \E k \in DOMAIN values : values[k].quiet)

-----------------------------------------------------------------------------
(* Evaluation                                                              *)

Frame(c) == [of |-> c, done |-> <<>>, caller |-> current]
Resolving == {stack[k].of : k \in DOMAIN stack}
Top == stack[Len(stack)]
Below == SubSeq(stack, 1, Len(stack) - 1)
Operands == Declaration(Top.of).operands
Open == stack # <<>> /\ Len(Top.done) < Len(Operands)
Operand == Operands[Len(Top.done) + 1]
Target == Lookup(current, Operand)

Yields(value) == stack' = Append(Below, [Top EXCEPT !.done = Append(@, value)])
Kept == UNCHANGED <<script, next, current, resolved, invalid>>

(* run: every constant in its order.                                       *)
Begin ==
    /\ stack = <<>> /\ next <= Len(script)
    /\ next' = next + 1
    /\ IF script[next].of \in DOMAIN resolved THEN UNCHANGED <<stack, current>>
       ELSE /\ stack' = <<Frame(script[next].of)>>
            /\ current' = script[next].of[1]
    /\ UNCHANGED <<script, resolved, circular, invalid>>

(* resolve_name: an operand that is no constant of the script.             *)
EvaluateOther ==
    /\ Open /\ Target = <<>>
    /\ Yields(Other(Operand))
    /\ Kept /\ UNCHANGED circular

IsConstant == Open /\ Target # <<>>

EvaluateKnown ==
    /\ IsConstant /\ Target \in DOMAIN resolved
    /\ Yields(resolved[Target])
    /\ Kept /\ UNCHANGED circular

(* A constant that needs itself is reported once.                          *)
EvaluateCycle ==
    /\ IsConstant /\ Target \notin DOMAIN resolved /\ Target \in Resolving
    /\ Yields(Cycle)
    /\ circular' = circular \cup {Target}
    /\ Kept

(* Mutant: the constant is evaluated in the class that needs it.           *)
EvaluateInPlace ==
    /\ IsConstant /\ Target \notin DOMAIN resolved /\ Target \notin Resolving
    /\ stack' = Append(stack, Frame(Target))
    /\ UNCHANGED <<script, next, current, resolved, circular, invalid>>

EvaluateNew ==
    /\ IsConstant /\ Target \notin DOMAIN resolved /\ Target \notin Resolving
    /\ stack' = Append(stack, Frame(Target))
    /\ current' = Target[1]
    /\ UNCHANGED <<script, next, resolved, circular, invalid>>

Result == Apply(Declaration(Top.of).operation, Top.done)

(* Mutant: a constant of a circle is forgotten again.                      *)
ReturnForgets ==
    /\ stack # <<>> /\ Len(Top.done) = Len(Operands)
    /\ resolved' = IF Top.of \in circular THEN resolved
                   ELSE [c \in DOMAIN resolved \cup {Top.of} |->
                           IF c = Top.of THEN Result ELSE resolved[c]]
    /\ invalid' = IF Result.state = "runtime" /\ ~Result.quiet THEN invalid \cup {Top.of} ELSE invalid
    /\ current' = Top.caller
    /\ stack' = IF Below = <<>> THEN <<>>
                ELSE [Below EXCEPT ![Len(Below)].done = Append(@, Result)]
    /\ UNCHANGED <<script, next, circular>>

(* The end of resolve_member_constant.                                     *)
Return ==
    /\ stack # <<>> /\ Len(Top.done) = Len(Operands)
    /\ resolved' = [c \in DOMAIN resolved \cup {Top.of} |->
                      IF c = Top.of THEN Result ELSE resolved[c]]
    /\ invalid' = IF Result.state = "runtime" /\ ~Result.quiet THEN invalid \cup {Top.of} ELSE invalid
    /\ current' = Top.caller
    /\ stack' = IF Below = <<>> THEN <<>>
                ELSE [Below EXCEPT ![Len(Below)].done = Append(@, Result)]
    /\ UNCHANGED <<script, next, circular>>

Unevaluated ==
    /\ next = 1 /\ stack = <<>> /\ current = ""
    /\ resolved = [c \in {} |-> Literal] /\ circular = {} /\ invalid = {}

Init == script \in Scripts /\ Unevaluated

Next == Begin \/ EvaluateOther \/ EvaluateKnown \/ EvaluateCycle \/ EvaluateNew \/ Return

Spec == Init /\ [][Next]_vars

-----------------------------------------------------------------------------
(* Properties                                                              *)

Done == next > Len(script) /\ stack = <<>>

Needs(c) == {Lookup(c[1], Declaration(c).operands[k]) : k \in DOMAIN Declaration(c).operands} \ {<<>>}

(* What is needed, by what is needed: the least set that is closed.        *)
Reach(set) ==
    LET closed == {all \in SUBSET Constants : set \subseteq all /\ \A c \in all : Needs(c) \subseteq all}
    IN  {d \in Constants : \A all \in closed : d \in all}

OnCircle(c) == c \in Reach(Needs(c))
NeedsCircle(c) == \E d \in Reach({c}) : OnCircle(d)

(* What an expression means, by what its names mean in its class.          *)
Meaning(c) ==
    LET operands == Declaration(c).operands
        Of(name) == IF Lookup(c[1], name) = <<>> THEN Other(name)
                    ELSE resolved[Lookup(c[1], name)]
    IN  Apply(Declaration(c).operation, [k \in DOMAIN operands |-> Of(operands[k])])

(* A constant has the value its names have in the class that declares it,  *)
(* from wherever it was first needed, and is reported exactly when that    *)
(* depends on the running program (resolve_member_constant).               *)
ValuesOfTheirClass ==
    \A c \in DOMAIN resolved :
        ~NeedsCircle(c) => /\ Needs(c) \subseteq DOMAIN resolved
                           /\ resolved[c] = Meaning(c)
                           /\ c \in invalid <=> resolved[c].state = "runtime"

(* Every circle is reported, at one of its constants and at no constant    *)
(* that only needs it; when the evaluation ends every constant has a       *)
(* value (reported_constant_cycles).                                       *)
CirclesReported ==
    /\ \A c \in circular : OnCircle(c)
    /\ Done => /\ DOMAIN resolved = Constants
               /\ \A c \in Constants : OnCircle(c) =>
                    \E d \in circular : d \in Reach({c}) /\ c \in Reach({d})

(* A constant that needs a circle is not called a runtime value for it, as *)
(* long as nothing is indexed (suppress_invalid_constant).                 *)
QuietOnCircles ==
    \A c \in invalid :
        \E d \in Reach({c}) :
            \/ \E k \in DOMAIN Declaration(d).operands : Declaration(d).operands[k] = "call"
            \/ Declaration(d).operation = "index"

(* The order in which constants are needed makes no difference to what is  *)
(* reported.                                                               *)
ConstantsJudged ==
    /\ ValuesOfTheirClass
    /\ CirclesReported
    /\ QuietOnCircles
=============================================================================
