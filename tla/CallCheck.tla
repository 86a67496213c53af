------------------------------- MODULE CallCheck -------------------------------
(***************************************************************************)
(* How a call is checked against the overloads of its callee (call_value   *)
(* in src/src/core/semantic_analyzer.cpp, is_assignable in workspace.cpp), *)
(* and the same types where a value is declared and returned.              *)
(*                                                                         *)
(* A type is <<"unknown">>, <<"variant">>, <<"builtin", name>>, an array   *)
(* <<"array", type of its elements>>, an instance <<"object", class>> or a *)
(* class as a value, <<"class", class>>.  A value has a type and, if it is *)
(* a literal array, its elements.                                          *)
(***************************************************************************)
EXTENDS Naturals, Sequences, FiniteSets, SequencesExt

CONSTANTS
    Parent,             \* the parent of every class but the roots
    Scripts,            \* the classes that are declared by scripts
    ScriptMeta,         \* the native class of a script as a value
    Overloads,          \* the lists of signatures a callee may have
    Arguments           \* the lists of values it may be called with

VARIABLES
    signatures, values,
    outcome,            \* "open", or how the check ended
    chosen,             \* the signature it ended with, 0 for none
    reported,           \* arguments (and their elements) called incompatible
    warned              \* arguments called unsafe

vars == <<signatures, values, outcome, chosen, reported, warned>>

-----------------------------------------------------------------------------
(* is_assignable and is_potential_downcast                                 *)

RECURSIVE Ancestors(_)
(* Mutant: a class and its parent only.                                    *)
Closest(c) == {c} \cup (IF c \in DOMAIN Parent THEN {Parent[c]} ELSE {})

Ancestors(c) == {c} \cup (IF c \in DOMAIN Parent THEN Ancestors(Parent[c]) ELSE {})

Numbers == {"bool", "int", "float"}

(* can_convert_strict: the conversions between builtin types, by example.  *)
Converts(source, target) ==
    \/ source = target
    \/ {source, target} \subseteq Numbers
    \/ <<source, target>> \in {<<"StringName", "String">>, <<"NodePath", "String">>,
                               <<"String", "StringName">>, <<"String", "NodePath">>,
                               <<"String", "Color">>, <<"int", "Color">>}

Dynamic(t) == t \in {<<"unknown">>, <<"variant">>}

(* Two arrays are assignable whatever their elements are; a native class   *)
(* as a value passes for an instance, a script only for its meta class.    *)
Assignable(expected, actual) ==
    LET classes == {"object", "class"}
    IN  \/ Dynamic(expected) \/ Dynamic(actual)
        \/ expected[1] = "array" /\ actual[1] = "array"
        \/ /\ expected[1] = "builtin" /\ actual[1] = "builtin"
           /\ Converts(actual[2], expected[2])
        \/ /\ expected[1] \in classes /\ actual[1] \in classes
           /\ \/ expected = actual
              \/ /\ actual[2] \notin Scripts \/ actual[1] = "object"
                 /\ expected[2] \in Ancestors(actual[2])
              \/ /\ actual[2] \in Scripts /\ actual[1] = "class"
                 /\ expected[2] \notin Scripts /\ expected[2] \in Ancestors(ScriptMeta)

PotentialDowncast(expected, actual) ==
    ~Dynamic(expected) /\ ~Dynamic(actual)
      /\ ~Assignable(expected, actual) /\ Assignable(actual, expected)

RECURSIVE Compatible(_, _)
(* compatible_value: a literal is compatible when its elements are.        *)
Compatible(expected, value) ==
    IF expected[1] = "array" /\ value.literal
    THEN \A i \in DOMAIN value.elements : Compatible(expected[2], value.elements[i])
    ELSE \/ value.type = <<"unresolved">>
         \/ Assignable(expected, value.type) \/ PotentialDowncast(expected, value.type)

RECURSIVE BadElements(_, _)
(* Mutant: only the outer elements are looked at.                          *)
OuterElements(expected, value) ==
    {<<i>> : i \in {j \in DOMAIN value.elements :
                      ~Assignable(expected[2], value.elements[j].type)}}

(* check_array: the places of the elements that are incompatible.          *)
BadElements(expected, value) ==
    UNION {LET element == value.elements[i]
           IN  IF expected[2][1] = "array" /\ element.literal
               THEN {<<i>> \o place : place \in BadElements(expected[2], element)}
               ELSE IF Compatible(expected[2], element) THEN {} ELSE {<<i>>}
             : i \in DOMAIN value.elements}

Rejected(expected, t) ==
    t # <<"unresolved">> /\ ~Dynamic(t) /\ ~Assignable(expected, t)

(* check_declared_assignment: the places in a value that its declaration   *)
(* is reported for.                                                        *)
DeclareReports(expected, value) ==
    IF expected[1] = "array" /\ value.literal THEN BadElements(expected, value)
    ELSE IF ~Dynamic(expected) /\ Rejected(expected, value.type)
            /\ ~PotentialDowncast(expected, value.type) THEN {<<>>}
    ELSE {}

(* Mutant: what may be downcast is declared and passed, but not returned.  *)
ReturnStrictly(expected, value) ==
    IF expected[1] = "array" /\ value.literal THEN BadElements(expected, value)
    ELSE IF Rejected(expected, value.type) THEN {<<>>} ELSE {}

(* analyze_statement, of a return statement with a value.                  *)
ReturnReports(expected, value) ==
    IF expected[1] = "array" /\ value.literal THEN BadElements(expected, value)
    ELSE IF /\ expected # <<"unknown">> /\ Rejected(expected, value.type)
            /\ ~PotentialDowncast(expected, value.type) THEN {<<>>}
    ELSE {}

-----------------------------------------------------------------------------
(* call_value                                                              *)

Required(s) == Cardinality({i \in DOMAIN s.parameters : ~s.parameters[i].optional})

ArityMatches ==
    {k \in DOMAIN signatures :
        /\ Required(signatures[k]) <= Len(values)
        /\ signatures[k].vararg \/ Len(values) <= Len(signatures[k].parameters)}

(* The arguments that stand for a declared parameter, in their order.      *)
Bound(s) == DOMAIN values \cap DOMAIN s.parameters
Expected(s, i) == s.parameters[i].type

Literal(i) == values[i].literal

FitsExactly(s) == \A i \in Bound(s) :
    /\ Assignable(Expected(s, i), values[i].type)
    /\ Literal(i) => Compatible(Expected(s, i), values[i])

FitsLoosely(s) == \A i \in Bound(s) :
    /\ Literal(i) => Compatible(Expected(s, i), values[i])
    /\ \/ Assignable(Expected(s, i), values[i].type)
       \/ PotentialDowncast(Expected(s, i), values[i].type)

First(ks) == CHOOSE k \in ks : \A l \in ks : k <= l

Unresolved == \E i \in DOMAIN values : values[i].type = <<"unresolved">>

End(how, k, places, arguments) ==
    /\ outcome = "open" /\ outcome' = how /\ chosen' = k
    /\ reported' = places /\ warned' = arguments
    /\ UNCHANGED <<signatures, values>>

(* An argument without a value was reported where it is evaluated.         *)
CallUnresolved == Unresolved /\ End("unresolved", 0, {}, {})

CallCount == ~Unresolved /\ ArityMatches = {} /\ End("count", 0, {}, {})

CallExact ==
    LET fitting == {k \in ArityMatches : FitsExactly(signatures[k])}
    IN  ~Unresolved /\ fitting # {} /\ End("exact", First(fitting), {}, {})

CallUnsafe ==
    LET fitting == {k \in ArityMatches : FitsLoosely(signatures[k])}
        s == signatures[First(fitting)]
    IN  /\ ~Unresolved /\ fitting # {}
        /\ \A k \in ArityMatches : ~FitsExactly(signatures[k])
        /\ End("unsafe", First(fitting), {},
               {i \in Bound(s) : PotentialDowncast(Expected(s, i), values[i].type)})

(* The first argument that is not assignable ends the report, the elements *)
(* of array literals before it are reported with it.                       *)
CallMismatch ==
    LET s == signatures[First(ArityMatches)]
        Checked(i) == Expected(s, i)[1] = "array" /\ Literal(i)
        wrong == {i \in Bound(s) : ~Checked(i) /\ ~Assignable(Expected(s, i), values[i].type)}
        before == {i \in Bound(s) : \A j \in wrong : i < j}
        elements == UNION {{<<i>> \o place : place \in BadElements(Expected(s, i), values[i])}
                             : i \in {j \in before : Checked(j)}}
    IN  /\ ~Unresolved /\ ArityMatches # {}
        /\ \A k \in ArityMatches : ~FitsLoosely(signatures[k])
        /\ End("mismatch", First(ArityMatches),
               elements \cup (IF wrong = {} THEN {} ELSE {<<First(wrong)>>}), {})

Init ==
    /\ signatures \in Overloads /\ values \in Arguments
    /\ outcome = "open" /\ chosen = 0 /\ reported = {} /\ warned = {}

Next == CallUnresolved \/ CallCount \/ CallExact \/ CallUnsafe \/ CallMismatch

Spec == Init /\ [][Next]_vars

-----------------------------------------------------------------------------
(* Properties                                                              *)

(* What an overload accepts without a remark it accepts for every class    *)
(* that inherits the argument's, script or native, however far             *)
(* (is_assignable, call_value).                                            *)
Heirs(type) == IF type[1] # "object" THEN {type}
               ELSE {<<"object", c>> : c \in {d \in DOMAIN Parent : type[2] \in Ancestors(d)
                                                                    \/ Parent[d] = type[2]}}

HeirsAccepted ==
    outcome = "exact" =>
        \A i \in Bound(signatures[chosen]) : \A heir \in Heirs(values[i].type) :
            Assignable(Expected(signatures[chosen], i), heir)

(* A call that fits no overload is always reported, at an argument or an   *)
(* element of one that the overload it is held against does not take       *)
(* (call_value, check_array).                                              *)
RejectionsExplained ==
    outcome = "mismatch" =>
        /\ reported # {}
        /\ \A place \in reported :
               LET i == place[1]
                   s == signatures[chosen]
               IN  IF Len(place) = 1 THEN ~Assignable(Expected(s, i), values[i].type)
                   ELSE ~Compatible(Expected(s, i), values[i])

(* A value that may be passed for a type may be declared with it and        *)
(* returned for it, and one that may not is reported at the same places     *)
(* (call_value, check_declared_assignment, analyze_statement).              *)
SameEverywhere ==
    outcome \in {"exact", "unsafe", "mismatch"} /\ Len(values) = 1
        /\ Len(signatures) = 1 /\ Bound(signatures[1]) = {1} =>
        LET expected == Expected(signatures[1], 1)
        IN /\ reported = {<<1>> \o place : place \in DeclareReports(expected, values[1])}
           /\ reported = {<<1>> \o place : place \in ReturnReports(expected, values[1])}

(* The check of a call follows the types, as declarations and returns do.  *)
CallsJudged ==
    /\ HeirsAccepted
    /\ RejectionsExplained
    /\ SameEverywhere
=============================================================================
