------------------------- MODULE MemberConstantsProof -------------------------
(***************************************************************************)
(* Proofs about the constants of a script, for every script: any number of *)
(* constants, in two classes, that need each other in any way.             *)
(***************************************************************************)
EXTENDS MemberConstants, SequenceTheorems, TLAPS

(***************************************************************************)
(* The inductive invariant.                                                *)
(***************************************************************************)

Values == [state : {"constant", "runtime", "unknown"}, resolved : BOOLEAN, quiet : BOOLEAN]
Classes == {"Outer", "Inner"}
Frames == [of : Constants, done : Seq(Values), caller : Classes \cup {""}]

TypeInv ==
    /\ script \in Scripts /\ next \in 1..(Len(script) + 1)
    /\ stack \in Seq(Frames)
    /\ current \in Classes \cup {""}
    /\ DOMAIN resolved \subseteq Constants /\ resolved \in [DOMAIN resolved -> Values]
    /\ circular \subseteq Constants

(* The value an operand of c was given: that of another name, that of a    *)
(* constant, or that of one that was found to need itself.                 *)
Stands(c, name, value) ==
    IF Lookup(c[1], name) = <<>> THEN value = Other(name)
    ELSE \/ /\ Lookup(c[1], name) \in DOMAIN resolved
            /\ value = resolved[Lookup(c[1], name)]
         \/ Lookup(c[1], name) \in circular /\ value = Cycle
Stand(c, values) ==
    \A m \in 1..Len(values) : Stands(c, Declaration(c).operands[m], values[m])

(* Who is evaluated waits for the one above it, which it needs; the class  *)
(* is that of the topmost, and goes back to that of the one below it.      *)
Chained ==
    /\ \A k \in 1..Len(stack) : stack[k].of \notin DOMAIN resolved
    /\ \A j, k \in 1..Len(stack) : j < k =>
          /\ stack[j].of # stack[k].of
          /\ stack[k].of \in Reach(Needs(stack[j].of))
    /\ \A k \in 1..Len(stack) :
          /\ Len(stack[k].done) <= Len(Declaration(stack[k].of).operands)
          /\ Stand(stack[k].of, stack[k].done)
    /\ \A k \in 1..Len(stack) - 1 :
          /\ Len(stack[k].done) < Len(Declaration(stack[k].of).operands)
          /\ Lookup(stack[k].of[1], Declaration(stack[k].of).operands[Len(stack[k].done) + 1])
                 = stack[k + 1].of
          /\ stack[k + 1].caller = stack[k].of[1]
    /\ stack # <<>> => current = Top.of[1]

(* What has a value has it from values of its operands, is quiet for a     *)
(* circle alone, and depends on the running program for a reason.          *)
Loud(c) ==
    \E d \in Reach({c}) :
        \/ \E k \in DOMAIN Declaration(d).operands : Declaration(d).operands[k] = "call"
        \/ Declaration(d).operation = "index"
Judged ==
    /\ \A c \in DOMAIN resolved :
          /\ \E values \in Seq(Values) :
                /\ Len(values) = Len(Declaration(c).operands)
                /\ Stand(c, values)
                /\ resolved[c] = Apply(Declaration(c).operation, values)
          /\ resolved[c].quiet => NeedsCircle(c)
          /\ resolved[c].state = "runtime" /\ ~resolved[c].quiet => Loud(c)
    /\ invalid = {c \in DOMAIN resolved : resolved[c].state = "runtime" /\ ~resolved[c].quiet}

(* Some constant of any that have a value had it first, and was given      *)
(* those of the others that it needs by a report.                          *)
Ordered ==
    /\ \A c \in circular : OnCircle(c)
    /\ \A some \in SUBSET DOMAIN resolved : some # {} =>
          \E c \in some : Needs(c) \cap some \subseteq circular
    /\ \A k \in 1..(next - 1) : script[k].of \in DOMAIN resolved \cup Resolving

IInv == TypeInv /\ Chained /\ Judged /\ Ordered

(***************************************************************************)
(* What is needed.                                                         *)
(***************************************************************************)

LEMMA Declared ==
  ASSUME TypeInv
  PROVE  /\ \A c \in Constants : Declaration(c) \in Declarations /\ Declaration(c).of = c
         /\ \A c \in Constants : Declaration(c).operation = "name"
                                   => Len(Declaration(c).operands) = 1
         /\ \A k \in 1..Len(script) : script[k].of \in Constants
         /\ script \in Seq(Declarations)
<1>1. /\ script \in Seq(Declarations)
      /\ \A k \in DOMAIN script : script[k].operation = "name" => Len(script[k].operands) = 1
  BY ScriptsAssumption DEF TypeInv
<1>2. \A k \in DOMAIN script : script[k] \in Declarations
  BY <1>1
<1>3. \A c \in Constants : \E k \in DOMAIN script : script[k].of = c
  BY DEF Constants
<1>4. \A k \in 1..Len(script) : script[k].of \in Constants
  BY <1>1 DEF Constants
<1>5. ASSUME NEW c \in Constants
      PROVE  /\ Declaration(c) \in Declarations /\ Declaration(c).of = c
             /\ Declaration(c).operation = "name" => Len(Declaration(c).operands) = 1
  <2> DEFINE k == CHOOSE n \in DOMAIN script : script[n].of = c
  <2>1. k \in DOMAIN script /\ script[k].of = c
    BY <1>3
  <2>2. Declaration(c) = script[k]
    BY DEF Declaration
  <2> HIDE DEF k
  <2> QED
    BY <1>1, <1>2, <2>1, <2>2
<1> QED
  BY <1>1, <1>4, <1>5

(* A constant is a pair, so that <<>> is none, and it has no name of what  *)
(* is no constant.                                                         *)
LEMMA Named ==
  ASSUME TypeInv
  PROVE  /\ Constants \subseteq Classes \X (STRING \ Others)
         /\ \A c \in Constants : c # <<>> /\ c[1] \in Classes
<1>1. \A c \in Constants : Declaration(c) \in Declarations /\ Declaration(c).of = c
  BY Declared
<1>2. \A d \in Declarations : d.of \in Classes \X (STRING \ Others)
  BY DEF Declarations, Classes
<1>3. Constants \subseteq Classes \X (STRING \ Others)
  BY <1>1, <1>2
<1>4. ASSUME NEW c \in Classes \X (STRING \ Others) PROVE c # <<>> /\ c[1] \in Classes
  <2>1. c[1] \in Classes
    BY <1>4
  <2>2. Len(c) = 2 /\ Len(<<>>) = 0
    BY <1>4
  <2> QED
    BY <2>1, <2>2
<1> QED
  BY <1>3, <1>4

LEMMA LookedUp ==
  ASSUME TypeInv, NEW c \in Constants
  PROVE  /\ \A name : Lookup(c[1], name) \in Constants \cup {<<>>}
         /\ \A k \in DOMAIN Declaration(c).operands :
               Lookup(c[1], Declaration(c).operands[k]) # <<>>
                  => Lookup(c[1], Declaration(c).operands[k]) \in Needs(c)
         /\ Needs(c) \subseteq Constants
         /\ \A t \in Needs(c) : \E k \in DOMAIN Declaration(c).operands :
               t = Lookup(c[1], Declaration(c).operands[k])
<1>1. \A name : Lookup(c[1], name) \in Constants \cup {<<>>}
  BY DEF Lookup
<1> QED
  BY <1>1 DEF Needs

LEMMA ReachLeast ==
  ASSUME NEW set, NEW all, all \subseteq Constants, set \subseteq all,
         \A c \in all : Needs(c) \subseteq all
  PROVE  Reach(set) \subseteq all
  BY DEF Reach

LEMMA ReachIn ==
  ASSUME NEW set, set \subseteq Constants
  PROVE  set \subseteq Reach(set) /\ Reach(set) \subseteq Constants
  BY DEF Reach

LEMMA ReachClosed ==
  ASSUME TypeInv, NEW set, NEW c \in Reach(set)
  PROVE  Needs(c) \subseteq Reach(set)
<1>1. c \in Constants /\ Needs(c) \subseteq Constants
  BY LookedUp DEF Reach
<1> QED
  BY <1>1 DEF Reach

LEMMA ReachOn ==
  ASSUME TypeInv, NEW set, NEW d \in Reach(set)
  PROVE  Reach({d}) \subseteq Reach(set) /\ Reach(Needs(d)) \subseteq Reach(set)
<1>1. Reach(set) \subseteq Constants
  BY DEF Reach
<1>2. \A c \in Reach(set) : Needs(c) \subseteq Reach(set)
  BY ReachClosed
<1>3. {d} \subseteq Reach(set) /\ Needs(d) \subseteq Reach(set)
  BY <1>2
<1> QED
  BY <1>1, <1>2, <1>3, ReachLeast

(* What a constant reaches is itself, or what it needs reaches it.         *)
LEMMA ReachFirst ==
  ASSUME TypeInv, NEW d \in Constants, NEW e \in Reach({d}), e # d
  PROVE  e \in Reach(Needs(d))
<1> DEFINE all == {d} \cup Reach(Needs(d))
<1>1. Needs(d) \subseteq Reach(Needs(d)) /\ Reach(Needs(d)) \subseteq Constants
  BY LookedUp, ReachIn
<1>2. \A c \in all : Needs(c) \subseteq all
  BY <1>1, ReachClosed
<1>3. Reach({d}) \subseteq all
  BY <1>1, <1>2, ReachLeast
<1> QED
  BY <1>3

(* What is reached from some is reached from one of them.                  *)
LEMMA ReachFromOne ==
  ASSUME TypeInv, NEW set, set \subseteq Constants, NEW e \in Reach(set)
  PROVE  \E d \in set : e \in Reach({d})
<1> DEFINE all == {c \in Constants : \E d \in set : c \in Reach({d})}
<1>1. ASSUME NEW d \in set PROVE d \in Reach({d})
  BY ReachIn
<1>2. set \subseteq all
  BY <1>1
<1>3. ASSUME NEW c \in all PROVE Needs(c) \subseteq all
  <2>1. PICK d \in set : c \in Reach({d})
    OBVIOUS
  <2>2. Needs(c) \subseteq Reach({d}) /\ Reach({d}) \subseteq Constants
    BY <2>1, ReachClosed, ReachIn
  <2> QED
    BY <2>2
<1>4. Reach(set) \subseteq all
  BY <1>2, <1>3, ReachLeast
<1> QED
  BY <1>4

(* Who needs what needs a circle needs it too, and what is loud is heard.  *)
LEMMA ThroughNeeds ==
  ASSUME TypeInv, NEW c \in Constants, NEW t \in Needs(c)
  PROVE  /\ t \in Constants /\ t \in Reach({c}) /\ t \in Reach(Needs(c))
         /\ OnCircle(t) => NeedsCircle(c)
         /\ NeedsCircle(t) => NeedsCircle(c)
         /\ Loud(t) => Loud(c)
<1>1. Needs(c) \subseteq Constants
  BY LookedUp
<1>2. c \in Reach({c})
  BY ReachIn
<1>3. t \in Reach({c})
  BY <1>2, ReachClosed
<1>4. t \in Reach(Needs(c))
  BY <1>1, ReachIn
<1>5. Reach({t}) \subseteq Reach({c})
  BY <1>3, ReachOn
<1> QED
  BY <1>1, <1>3, <1>4, <1>5 DEF NeedsCircle, Loud

(***************************************************************************)
(* Values.                                                                 *)
(***************************************************************************)

LEMMA ValuesTyped ==
  /\ Literal \in Values /\ Call \in Values /\ Missing \in Values /\ Cycle \in Values
  /\ \A name : Other(name) \in Values
  /\ ~Literal.quiet /\ ~Call.quiet /\ ~Missing.quiet /\ Cycle.quiet
  /\ \A name : Other(name).state = "runtime" => name = "call"
  /\ \A name : ~Other(name).quiet
BY DEF Literal, Call, Missing, Cycle, Value, Values, Other

(* An operand is quiet for a circle, and runtime for a reason.             *)
LEMMA OperandJudged ==
  ASSUME TypeInv, Judged, \A d \in circular : OnCircle(d),
         NEW c \in Constants, NEW k \in DOMAIN Declaration(c).operands, NEW value,
         Stands(c, Declaration(c).operands[k], value)
  PROVE  /\ value \in Values
         /\ value.quiet => NeedsCircle(c)
         /\ value.state = "runtime" /\ ~value.quiet => Loud(c)
<1> DEFINE name == Declaration(c).operands[k]
           t == Lookup(c[1], name)
<1>1. CASE t = <<>>
  <2>1. value = Other(name)
    BY <1>1 DEF Stands
  <2>2. c \in Reach({c})
    BY ReachIn
  <2>3. name = "call" => Loud(c)
    BY <2>2 DEF Loud
  <2> QED
    BY <2>1, <2>3, ValuesTyped
<1>2. CASE t # <<>>
  <2>1. t \in Needs(c)
    BY <1>2, LookedUp
  <2>2. CASE t \in DOMAIN resolved /\ value = resolved[t]
    <3>1. /\ value \in Values
          /\ value.quiet => NeedsCircle(t)
          /\ value.state = "runtime" /\ ~value.quiet => Loud(t)
      BY <2>2 DEF TypeInv, Judged
    <3> QED
      BY <2>1, <3>1, ThroughNeeds
  <2>3. CASE t \in circular /\ value = Cycle
    <3>1. NeedsCircle(c)
      BY <2>1, <2>3, ThroughNeeds
    <3> QED
      BY <2>3, <3>1, ValuesTyped
  <2> QED
    BY <1>2, <2>2, <2>3 DEF Stands
<1> QED
  BY <1>1, <1>2

(* So is what an operation makes of them.                                  *)
LEMMA ResultJudged ==
  ASSUME TypeInv, Judged, \A d \in circular : OnCircle(d),
         NEW c \in Constants, NEW values \in Seq(Values),
         Len(values) = Len(Declaration(c).operands), Stand(c, values),
         NEW value, value = Apply(Declaration(c).operation, values)
  PROVE  /\ value \in Values
         /\ value.quiet => NeedsCircle(c)
         /\ value.state = "runtime" /\ ~value.quiet => Loud(c)
<1> DEFINE operation == Declaration(c).operation
<1>1. /\ Declaration(c).operands \in Seq(STRING)
      /\ operation = "name" => Len(Declaration(c).operands) = 1
  BY Declared DEF Declarations
<1>2. DOMAIN values = 1..Len(values) /\ DOMAIN Declaration(c).operands = 1..Len(values)
  BY <1>1
<1>3. \A k \in DOMAIN values :
          /\ values[k] \in Values
          /\ values[k].quiet => NeedsCircle(c)
          /\ values[k].state = "runtime" /\ ~values[k].quiet => Loud(c)
  BY <1>2, OperandJudged DEF Stand
<1>4. CASE operation = "name"
  <2>1. value = values[1]
    BY <1>4 DEF Apply
  <2>2. Len(values) = 1
    BY <1>1, <1>4
  <2>3. 1 \in DOMAIN values
    BY <1>2, <2>2
  <2> QED
    BY <1>3, <2>1, <2>3
<1>5. CASE operation # "name" /\ value = Missing
  BY <1>5, ValuesTyped DEF Missing, Value
<1>6. CASE operation # "name" /\ value # Missing
  <2> DEFINE quiet == operation # "index" /\ \E k \in DOMAIN values : values[k].quiet
  <2>1. value = Value(Combined(values), TRUE, quiet)
    BY <1>6 DEF Apply
  <2>2. Combined(values) \in {"runtime", "unknown", "constant"}
    BY DEF Combined
  <2>3. value.state = Combined(values) /\ value.quiet = quiet /\ value \in Values
    BY <2>1, <2>2 DEF Value, Values
  <2>4. Combined(values) = "runtime" => \E k \in DOMAIN values : values[k].state = "runtime"
    BY DEF Combined
  <2>5. operation = "index" => Loud(c)
    <3>1. c \in Reach({c})
      BY ReachIn
    <3> QED
      BY <3>1 DEF Loud
  <2> QED
    BY <1>3, <2>3, <2>4, <2>5
<1> QED
  BY <1>4, <1>5, <1>6

(***************************************************************************)
(* What a step leaves as it is.                                            *)
(***************************************************************************)

LEMMA Rigid ==
  ASSUME script' = script
  PROVE  /\ Constants' = Constants /\ Frames' = Frames
         /\ \A c : Declaration(c)' = Declaration(c)
         /\ \A class, name : Lookup(class, name)' = Lookup(class, name)
         /\ \A c : Needs(c)' = Needs(c)
         /\ \A set : Reach(set)' = Reach(set)
         /\ \A c : OnCircle(c)' = OnCircle(c)
         /\ \A c : NeedsCircle(c)' = NeedsCircle(c)
         /\ \A c : Loud(c)' = Loud(c)
<1>1. Constants' = Constants /\ Frames' = Frames
  BY DEF Constants, Frames
<1>2. \A c : Declaration(c)' = Declaration(c)
  BY DEF Declaration
<1>3. \A class, name : Lookup(class, name)' = Lookup(class, name)
  BY <1>1 DEF Lookup
<1>4. \A c : Needs(c)' = Needs(c)
  BY <1>2, <1>3 DEF Needs
<1>5. \A set : Reach(set)' = Reach(set)
  BY <1>1, <1>4 DEF Reach
<1>6. \A c : OnCircle(c)' = OnCircle(c)
  BY <1>4, <1>5 DEF OnCircle
<1>7. \A c : NeedsCircle(c)' = NeedsCircle(c)
  BY <1>5, <1>6 DEF NeedsCircle
<1>8. \A c : Loud(c)' = Loud(c)
  BY <1>2, <1>5 DEF Loud
<1> QED
  BY <1>1, <1>2, <1>3, <1>4, <1>5, <1>6, <1>7, <1>8

(* Values and reports are never taken back.                                *)
Grows ==
    /\ script' = script
    /\ circular \subseteq circular'
    /\ \A c \in DOMAIN resolved : c \in DOMAIN resolved' /\ resolved'[c] = resolved[c]

LEMMA StandsOn ==
  ASSUME Grows
  PROVE  /\ \A c, name, value : Stands(c, name, value) => Stands(c, name, value)'
         /\ \A c, values : Stand(c, values) => Stand(c, values)'
<1>1. /\ \A class, name : Lookup(class, name)' = Lookup(class, name)
      /\ \A c : Declaration(c)' = Declaration(c)
  BY Rigid DEF Grows
<1>2. \A c, name, value : Stands(c, name, value) => Stands(c, name, value)'
  BY <1>1 DEF Stands, Grows
<1>3. \A c, values : Stand(c, values) => Stand(c, values)'
  BY <1>1, <1>2 DEF Stand
<1> QED
  BY <1>2, <1>3

LEMMA JudgedOn ==
  ASSUME Grows, Judged, resolved' = resolved, invalid' = invalid
  PROVE  Judged'
<1>1. /\ \A c : Declaration(c)' = Declaration(c) /\ NeedsCircle(c)' = NeedsCircle(c)
      /\ \A c : Loud(c)' = Loud(c)
  BY Rigid DEF Grows
<1>2. ASSUME NEW c \in DOMAIN resolved'
      PROVE  /\ \E values \in Seq(Values) :
                   /\ Len(values) = Len(Declaration(c).operands)
                   /\ Stand(c, values)'
                   /\ resolved[c] = Apply(Declaration(c).operation, values)
             /\ resolved'[c].quiet => NeedsCircle(c)
             /\ resolved'[c].state = "runtime" /\ ~resolved'[c].quiet => Loud(c)
  BY <1>2, StandsOn DEF Judged
<1> QED
  BY <1>1, <1>2 DEF Judged

(***************************************************************************)
(* The stack.                                                              *)
(***************************************************************************)

LEMMA Parts ==
  ASSUME TypeInv, stack # <<>>
  PROVE  /\ Len(stack) \in Nat \ {0} /\ Top \in Frames
         /\ Top.of \in Constants /\ Top.done \in Seq(Values) /\ Len(Top.done) \in Nat
         /\ Top.caller \in Classes \cup {""}
         /\ Below \in Seq(Frames) /\ Len(Below) = Len(stack) - 1
         /\ \A k \in 1..(Len(stack) - 1) : Below[k] = stack[k]
<1>1. stack \in Seq(Frames) /\ Len(stack) \in Nat \ {0}
  BY EmptySeq, LenProperties DEF TypeInv
<1>2. Top \in Frames
  BY <1>1, ElementOfSeq DEF Top
<1>3. /\ Top.of \in Constants /\ Top.done \in Seq(Values) /\ Len(Top.done) \in Nat
      /\ Top.caller \in Classes \cup {""}
  BY <1>2, LenProperties DEF Frames
<1>4. /\ Below \in Seq(Frames) /\ Len(Below) = Len(stack) - 1
      /\ \A k \in 1..(Len(stack) - 1) : Below[k] = stack[k]
  <2>1. \A k \in 1..(Len(stack) - 1) : stack[k] \in Frames
    BY <1>1, ElementOfSeq
  <2>2. 1 \in Int /\ Len(stack) - 1 \in Int
    BY <1>1
  <2>3. /\ SubSeq(stack, 1, Len(stack) - 1) \in Seq(Frames)
        /\ Len(SubSeq(stack, 1, Len(stack) - 1))
               = IF 1 <= Len(stack) - 1 THEN (Len(stack) - 1) - 1 + 1 ELSE 0
        /\ \A k \in 1..(Len(stack) - 1) - 1 + 1 :
              SubSeq(stack, 1, Len(stack) - 1)[k] = stack[1 + k - 1]
    BY <2>1, <2>2, SubSeqProperties
  <2>4. ASSUME NEW k \in 1..(Len(stack) - 1)
        PROVE  k \in 1..(Len(stack) - 1) - 1 + 1 /\ 1 + k - 1 = k
    BY <1>1
  <2>5. Below = SubSeq(stack, 1, Len(stack) - 1)
    BY DEF Below
  <2> HIDE DEF Below
  <2>6. Len(Below) = Len(stack) - 1
    <3>1. Len(Below) = IF 1 <= Len(stack) - 1 THEN (Len(stack) - 1) - 1 + 1 ELSE 0
      BY <2>3, <2>5
    <3> DEFINE n == Len(stack)
    <3>2. n \in Nat /\ n > 0
      BY <1>1
    <3> HIDE DEF n
    <3>3. (IF 1 <= n - 1 THEN (n - 1) - 1 + 1 ELSE 0) = n - 1
      BY <3>2
    <3> QED
      BY <3>1, <3>3 DEF n
  <2>7. \A k \in 1..(Len(stack) - 1) : Below[k] = stack[k]
    BY <2>3, <2>4, <2>5
  <2> QED
    BY <2>3, <2>5, <2>6, <2>7
<1> QED
  BY <1>1, <1>2, <1>3, <1>4

LEMMA Pushed ==
  ASSUME NEW S, NEW s \in Seq(S), NEW x \in S
  PROVE  /\ Append(s, x) \in Seq(S) /\ Len(s) \in Nat /\ Len(Append(s, x)) = Len(s) + 1
         /\ \A k \in 1..Len(s) : Append(s, x)[k] = s[k]
         /\ Append(s, x)[Len(s) + 1] = x
  BY AppendProperties, LenProperties

(* The topmost is given a value for its next operand.                      *)
LEMMA GivenTop ==
  ASSUME TypeInv, stack # <<>>, NEW value \in Values,
         NEW given, given = Append(Below, [Top EXCEPT !.done = Append(Top.done, value)])
  PROVE  /\ given \in Seq(Frames) /\ Len(given) = Len(stack)
         /\ \A k \in 1..(Len(stack) - 1) : given[k] = stack[k]
         /\ \A k \in 1..Len(stack) : /\ given[k].of = stack[k].of
                                     /\ given[k].caller = stack[k].caller
         /\ given[Len(stack)].done = Append(Top.done, value)
<1> DEFINE x == [Top EXCEPT !.done = Append(Top.done, value)]
           n == Len(stack)
<1>1. Append(Top.done, value) \in Seq(Values)
  BY Parts, AppendProperties
<1>2. x \in Frames /\ x.of = Top.of /\ x.caller = Top.caller /\ x.done = Append(Top.done, value)
  BY <1>1, Parts DEF Frames
<1> HIDE DEF x
<1>3. /\ Below \in Seq(Frames) /\ Len(Below) = n - 1 /\ n \in Nat \ {0} /\ Top = stack[n]
      /\ \A k \in 1..(n - 1) : Below[k] = stack[k]
  BY Parts DEF Top
<1>4. /\ Append(Below, x) \in Seq(Frames) /\ Len(Append(Below, x)) = Len(Below) + 1
      /\ \A k \in 1..Len(Below) : Append(Below, x)[k] = Below[k]
      /\ Append(Below, x)[Len(Below) + 1] = x
  BY <1>2, <1>3, Pushed
<1>5. given = Append(Below, x)
  BY DEF x
<1>6. Len(given) = n /\ \A k \in 1..(n - 1) : given[k] = stack[k]
  BY <1>3, <1>4, <1>5
<1>7. given[n] = x
  BY <1>3, <1>4, <1>5
<1>8. ASSUME NEW k \in 1..n PROVE given[k].of = stack[k].of /\ given[k].caller = stack[k].caller
  <2>1. CASE k = n
    BY <1>2, <1>3, <1>7, <2>1
  <2>2. CASE k # n
    BY <1>3, <1>6, <2>2
  <2> QED
    BY <2>1, <2>2
<1> QED
  BY <1>2, <1>4, <1>5, <1>6, <1>7, <1>8

(* Nothing is evaluated that is not on the stack.                          *)
LEMMA ResolvingSame ==
  ASSUME NEW given, given \in Seq(Frames), stack \in Seq(Frames), Len(given) = Len(stack),
         \A k \in 1..Len(stack) : given[k].of = stack[k].of
  PROVE  {given[k].of : k \in DOMAIN given} = Resolving
<1>1. DOMAIN given = 1..Len(stack) /\ DOMAIN stack = 1..Len(stack)
  OBVIOUS
<1> QED
  BY <1>1 DEF Resolving

(* An operand is evaluated without another constant, or by its value.      *)
LEMMA GivenStep ==
  ASSUME TypeInv, Chained, Open, NEW value \in Values, Yields(value), Kept,
         circular \subseteq circular', circular' \subseteq Constants,
         NEW c, c = Top.of, NEW name, name = Operand, Stands(c, name, value)'
  PROVE  TypeInv' /\ Chained' /\ Resolving' = Resolving
<1> DEFINE n == Len(stack)
           done == Append(Top.done, value)
<1>1. /\ stack # <<>> /\ Len(Top.done) < Len(Operands)
      /\ script' = script /\ next' = next /\ current' = current /\ resolved' = resolved
  BY DEF Open, Kept
<1>2. stack' = Append(Below, [Top EXCEPT !.done = Append(Top.done, value)])
  BY DEF Yields
<1>3. /\ stack' \in Seq(Frames) /\ Len(stack') = n
      /\ \A k \in 1..(n - 1) : stack'[k] = stack[k]
      /\ \A k \in 1..n : stack'[k].of = stack[k].of /\ stack'[k].caller = stack[k].caller
      /\ stack'[n].done = done
  BY <1>1, <1>2, GivenTop
<1>4. /\ n \in Nat \ {0} /\ Top = stack[n] /\ c \in Constants
      /\ Top.done \in Seq(Values) /\ Len(Top.done) \in Nat
  BY <1>1, Parts DEF Top
<1>5. Resolving' = Resolving
  BY <1>3, ResolvingSame DEF TypeInv, Resolving
<1>6. /\ Constants' = Constants /\ Frames' = Frames
      /\ \A d : Declaration(d)' = Declaration(d)
      /\ \A class, m : Lookup(class, m)' = Lookup(class, m)
      /\ \A d : Needs(d)' = Needs(d) /\ \A set : Reach(set)' = Reach(set)
  BY <1>1, Rigid
<1>7. TypeInv'
  BY <1>1, <1>3, <1>6 DEF TypeInv
<1>8. \A d, values : Stand(d, values) => Stand(d, values)'
  BY <1>1, StandsOn DEF Grows
<1>9. /\ Len(done) = Len(Top.done) + 1 /\ done[Len(Top.done) + 1] = value
      /\ \A m \in 1..Len(Top.done) : done[m] = Top.done[m]
  BY <1>4, Pushed
<1>10. /\ Len(done) <= Len(Declaration(c).operands)
       /\ \A values : values = done => Stand(c, values)'
  <2>1. Operands = Declaration(c).operands /\ name = Declaration(c).operands[Len(Top.done) + 1]
    BY DEF Operands, Operand
  <2>2. Len(Declaration(c).operands) \in Nat
    <3>1. Declaration(c).operands \in Seq(STRING)
      BY <1>4, Declared DEF Declarations
    <3> QED
      BY <3>1, LenProperties
  <2>3. Stand(c, Top.done)
    BY <1>4 DEF Chained
  <2>4. Len(done) <= Len(Declaration(c).operands)
    BY <1>1, <1>4, <1>9, <2>1, <2>2
  <2> HIDE DEF done
  <2>5. ASSUME NEW values, values = done PROVE Stand(c, values)'
    <3>1. ASSUME NEW m \in 1..Len(values), NEW operand, operand = Declaration(c).operands[m]
          PROVE  Stands(c, operand, values[m])'
      <4>1. CASE m = Len(Top.done) + 1
        <5>1. operand = name /\ values[m] = value
          BY <1>9, <2>1, <2>5, <3>1, <4>1
        <5> QED
          BY <5>1
      <4>2. CASE m # Len(Top.done) + 1
        <5>1. m \in 1..Len(Top.done) /\ values[m] = Top.done[m]
          BY <1>4, <1>9, <2>5, <4>2
        <5>2. Stands(c, operand, values[m])
          BY <2>3, <3>1, <5>1 DEF Stand
        <5> QED
          BY <1>1, <5>2, StandsOn DEF Grows
      <4> QED
        BY <4>1, <4>2
    <3> QED
      BY <1>6, <3>1 DEF Stand
  <2> QED
    BY <2>4, <2>5
<1> HIDE DEF done
<1>11. ASSUME NEW k \in 1..n, NEW d, d = stack'[k].of, NEW values, values = stack'[k].done
       PROVE  Len(values) <= Len(Declaration(d).operands) /\ Stand(d, values)'
  <2>1. CASE k = n
    <3>1. d = c /\ values = done
      BY <1>3, <1>4, <1>11, <2>1
    <3> QED
      BY <1>10, <3>1
  <2>2. CASE k # n
    <3>1. d = stack[k].of /\ values = stack[k].done
      BY <1>3, <1>4, <1>11, <2>2
    <3>2. Len(values) <= Len(Declaration(d).operands) /\ Stand(d, values)
      BY <3>1 DEF Chained
    <3> QED
      BY <1>8, <3>2
  <2> QED
    BY <2>1, <2>2
<1>12. ASSUME NEW k \in 1..n - 1
       PROVE  /\ Len(stack'[k].done) < Len(Declaration(stack'[k].of).operands)
              /\ Lookup(stack'[k].of[1], Declaration(stack'[k].of).operands[Len(stack'[k].done) + 1])
                     = stack'[k + 1].of
              /\ stack'[k + 1].caller = stack'[k].of[1]
  <2>1. stack'[k] = stack[k] /\ k + 1 \in 1..n
    BY <1>3, <1>4
  <2>2. stack'[k + 1].of = stack[k + 1].of /\ stack'[k + 1].caller = stack[k + 1].caller
    BY <1>3, <2>1
  <2> QED
    BY <2>1, <2>2 DEF Chained
<1>13. current' = stack'[Len(stack')].of[1]
  BY <1>1, <1>3, <1>4 DEF Chained
<1>14. Chained'
  <2>1. \A k \in 1..n : stack'[k].of \notin DOMAIN resolved'
    BY <1>1, <1>3 DEF Chained
  <2>2. \A j, k \in 1..n : j < k => /\ stack'[j].of # stack'[k].of
                                  /\ stack'[k].of \in Reach(Needs(stack'[j].of))
    BY <1>3 DEF Chained
  <2>3. \A k \in 1..n : /\ Len(stack'[k].done) <= Len(Declaration(stack'[k].of).operands)
                        /\ Stand(stack[k].of, stack[k].done)'
    BY <1>11
  <2> QED
    BY <1>3, <1>6, <1>12, <1>13, <2>1, <2>2, <2>3 DEF Chained, Top
<1> QED
  BY <1>5, <1>7, <1>14

(***************************************************************************)
(* The steps.                                                              *)
(***************************************************************************)

(* Another value for an operand takes nothing back.                        *)
LEMMA OrderedOn ==
  ASSUME TypeInv, Ordered, script' = script, next' = next, resolved' = resolved,
         circular \subseteq circular', Resolving \subseteq Resolving',
         \A c \in circular' \ circular : OnCircle(c)
  PROVE  Ordered'
<1>1. /\ \A c : Needs(c)' = Needs(c)
      /\ \A c : OnCircle(c)' = OnCircle(c)
  BY Rigid
<1>2. \A c \in circular' : OnCircle(c)
  BY DEF Ordered
<1>3. \A some \in SUBSET DOMAIN resolved : some # {} =>
          \E c \in some : Needs(c) \cap some \subseteq circular'
  BY DEF Ordered
<1>4. \A k \in 1..(next - 1) : script[k].of \in DOMAIN resolved \cup Resolving'
  BY DEF Ordered
<1> QED
  BY <1>1, <1>2, <1>3, <1>4 DEF Ordered

LEMMA OperandStep ==
  ASSUME IInv, Open, NEW value \in Values, Yields(value), Kept,
         circular \subseteq circular', circular' \subseteq Constants,
         \A d \in circular' \ circular : OnCircle(d),
         NEW c, c = Top.of, NEW name, name = Operand, Stands(c, name, value)'
  PROVE  IInv'
<1>1. script' = script /\ next' = next /\ resolved' = resolved /\ invalid' = invalid
  BY DEF Kept
<1>2. TypeInv' /\ Chained' /\ Resolving' = Resolving
  BY GivenStep DEF IInv
<1>3. Judged'
  BY <1>1, JudgedOn DEF IInv, Grows
<1>4. Ordered'
  BY <1>1, <1>2, OrderedOn DEF IInv
<1> QED
  BY <1>2, <1>3, <1>4 DEF IInv

(* What is looked at is the next operand of the topmost, in its class.     *)
LEMMA Looked ==
  ASSUME IInv, Open
  PROVE  /\ stack # <<>> /\ Top.of \in Constants /\ current = Top.of[1]
         /\ Target = Lookup(Top.of[1], Operand)
         /\ Target # <<>> => Target \in Needs(Top.of) /\ Target \in Constants
<1>1. stack # <<>> /\ Len(Top.done) < Len(Operands)
  BY DEF Open
<1>2. Top.of \in Constants /\ Len(Top.done) \in Nat
  BY <1>1, Parts DEF IInv
<1>3. current = Top.of[1]
  BY <1>1 DEF IInv, Chained
<1>4. Target = Lookup(Top.of[1], Operand)
  BY <1>3 DEF Target
<1>5. Operands = Declaration(Top.of).operands /\ Operands \in Seq(STRING)
  BY <1>2, Declared DEF Operands, Declarations, IInv
<1>6. Len(Top.done) + 1 \in DOMAIN Operands
  BY <1>1, <1>2, <1>5
<1>7. Target # <<>> => Target \in Needs(Top.of)
  BY <1>2, <1>4, <1>5, <1>6, LookedUp DEF Operand, IInv
<1>8. Needs(Top.of) \subseteq Constants
  BY <1>2, LookedUp DEF IInv
<1> QED
  BY <1>1, <1>2, <1>3, <1>4, <1>7, <1>8

LEMMA OtherStep ==
  ASSUME IInv, EvaluateOther PROVE IInv'
<1>1. /\ Open /\ Yields(Other(Operand)) /\ Kept /\ circular' = circular
      /\ Target = <<>> /\ script' = script /\ resolved' = resolved
  BY DEF EvaluateOther, Kept
<1>2. PICK c, name, value : c = Top.of /\ name = Operand /\ value = Other(name)
  OBVIOUS
<1>3. Stands(c, name, value)
  BY <1>1, <1>2, Looked DEF Stands
<1>4. Stands(c, name, value)'
  BY <1>1, <1>3, StandsOn DEF Grows
<1>5. value \in Values /\ Yields(value)
  BY <1>1, <1>2, ValuesTyped
<1> QED
  BY <1>1, <1>2, <1>4, <1>5, OperandStep DEF IInv, TypeInv

LEMMA KnownStep ==
  ASSUME IInv, EvaluateKnown PROVE IInv'
<1>1. /\ Open /\ Yields(resolved[Target]) /\ Kept /\ circular' = circular
      /\ Target # <<>> /\ Target \in DOMAIN resolved
      /\ script' = script /\ resolved' = resolved
  BY DEF EvaluateKnown, IsConstant, Kept
<1>2. PICK c, name, value : c = Top.of /\ name = Operand /\ value = resolved[Target]
  OBVIOUS
<1>3. Stands(c, name, value)
  BY <1>1, <1>2, Looked DEF Stands
<1>4. Stands(c, name, value)'
  BY <1>1, <1>3, StandsOn DEF Grows
<1>5. value \in Values /\ Yields(value)
  BY <1>1, <1>2 DEF IInv, TypeInv
<1> QED
  BY <1>1, <1>2, <1>4, <1>5, OperandStep DEF IInv, TypeInv

(* Whoever is on the stack is reached from whoever is below it, and needs  *)
(* itself when it is needed by the topmost.                                *)
LEMMA CycleStep ==
  ASSUME IInv, EvaluateCycle PROVE IInv'
<1>1. /\ Open /\ Yields(Cycle) /\ Kept /\ circular' = circular \cup {Target}
      /\ Target # <<>> /\ Target \notin DOMAIN resolved /\ Target \in Resolving
      /\ script' = script /\ resolved' = resolved
  BY DEF EvaluateCycle, IsConstant, Kept
<1>2. PICK c, name, value, t : c = Top.of /\ name = Operand /\ value = Cycle /\ t = Target
  OBVIOUS
<1>3. /\ c \in Constants /\ t \in Constants /\ t \in Needs(c) /\ t # <<>>
      /\ t = Lookup(c[1], name)
  BY <1>1, <1>2, Looked
<1>4. OnCircle(t)
  <2>0. TypeInv /\ stack # <<>> /\ stack \in Seq(Frames)
    BY <1>1 DEF Open, IInv, TypeInv
  <2>1. PICK j \in 1..Len(stack) : stack[j].of = t
    <3>1. DOMAIN stack = 1..Len(stack)
      BY <2>0
    <3>2. t \in {stack[k].of : k \in 1..Len(stack)}
      BY <1>1, <1>2, <3>1 DEF Resolving
    <3> QED
      BY <3>2
  <2>2. Len(stack) \in Nat /\ c = stack[Len(stack)].of /\ Len(stack) \in 1..Len(stack)
    <3>1. Len(stack) \in Nat \ {0}
      BY <2>0, Parts
    <3>2. c = stack[Len(stack)].of
      BY <1>2 DEF Top
    <3> QED
      BY <3>1, <3>2
  <2>3. CASE j = Len(stack)
    <3>1. t = c
      BY <2>1, <2>2, <2>3
    <3> QED
      BY <1>3, <3>1, ThroughNeeds DEF OnCircle, IInv
  <2>4. CASE j # Len(stack)
    <3>1. c \in Reach(Needs(t))
      BY <2>1, <2>2, <2>4 DEF IInv, Chained
    <3>2. Needs(c) \subseteq Reach(Needs(t))
      BY <3>1, ReachClosed DEF IInv
    <3> QED
      BY <1>3, <3>2 DEF OnCircle
  <2> QED
    BY <2>3, <2>4
<1>5. Stands(c, name, value)'
  <2>1. Lookup(c[1], name)' = t
    BY <1>1, <1>3, Rigid
  <2> QED
    BY <1>1, <1>2, <1>3, <2>1 DEF Stands, Cycle, Value
<1>6. value \in Values /\ Yields(value)
  BY <1>1, <1>2, ValuesTyped
<1>7. circular \subseteq circular' /\ circular' \subseteq Constants
  BY <1>1, <1>2, <1>3 DEF IInv, TypeInv
<1>8. \A d \in circular' \ circular : OnCircle(d)
  BY <1>1, <1>2, <1>4
<1> QED
  BY <1>1, <1>2, <1>5, <1>6, <1>7, <1>8, OperandStep

(* The topmost is new, and is waited for by the one it is pushed on.       *)
LEMMA PushStep ==
  ASSUME TypeInv, Chained, NEW t \in Constants, t \notin DOMAIN resolved, t \notin Resolving,
         stack # <<>> =>
             /\ Len(Top.done) < Len(Operands) /\ t = Lookup(Top.of[1], Operand)
             /\ t \in Needs(Top.of),
         stack' = Append(stack, Frame(t)), current' = t[1],
         script' = script, next' \in 1..(Len(script) + 1), resolved' = resolved,
         circular' = circular
  PROVE  TypeInv' /\ Chained' /\ Resolving' = Resolving \cup {t}
<1> DEFINE n == Len(stack)
<1>1. /\ Frame(t).of = t /\ Frame(t).done = <<>> /\ Frame(t).caller = current
      /\ Frame(t) \in Frames
  <2>1. <<>> \in Seq(Values) /\ current \in Classes \cup {""}
    BY EmptySeq DEF TypeInv
  <2> QED
    BY <2>1 DEF Frame, Frames
<1>2. /\ stack \in Seq(Frames) /\ n \in Nat /\ DOMAIN stack = 1..n
      /\ \A k \in 1..n : stack[k].of # t
  <2>1. stack \in Seq(Frames) /\ n \in Nat /\ DOMAIN stack = 1..n
    BY LenProperties DEF TypeInv
  <2> QED
    BY <2>1 DEF Resolving
<1>3. /\ stack' \in Seq(Frames) /\ Len(stack') = n + 1
      /\ \A k \in 1..n : stack'[k] = stack[k]
      /\ stack'[n + 1] = Frame(t)
  BY <1>1, <1>2, Pushed
<1>4. /\ Constants' = Constants /\ Frames' = Frames
      /\ \A d : Declaration(d)' = Declaration(d)
      /\ \A class, m : Lookup(class, m)' = Lookup(class, m)
      /\ \A d : Needs(d)' = Needs(d) /\ \A set : Reach(set)' = Reach(set)
  BY Rigid
<1>5. TypeInv'
  <2>1. t[1] \in Classes
    BY Named
  <2> QED
    BY <1>3, <1>4, <2>1 DEF TypeInv
<1>6. Resolving' = Resolving \cup {t}
  <2>1. DOMAIN stack' = 1..n + 1
    BY <1>3
  <2>2. \A k \in 1..n + 1 : k \in 1..n \/ k = n + 1
    BY <1>2
  <2>3. n + 1 \in 1..n + 1 /\ \A k \in 1..n : k \in 1..n + 1
    BY <1>2
  <2>4. \A k \in 1..n : stack'[k].of = stack[k].of
    BY <1>3
  <2>5. stack'[n + 1].of = t
    BY <1>1, <1>3
  <2>6. Resolving' = {stack'[k].of : k \in 1..n + 1} /\ Resolving = {stack[k].of : k \in 1..n}
    BY <1>2, <2>1 DEF Resolving
  <2> QED
    BY <2>2, <2>3, <2>4, <2>5, <2>6
<1>7. \A k \in 1..n + 1 : stack'[k].of \notin DOMAIN resolved'
  <2> SUFFICES ASSUME NEW k \in 1..n + 1 PROVE stack'[k].of \notin DOMAIN resolved
    OBVIOUS
  <2>1. CASE k = n + 1
    BY <1>1, <1>3, <2>1
  <2>2. CASE k # n + 1
    BY <1>2, <1>3, <2>2 DEF Chained
  <2> QED
    BY <2>1, <2>2
<1>8. ASSUME NEW j \in 1..n + 1, NEW k \in 1..n + 1, j < k
      PROVE  stack'[j].of # stack'[k].of /\ stack'[k].of \in Reach(Needs(stack'[j].of))
  <2>1. j \in 1..n /\ stack'[j] = stack[j] /\ stack # <<>> /\ n > 0
    <3>1. j \in 1..n /\ n > 0
      BY <1>2, <1>8
    <3> QED
      BY <1>3, <3>1
  <2>2. CASE k = n + 1
    <3>1. stack'[k].of = t /\ stack[j].of # t
      BY <1>1, <1>2, <1>3, <2>1, <2>2
    <3>2. Top = stack[n] /\ Top.of \in Constants /\ t \in Needs(Top.of)
      BY <2>1, Parts DEF Top
    <3>3. CASE j = n
      BY <2>1, <3>1, <3>2, <3>3, ThroughNeeds
    <3>4. CASE j # n
      <4>1. Top.of \in Reach(Needs(stack[j].of))
        <5>1. j \in 1..n /\ n \in 1..n /\ j < n
          <6>1. n \in Nat /\ n > 0 /\ j \in 1..n /\ j # n
            BY <1>2, <2>1, <3>4
          <6> HIDE DEF n
          <6> QED
            BY <6>1
        <5>2. stack[n].of \in Reach(Needs(stack[j].of))
          BY <5>1 DEF Chained
        <5> QED
          BY <3>2, <5>2
      <4>2. t \in Reach(Needs(stack[j].of))
        BY <3>2, <4>1, ReachClosed
      <4> QED
        BY <2>1, <3>1, <4>2
    <3> QED
      BY <3>3, <3>4
  <2>3. CASE k # n + 1
    <3>1. k \in 1..n /\ stack'[k] = stack[k]
      BY <1>2, <1>3, <2>3
    <3> QED
      BY <1>8, <2>1, <3>1 DEF Chained
  <2> QED
    BY <2>2, <2>3
<1>9. ASSUME NEW k \in 1..n + 1, NEW d, d = stack'[k].of, NEW values, values = stack'[k].done
      PROVE  Len(values) <= Len(Declaration(d).operands) /\ Stand(d, values)'
  <2>1. CASE k = n + 1
    <3>1. d = t /\ values = <<>>
      BY <1>1, <1>3, <1>9, <2>1
    <3>2. Len(Declaration(t).operands) \in Nat
      <4>1. Declaration(t).operands \in Seq(STRING)
        BY Declared DEF Declarations
      <4> QED
        BY <4>1, LenProperties
    <3>3. Len(values) = 0
      BY <3>1
    <3> QED
      BY <3>1, <3>2, <3>3 DEF Stand
  <2>2. CASE k # n + 1
    <3>1. k \in 1..n /\ d = stack[k].of /\ values = stack[k].done
      BY <1>2, <1>3, <1>9, <2>2
    <3>2. Len(values) <= Len(Declaration(d).operands) /\ Stand(d, values)
      BY <3>1 DEF Chained
    <3> QED
      BY <3>2, StandsOn DEF Grows
  <2> QED
    BY <2>1, <2>2
<1>10. ASSUME NEW k \in 1..n
       PROVE  /\ Len(stack'[k].done) < Len(Declaration(stack'[k].of).operands)
              /\ Lookup(stack'[k].of[1], Declaration(stack'[k].of).operands[Len(stack'[k].done) + 1])
                     = stack'[k + 1].of
              /\ stack'[k + 1].caller = stack'[k].of[1]
  <2>1. stack'[k] = stack[k]
    BY <1>3
  <2>2. CASE k = n
    <3>1. stack # <<>> /\ Top = stack[k] /\ stack'[k + 1] = Frame(t)
      BY <1>2, <1>3, <2>2 DEF Top
    <3>2. current = Top.of[1]
      BY <3>1 DEF Chained
    <3> QED
      BY <1>1, <2>1, <3>1, <3>2 DEF Operands, Operand
  <2>3. CASE k # n
    <3>1. k \in 1..n - 1 /\ k + 1 \in 1..n
      BY <1>2, <2>3
    <3>2. stack'[k + 1] = stack[k + 1]
      BY <1>3, <3>1
    <3> QED
      BY <2>1, <3>1, <3>2 DEF Chained
  <2> QED
    BY <2>2, <2>3
<1>11. Chained'
  <2>1. Len(stack') = n + 1 /\ (n + 1) - 1 = n /\ current' = stack'[n + 1].of[1]
    BY <1>1, <1>2, <1>3
  <2>2. \A k \in 1..n + 1 : /\ Len(stack'[k].done) <= Len(Declaration(stack'[k].of).operands)
                            /\ Stand(stack[k].of, stack[k].done)'
    BY <1>9
  <2> HIDE DEF n
  <2> QED
    BY <1>4, <1>7, <1>8, <1>10, <2>1, <2>2 DEF Chained, Top
<1> QED
  BY <1>5, <1>6, <1>11

(* Nothing has a value that has not been evaluated before.                 *)
LEMMA NewStep ==
  ASSUME IInv, EvaluateNew PROVE IInv'
<1>1. /\ Open /\ Target # <<>> /\ Target \notin DOMAIN resolved /\ Target \notin Resolving
      /\ stack' = Append(stack, Frame(Target)) /\ current' = Target[1]
      /\ script' = script /\ next' = next /\ resolved' = resolved
      /\ circular' = circular /\ invalid' = invalid
  BY DEF EvaluateNew, IsConstant
<1>2. PICK t : t = Target
  OBVIOUS
<1>3. /\ t \in Constants /\ t \in Needs(Top.of) /\ t = Lookup(Top.of[1], Operand)
      /\ Len(Top.done) < Len(Operands)
  BY <1>1, <1>2, Looked DEF Open
<1>4. TypeInv' /\ Chained' /\ Resolving' = Resolving \cup {t}
  BY <1>1, <1>2, <1>3, PushStep DEF IInv, TypeInv
<1>5. Judged'
  BY <1>1, JudgedOn DEF IInv, Grows
<1>6. Ordered'
  BY <1>1, <1>4, OrderedOn DEF IInv
<1> QED
  BY <1>4, <1>5, <1>6 DEF IInv

LEMMA BeginStep ==
  ASSUME IInv, Begin PROVE IInv'
<1>1. /\ stack = <<>> /\ next <= Len(script) /\ next' = next + 1
      /\ script' = script /\ resolved' = resolved /\ circular' = circular /\ invalid' = invalid
  BY DEF Begin
<1>2. /\ TypeInv /\ Chained /\ Len(script) \in Nat /\ next \in 1..Len(script)
      /\ next' \in 1..(Len(script) + 1)
  <2>1. script \in Seq(Declarations)
    BY Declared DEF IInv
  <2>2. Len(script) \in Nat
    BY <2>1, LenProperties
  <2>3. next \in 1..(Len(script) + 1)
    BY DEF IInv, TypeInv
  <2> DEFINE n == Len(script)
  <2>4. n \in Nat /\ next \in 1..(n + 1) /\ next <= n
    BY <1>1, <2>2, <2>3
  <2> HIDE DEF n
  <2>5. next \in 1..n /\ next + 1 \in 1..(n + 1)
    BY <2>4
  <2> QED
    BY <1>1, <2>4, <2>5 DEF IInv, n
<1>3. PICK c : c = script[next].of
  OBVIOUS
<1>4. c \in Constants /\ Resolving = {}
  <2>1. DOMAIN stack = {}
    BY <1>1
  <2> QED
    BY <1>2, <1>3, <2>1, Declared DEF Resolving
<1>5. /\ TypeInv' /\ Chained'
      /\ c \in DOMAIN resolved \cup Resolving'
  <2>1. CASE c \in DOMAIN resolved
    <3>1. stack' = stack /\ current' = current
      BY <1>3, <2>1 DEF Begin
    <3>2. Constants' = Constants /\ Frames' = Frames
      BY <1>1, Rigid
    <3>3. TypeInv'
      BY <1>1, <1>2, <3>1, <3>2 DEF TypeInv
    <3>4. Len(stack') = 0
      BY <1>1, <3>1
    <3>5. Chained'
      BY <1>1, <3>1, <3>4 DEF Chained
    <3> QED
      BY <2>1, <3>3, <3>5
  <2>2. CASE c \notin DOMAIN resolved
    <3>1. stack' = <<Frame(c)>> /\ current' = c[1]
      BY <1>3, <2>2 DEF Begin
    <3>2. stack' = Append(stack, Frame(c))
      BY <1>1, <3>1
    <3>3. TypeInv' /\ Chained' /\ Resolving' = Resolving \cup {c}
      BY <1>1, <1>2, <1>4, <2>2, <3>1, <3>2, PushStep
    <3> QED
      BY <3>3
  <2> QED
    BY <2>1, <2>2
<1>6. Judged'
  BY <1>1, JudgedOn DEF IInv, Grows
<1>7. Ordered'
  <2>1. \A k \in 1..(next' - 1) : script[k].of \in DOMAIN resolved \cup Resolving'
    <3> SUFFICES ASSUME NEW k \in 1..(next' - 1) PROVE script[k].of \in DOMAIN resolved \cup Resolving'
      OBVIOUS
    <3>1. CASE k = next
      BY <1>3, <1>5, <3>1
    <3>2. CASE k # next
      <4>1. k \in 1..(next - 1)
        BY <1>1, <1>2, <3>2
      <4> QED
        BY <1>4, <4>1 DEF IInv, Ordered
    <3> QED
      BY <3>1, <3>2
  <2>2. /\ \A d : Needs(d)' = Needs(d)
        /\ \A d : OnCircle(d)' = OnCircle(d)
    BY <1>1, Rigid
  <2> QED
    BY <1>1, <2>1, <2>2 DEF IInv, Ordered
<1> QED
  BY <1>5, <1>6, <1>7 DEF IInv

LEMMA Counts ==
  ASSUME NEW n \in Nat \ {0}
  PROVE  /\ n \in 1..n /\ n - 1 \in Nat /\ (n - 1) - 1 = n - 2 /\ (n - 1) + 1 = n
         /\ n # 1 => n - 1 \in 1..(n - 1) /\ n > 1
         /\ n - 1 # 0 => n # 1
         /\ \A k \in 1..n : k = n \/ k \in 1..(n - 1)
         /\ \A k \in 1..(n - 1) : k \in 1..n /\ k < n /\ k # n /\ k + 1 \in 1..n
         /\ \A k \in 1..(n - 1) : k = n - 1 \/ k \in 1..(n - 2)
         /\ \A k \in 1..(n - 2) : k \in 1..(n - 1) /\ k # n - 1 /\ k + 1 \in 1..(n - 1)
  OBVIOUS

(* A constant that has its value is taken from the stack, and the one that *)
(* waits for it is given the value.                                        *)
LEMMA PopStep ==
  ASSUME TypeInv, Chained, stack # <<>>, NEW c, c = Top.of, NEW value \in Values,
         resolved' = [d \in DOMAIN resolved \cup {c} |-> IF d = c THEN value ELSE resolved[d]],
         current' = Top.caller,
         stack' = IF Below = <<>> THEN <<>>
                  ELSE [Below EXCEPT ![Len(Below)].done = Append(@, value)],
         script' = script, next' = next, circular' = circular
  PROVE  TypeInv' /\ Chained' /\ Resolving \subseteq Resolving' \cup {c}
<1> DEFINE n == Len(stack)
<1>0. n \in Nat \ {0}
  BY Parts
<1>1. /\ Below \in Seq(Frames) /\ Len(Below) = n - 1
      /\ \A k \in 1..(n - 1) : Below[k] = stack[k]
      /\ stack[n].of = c /\ c \in Constants /\ Top.caller \in Classes \cup {""}
      /\ stack \in Seq(Frames) /\ DOMAIN stack = 1..n
  <2>1. /\ Below \in Seq(Frames) /\ Len(Below) = n - 1
        /\ \A k \in 1..(n - 1) : Below[k] = stack[k]
        /\ c \in Constants /\ Top.caller \in Classes \cup {""}
    BY Parts
  <2>2. stack[n].of = c
    BY DEF Top
  <2>3. stack \in Seq(Frames)
    BY DEF TypeInv
  <2>4. DOMAIN stack = 1..n
    BY <2>3
  <2> QED
    BY <2>1, <2>2, <2>3, <2>4
<1>17. \A j, k \in 1..n : j < k =>
          stack[j].of # stack[k].of /\ stack[k].of \in Reach(Needs(stack[j].of))
  BY DEF Chained
<1> HIDE DEF n
<1>2. Below = <<>> <=> n = 1
  <2>1. Below = <<>> <=> Len(Below) = 0
    BY <1>1, EmptySeq
  <2>2. n - 1 = 0 <=> n = 1
    BY <1>0
  <2> QED
    BY <1>1, <2>1, <2>2
<1>3. /\ stack' \in Seq(Frames) /\ Len(stack') = n - 1
      /\ \A k \in 1..(n - 1) : stack'[k].of = stack[k].of /\ stack'[k].caller = stack[k].caller
      /\ \A k \in 1..(n - 2) : stack'[k] = stack[k]
      /\ n > 1 => stack'[n - 1].done = Append(stack[n - 1].done, value)
  <2>1. CASE n = 1
    <3>1. stack' = <<>> /\ <<>> \in Seq(Frames) /\ Len(<<>>) = 0
      BY <1>2, <2>1, EmptySeq
    <3>2. n - 1 = 0 /\ n - 2 = -1 /\ ~(n > 1)
      BY <2>1
    <3> QED
      BY <3>1, <3>2
  <2>2. CASE n # 1
    <3> DEFINE below == Below
               x == [below[n - 1] EXCEPT !.done = Append(below[n - 1].done, value)]
    <3>1. /\ n - 1 \in 1..(n - 1) /\ Len(below) = n - 1 /\ below \in Seq(Frames)
          /\ stack' = [below EXCEPT ![n - 1].done = Append(@, value)]
      <4>1. stack' = [below EXCEPT ![Len(below)].done = Append(@, value)]
        BY <1>2, <2>2
      <4> QED
        BY <1>0, <1>1, <2>2, <4>1, Counts
    <3>2. below[n - 1] \in Frames /\ below[n - 1] = stack[n - 1]
      BY <1>1, <3>1, ElementOfSeq
    <3>3. Append(below[n - 1].done, value) \in Seq(Values)
      BY <3>2, AppendProperties DEF Frames
    <3>4. /\ x \in Frames /\ x.of = stack[n - 1].of /\ x.caller = stack[n - 1].caller
          /\ x.done = Append(stack[n - 1].done, value)
      BY <3>2, <3>3 DEF Frames
    <3>5. stack' = [below EXCEPT ![n - 1] = x]
      BY <3>1
    <3> HIDE DEF x
    <3>6. /\ stack' \in Seq(Frames) /\ Len(stack') = n - 1
          /\ \A k \in 1..(n - 1) : stack'[k] = IF k = n - 1 THEN x ELSE below[k]
      <4>1. n - 1 \in 1..Len(below)
        BY <3>1
      <4>2. /\ [below EXCEPT ![n - 1] = x] \in Seq(Frames)
            /\ Len([below EXCEPT ![n - 1] = x]) = Len(below)
            /\ \A k \in 1..Len(below) :
                  [below EXCEPT ![n - 1] = x][k] = IF k = n - 1 THEN x ELSE below[k]
        BY <3>1, <3>4, <4>1, ExceptSeq
      <4> QED
        BY <3>1, <3>5, <4>2
    <3>7. \A k \in 1..(n - 2) : k \in 1..(n - 1) /\ k # n - 1
      BY <1>0, Counts
    <3>8. \A k \in 1..(n - 2) : stack'[k] = stack[k]
      BY <1>1, <3>6, <3>7
    <3>9. ASSUME NEW k \in 1..(n - 1)
          PROVE  stack'[k].of = stack[k].of /\ stack'[k].caller = stack[k].caller
      <4>1. CASE k = n - 1
        BY <3>4, <3>6, <4>1
      <4>2. CASE k # n - 1
        BY <1>1, <3>6, <4>2
      <4> QED
        BY <4>1, <4>2
    <3> QED
      BY <3>1, <3>4, <3>6, <3>8, <3>9
  <2> QED
    BY <2>1, <2>2
<1>4. /\ Constants' = Constants /\ Frames' = Frames
      /\ \A d : Declaration(d)' = Declaration(d)
      /\ \A class, m : Lookup(class, m)' = Lookup(class, m)
      /\ \A d : Needs(d)' = Needs(d) /\ \A set : Reach(set)' = Reach(set)
  BY Rigid
<1>5. /\ DOMAIN resolved' = DOMAIN resolved \cup {c} /\ c \notin DOMAIN resolved
      /\ resolved'[c] = value /\ \A d \in DOMAIN resolved : resolved'[d] = resolved[d]
  <2>1. n \in 1..n
    BY <1>0, Counts
  <2>2. c \notin DOMAIN resolved
    BY <1>1, <2>1 DEF Chained, n
  <2> QED
    BY <2>2
<1>6. TypeInv'
  <2>1. DOMAIN resolved' \subseteq Constants /\ resolved' \in [DOMAIN resolved' -> Values]
    BY <1>1, <1>5 DEF TypeInv
  <2> QED
    BY <1>1, <1>3, <1>4, <2>1 DEF TypeInv
<1>7. Resolving \subseteq Resolving' \cup {c}
  <2> SUFFICES ASSUME NEW k \in 1..n, stack[k].of # c PROVE stack[k].of \in Resolving'
    BY <1>1 DEF Resolving
  <2>1. k \in 1..(n - 1)
    BY <1>0, <1>1, Counts
  <2>2. DOMAIN stack' = 1..(n - 1) /\ stack'[k].of = stack[k].of
    <3>1. DOMAIN stack' = 1..Len(stack')
      BY <1>3
    <3> QED
      BY <1>3, <2>1, <3>1
  <2> QED
    BY <2>1, <2>2 DEF Resolving
<1>8. Grows
  BY <1>5 DEF Grows
<1>9. \A k \in 1..(n - 1) : k \in 1..n /\ stack[k].of # c
  <2> SUFFICES ASSUME NEW k \in 1..(n - 1) PROVE k \in 1..n /\ stack[k].of # c
    OBVIOUS
  <2>1. k \in 1..n /\ n \in 1..n /\ k < n
    BY <1>0, Counts
  <2>2. stack[k].of # stack[n].of
    BY <1>17, <2>1
  <2> QED
    BY <1>1, <2>1, <2>2
<1>10. \A k \in 1..(n - 1) : stack'[k].of \notin DOMAIN resolved'
  BY <1>3, <1>5, <1>9 DEF Chained, n
<1>11. \A j, k \in 1..(n - 1) : j < k =>
          /\ stack'[j].of # stack'[k].of
          /\ stack'[k].of \in Reach(Needs(stack'[j].of))
  <2> SUFFICES ASSUME NEW j \in 1..(n - 1), NEW k \in 1..(n - 1), j < k
               PROVE  /\ stack'[j].of # stack'[k].of
                      /\ stack'[k].of \in Reach(Needs(stack'[j].of))
    OBVIOUS
  <2>1. stack[j].of # stack[k].of /\ stack[k].of \in Reach(Needs(stack[j].of))
    BY <1>9, <1>17
  <2> QED
    BY <1>3, <2>1
<1>12. \A k \in 1..(n - 2) : k \in 1..(n - 1) /\ k + 1 \in 1..(n - 1)
  BY <1>0, Counts
<1>13. ASSUME NEW k \in 1..(n - 1), NEW d, d = stack'[k].of, NEW values, values = stack'[k].done
       PROVE  Len(values) <= Len(Declaration(d).operands) /\ Stand(d, values)'
  <2> DEFINE old == stack[k].done
  <2>1. /\ d = stack[k].of /\ old \in Seq(Values) /\ Len(old) \in Nat
        /\ Len(old) < Len(Declaration(d).operands) /\ Stand(d, old)
        /\ Lookup(d[1], Declaration(d).operands[Len(old) + 1]) = stack[k + 1].of
        /\ d \in Constants
    <3>1. stack[k] \in Frames /\ k \in 1..n
      BY <1>1, <1>9, ElementOfSeq
    <3>2. d = stack[k].of /\ d \in Constants /\ old \in Seq(Values)
      BY <1>3, <1>13, <3>1 DEF Frames
    <3>3. Len(old) \in Nat
      BY <3>2, LenProperties
    <3> QED
      BY <3>1, <3>2, <3>3 DEF Chained, n
  <2>2. CASE k # n - 1
    <3>1. k \in 1..(n - 2)
      BY <1>0, <2>2, Counts
    <3>2. values = old
      BY <1>3, <1>13, <3>1
    <3>3. Len(Declaration(d).operands) \in Nat
      <4>1. Declaration(d).operands \in Seq(STRING)
        BY <2>1, Declared DEF Declarations
      <4> QED
        BY <4>1, LenProperties
    <3> QED
      BY <1>8, <2>1, <3>2, <3>3, StandsOn
  <2>3. CASE k = n - 1
    <3>1. n > 1 /\ k + 1 = n
      <4>1. 1 <= k
        OBVIOUS
      <4> QED
        BY <1>0, <2>3, <4>1
    <3>2. values = Append(old, value) /\ Lookup(d[1], Declaration(d).operands[Len(old) + 1]) = c
      BY <1>1, <1>3, <1>13, <2>1, <2>3, <3>1
    <3> HIDE DEF old
    <3>3. /\ Len(values) = Len(old) + 1 /\ values[Len(old) + 1] = value
          /\ \A m \in 1..Len(old) : values[m] = old[m]
      BY <2>1, <3>2, Pushed
    <3>4. Len(values) <= Len(Declaration(d).operands)
      <4>1. Declaration(d).operands \in Seq(STRING)
        BY <2>1, Declared DEF Declarations
      <4>2. Len(Declaration(d).operands) \in Nat
        BY <4>1, LenProperties
      <4> QED
        BY <2>1, <3>3, <4>2
    <3>5. ASSUME NEW m \in 1..Len(values), NEW operand, operand = Declaration(d).operands[m]
          PROVE  Stands(d, operand, values[m])'
      <4>1. CASE m = Len(old) + 1
        <5>1. values[m] = value /\ Lookup(d[1], operand) = c /\ c # <<>>
          BY <1>1, <3>2, <3>3, <3>5, <4>1, Named
        <5> QED
          BY <1>4, <1>5, <5>1 DEF Stands
      <4>2. CASE m # Len(old) + 1
        <5>1. m \in 1..Len(old) /\ values[m] = old[m]
          BY <2>1, <3>3, <4>2
        <5>2. Stands(d, operand, values[m])
          BY <2>1, <3>5, <5>1 DEF Stand
        <5> QED
          BY <1>8, <5>2, StandsOn
      <4> QED
        BY <4>1, <4>2
    <3> QED
      BY <1>4, <3>4, <3>5 DEF Stand
  <2> QED
    BY <2>2, <2>3
<1>14. ASSUME NEW k \in 1..(n - 2)
       PROVE  /\ Len(stack'[k].done) < Len(Declaration(stack'[k].of).operands)
              /\ Lookup(stack'[k].of[1], Declaration(stack'[k].of).operands[Len(stack'[k].done) + 1])
                     = stack'[k + 1].of
              /\ stack'[k + 1].caller = stack'[k].of[1]
  <2>1. /\ stack'[k] = stack[k] /\ k \in 1..(n - 1)
        /\ stack'[k + 1].of = stack[k + 1].of /\ stack'[k + 1].caller = stack[k + 1].caller
    BY <1>3, <1>12
  <2> QED
    BY <2>1 DEF Chained, n
<1>15. stack' # <<>> => current' = stack'[n - 1].of[1]
  <2> SUFFICES ASSUME stack' # <<>> PROVE current' = stack'[n - 1].of[1]
    OBVIOUS
  <2>1. n - 1 \in 1..(n - 1) /\ (n - 1) + 1 = n
    <3>1. n - 1 # 0
      BY <1>3, EmptySeq
    <3> QED
      BY <1>0, <3>1, Counts
  <2>2. stack[n].caller = stack[n - 1].of[1]
    BY <2>1 DEF Chained, n
  <2> QED
    BY <1>3, <2>1, <2>2 DEF Top, n
<1>16. Chained'
  <2>1. Len(stack') = n - 1 /\ (n - 1) - 1 = n - 2
    BY <1>0, <1>3, Counts
  <2>2. \A k \in 1..(n - 1) : /\ Len(stack'[k].done) <= Len(Declaration(stack'[k].of).operands)
                              /\ Stand(stack[k].of, stack[k].done)'
    BY <1>13
  <2> QED
    BY <1>4, <1>10, <1>11, <1>14, <1>15, <2>1, <2>2 DEF Chained, Top
<1> QED
  BY <1>6, <1>7, <1>16

(* A constant that was needed while it was evaluated was reported, so that *)
(* whoever has a value needs only what has one or was reported.            *)
LEMMA NeedsMet ==
  ASSUME TypeInv, NEW c \in Constants, NEW values, Stand(c, values),
         Len(values) = Len(Declaration(c).operands)
  PROVE  Needs(c) \subseteq DOMAIN resolved \cup circular
<1> SUFFICES ASSUME NEW t \in Needs(c) PROVE t \in DOMAIN resolved \cup circular
  OBVIOUS
<1>1. Declaration(c).operands \in Seq(STRING) /\ t # <<>>
  BY Declared DEF Declarations, Needs
<1>2. PICK k \in DOMAIN Declaration(c).operands : t = Lookup(c[1], Declaration(c).operands[k])
  BY LookedUp
<1>3. k \in 1..Len(values)
  BY <1>1, <1>2
<1>4. Stands(c, Declaration(c).operands[k], values[k])
  BY <1>3 DEF Stand
<1> QED
  BY <1>1, <1>2, <1>4 DEF Stands

LEMMA ReturnStep ==
  ASSUME IInv, Return PROVE IInv'
<1>1. /\ stack # <<>> /\ Len(Top.done) = Len(Operands)
      /\ script' = script /\ next' = next /\ circular' = circular
  BY DEF Return
<1>2. PICK c, values, value : /\ c = Top.of /\ values = Top.done
                              /\ value = Apply(Declaration(c).operation, values)
  OBVIOUS
<1>3. /\ resolved' = [d \in DOMAIN resolved \cup {c} |-> IF d = c THEN value ELSE resolved[d]]
      /\ invalid' = IF value.state = "runtime" /\ ~value.quiet THEN invalid \cup {c} ELSE invalid
      /\ current' = Top.caller
      /\ stack' = IF Below = <<>> THEN <<>>
                  ELSE [Below EXCEPT ![Len(Below)].done = Append(@, value)]
  BY <1>2 DEF Return, Result
<1>4. /\ TypeInv /\ Chained /\ Judged /\ Ordered
      /\ c \in Constants /\ values \in Seq(Values) /\ Len(values) = Len(Declaration(c).operands)
  BY <1>1, <1>2, Parts DEF IInv, Operands
<1>5. Stand(c, values) /\ c \notin DOMAIN resolved
  <2>1. Len(stack) \in 1..Len(stack)
    <3>1. Len(stack) \in Nat \ {0}
      BY <1>1, <1>4, Parts
    <3> QED
      BY <3>1
  <2>2. stack[Len(stack)].of = c /\ stack[Len(stack)].done = values
    BY <1>2 DEF Top
  <2> QED
    BY <1>4, <2>1, <2>2 DEF Chained
<1>6. /\ value \in Values
      /\ value.quiet => NeedsCircle(c)
      /\ value.state = "runtime" /\ ~value.quiet => Loud(c)
  BY <1>2, <1>4, <1>5, ResultJudged DEF Ordered
<1>7. TypeInv' /\ Chained' /\ Resolving \subseteq Resolving' \cup {c}
  BY <1>1, <1>2, <1>3, <1>4, <1>6, PopStep
<1>8. /\ DOMAIN resolved' = DOMAIN resolved \cup {c} /\ resolved'[c] = value
      /\ \A d \in DOMAIN resolved : d # c /\ resolved'[d] = resolved[d]
  BY <1>3, <1>5
<1>9. Grows
  BY <1>1, <1>8 DEF Grows
<1>10. /\ \A d : Declaration(d)' = Declaration(d) /\ Needs(d)' = Needs(d)
       /\ \A d : OnCircle(d)' = OnCircle(d) /\ NeedsCircle(d)' = NeedsCircle(d)
       /\ \A d : Loud(d)' = Loud(d)
  BY <1>1, Rigid
<1>11. Judged'
  <2>1. ASSUME NEW d \in DOMAIN resolved'
        PROVE  /\ \E given \in Seq(Values) :
                     /\ Len(given) = Len(Declaration(d).operands)
                     /\ Stand(d, given)'
                     /\ resolved'[d] = Apply(Declaration(d).operation, given)
               /\ resolved'[d].quiet => NeedsCircle(d)
               /\ resolved'[d].state = "runtime" /\ ~resolved'[d].quiet => Loud(d)
    <3>1. CASE d = c
      <4>1. Stand(c, values)'
        BY <1>5, <1>9, StandsOn
      <4> QED
        BY <1>2, <1>4, <1>6, <1>8, <3>1, <4>1
    <3>2. CASE d # c
      <4>1. d \in DOMAIN resolved /\ resolved'[d] = resolved[d]
        BY <1>8, <2>1, <3>2
      <4>2. PICK given \in Seq(Values) :
               /\ Len(given) = Len(Declaration(d).operands)
               /\ Stand(d, given)
               /\ resolved[d] = Apply(Declaration(d).operation, given)
        BY <1>4, <4>1 DEF Judged
      <4>3. Stand(d, given)'
        BY <1>9, <4>2, StandsOn
      <4>4. /\ resolved[d].quiet => NeedsCircle(d)
            /\ resolved[d].state = "runtime" /\ ~resolved[d].quiet => Loud(d)
        BY <1>4, <4>1 DEF Judged
      <4> QED
        BY <4>1, <4>2, <4>3, <4>4
    <3> QED
      BY <3>1, <3>2
  <2>2. invalid' = {d \in DOMAIN resolved' : resolved'[d].state = "runtime" /\ ~resolved'[d].quiet}
    <3>1. invalid = {d \in DOMAIN resolved : resolved[d].state = "runtime" /\ ~resolved[d].quiet}
      BY <1>4 DEF Judged
    <3> QED
      BY <1>3, <1>8, <3>1
  <2> QED
    BY <1>10, <2>1, <2>2 DEF Judged
<1>12. Ordered'
  <2>1. ASSUME NEW some \in SUBSET DOMAIN resolved', some # {}
        PROVE  \E d \in some : Needs(d) \cap some \subseteq circular
    <3>1. CASE some \ {c} = {}
      <4>1. some = {c}
        BY <2>1, <3>1
      <4>2. Needs(c) \subseteq DOMAIN resolved \cup circular
        BY <1>4, <1>5, NeedsMet
      <4> QED
        BY <1>5, <4>1, <4>2
    <3>2. CASE some \ {c} # {}
      <4>1. some \ {c} \in SUBSET DOMAIN resolved
        BY <1>8
      <4>2. PICK d \in some \ {c} : Needs(d) \cap (some \ {c}) \subseteq circular
        BY <1>4, <3>2, <4>1 DEF Ordered
      <4>3. PICK given \in Seq(Values) :
               Len(given) = Len(Declaration(d).operands) /\ Stand(d, given)
        BY <1>4, <4>1, <4>2 DEF Judged
      <4>4. d \in Constants
        BY <1>4, <4>1, <4>2 DEF TypeInv
      <4>5. Needs(d) \subseteq DOMAIN resolved \cup circular
        BY <1>4, <4>3, <4>4, NeedsMet
      <4> QED
        BY <1>5, <4>2, <4>5
    <3> QED
      BY <3>1, <3>2
  <2>2. \A k \in 1..(next - 1) : script[k].of \in DOMAIN resolved' \cup Resolving'
    BY <1>4, <1>7, <1>8 DEF Ordered
  <2>3. \A d \in circular : OnCircle(d)
    BY <1>4 DEF Ordered
  <2> QED
    BY <1>1, <1>10, <2>1, <2>2, <2>3 DEF Ordered
<1> QED
  BY <1>7, <1>11, <1>12 DEF IInv

(***************************************************************************)
(* What the invariant says.                                                *)
(***************************************************************************)

(* Without a circle every operand had its value.                           *)
LEMMA MeansWhatItSays ==
  ASSUME IInv, NEW c \in DOMAIN resolved, ~NeedsCircle(c)
  PROVE  /\ Needs(c) \subseteq DOMAIN resolved
         /\ resolved[c] = Meaning(c)
         /\ c \in invalid <=> resolved[c].state = "runtime"
<1> DEFINE operands == Declaration(c).operands
           Of(name) == IF Lookup(c[1], name) = <<>> THEN Other(name)
                       ELSE resolved[Lookup(c[1], name)]
<1>1. TypeInv /\ Judged /\ Ordered /\ c \in Constants
  BY DEF IInv, TypeInv
<1>2. PICK values \in Seq(Values) :
         /\ Len(values) = Len(operands)
         /\ Stand(c, values)
         /\ resolved[c] = Apply(Declaration(c).operation, values)
  BY <1>1 DEF Judged
<1>3. \A t \in Needs(c) : t \notin circular
  BY <1>1, ThroughNeeds DEF Ordered
<1>4. Needs(c) \subseteq DOMAIN resolved
  BY <1>1, <1>2, <1>3, NeedsMet
<1>5. DOMAIN operands = 1..Len(values) /\ values \in [1..Len(values) -> Values]
  <2>1. operands \in Seq(STRING)
    BY <1>1, Declared DEF Declarations
  <2> QED
    BY <1>2, <2>1
<1>6. ASSUME NEW k \in 1..Len(values) PROVE values[k] = Of(operands[k])
  <2>1. Stands(c, operands[k], values[k])
    BY <1>2 DEF Stand
  <2>2. Lookup(c[1], operands[k]) # <<>> => Lookup(c[1], operands[k]) \in Needs(c)
    BY <1>1, <1>5, LookedUp
  <2> QED
    BY <1>3, <2>1, <2>2 DEF Stands
<1>7. values = [k \in DOMAIN operands |-> Of(operands[k])]
  BY <1>5, <1>6
<1>8. resolved[c] = Meaning(c)
  BY <1>2, <1>7 DEF Meaning
<1>9. ~resolved[c].quiet /\ (c \in invalid <=> resolved[c].state = "runtime" /\ ~resolved[c].quiet)
  BY <1>1 DEF Judged
<1> QED
  BY <1>4, <1>8, <1>9

(* Of the constants of a circle, the one that had its value first was      *)
(* given that of another by a report.                                      *)
LEMMA CircleMet ==
  ASSUME IInv, DOMAIN resolved = Constants, NEW c \in Constants, OnCircle(c)
  PROVE  \E d \in circular : d \in Reach({c}) /\ c \in Reach({d})
<1> DEFINE some == {d \in Constants : d \in Reach({c}) /\ c \in Reach({d})}
<1>1. TypeInv /\ Ordered
  BY DEF IInv
<1>2. c \in Reach({c}) /\ c \in some
  BY ReachIn
<1>3. ASSUME NEW d \in some PROVE \E e \in Needs(d) : e \in some
  <2>1. d \in Constants /\ Needs(d) \subseteq Constants
    BY <1>1, LookedUp
  <2>2. c \in Reach(Needs(d))
    <3>1. CASE d = c
      BY <3>1 DEF OnCircle
    <3>2. CASE d # c
      BY <1>1, <2>1, <3>2, ReachFirst
    <3> QED
      BY <3>1, <3>2
  <2>3. PICK e \in Needs(d) : c \in Reach({e})
    BY <1>1, <2>1, <2>2, ReachFromOne
  <2>4. e \in Reach({c})
    BY <1>1, <1>3, ReachClosed
  <2> QED
    BY <2>1, <2>3, <2>4
<1>4. some \in SUBSET DOMAIN resolved /\ some # {}
  BY <1>2
<1> HIDE DEF some
<1>5. PICK d \in some : Needs(d) \cap some \subseteq circular
  BY <1>1, <1>4 DEF Ordered
<1>6. PICK e \in Needs(d) : e \in some
  BY <1>3
<1>7. e \in circular
  BY <1>5, <1>6
<1> QED
  BY <1>6, <1>7 DEF some

LEMMA AllEvaluated ==
  ASSUME IInv, Done PROVE DOMAIN resolved = Constants
<1>1. /\ TypeInv /\ Ordered /\ stack = <<>> /\ next > Len(script)
      /\ DOMAIN resolved \subseteq Constants
  BY DEF IInv, Done, TypeInv
<1>2. Resolving = {}
  <2>1. DOMAIN stack = {}
    BY <1>1
  <2> QED
    BY <2>1 DEF Resolving
<1>3. script \in Seq(Declarations) /\ DOMAIN script = 1..Len(script) /\ Len(script) \in Nat
  BY <1>1, Declared, LenProperties
<1>4. ASSUME NEW c \in Constants PROVE c \in DOMAIN resolved
  <2>1. PICK k \in 1..Len(script) : c = script[k].of
    BY <1>3 DEF Constants
  <2>2. k \in 1..(next - 1)
    <3>1. next \in 1..(Len(script) + 1)
      BY <1>1 DEF TypeInv
    <3> QED
      BY <1>1, <1>3, <3>1
  <2> QED
    BY <1>1, <1>2, <2>1, <2>2 DEF Ordered
<1> QED
  BY <1>1, <1>4

LEMMA InvariantSays ==
  ASSUME IInv PROVE ConstantsJudged
<1>1. ValuesOfTheirClass
  BY MeansWhatItSays DEF ValuesOfTheirClass
<1>2. CirclesReported
  <2>1. \A c \in circular : OnCircle(c)
    BY DEF IInv, Ordered
  <2> QED
    BY <2>1, AllEvaluated, CircleMet DEF CirclesReported
<1>3. QuietOnCircles
  BY DEF IInv, Judged, Loud, QuietOnCircles
<1> QED
  BY <1>1, <1>2, <1>3 DEF ConstantsJudged

(***************************************************************************)
(* The theorems.                                                           *)
(***************************************************************************)

LEMMA FirstHolds == Init => IInv
<1> SUFFICES ASSUME Init PROVE IInv
  OBVIOUS
<1>1. /\ script \in Scripts /\ next = 1 /\ stack = <<>> /\ current = ""
      /\ resolved = [c \in {} |-> Literal] /\ circular = {} /\ invalid = {}
  BY DEF Init, Unevaluated
<1>2. Len(script) \in Nat
  <2>1. script \in Seq(Declarations)
    BY <1>1, ScriptsAssumption
  <2> QED
    BY <2>1, LenProperties
<1>3. TypeInv
  <2>1. next \in 1..(Len(script) + 1)
    <3>1. next = 1
      BY <1>1
    <3> QED
      BY <1>2, <3>1
  <2>2. DOMAIN resolved \subseteq Constants /\ resolved \in [DOMAIN resolved -> Values]
    BY <1>1
  <2>3. stack \in Seq(Frames)
    BY <1>1, EmptySeq
  <2>4. circular \subseteq Constants /\ current \in Classes \cup {""}
    BY <1>1
  <2> QED
    BY <1>1, <2>1, <2>2, <2>3, <2>4 DEF TypeInv
<1>4. DOMAIN resolved = {}
  BY <1>1
<1>5. Chained
  <2>1. \A k : k \notin 1..Len(stack) /\ k \notin 1..(Len(stack) - 1)
    <3>1. Len(stack) = 0
      BY <1>1
    <3> QED
      BY <3>1
  <2>2. stack = <<>>
    BY <1>1
  <2> QED
    BY <2>1, <2>2 DEF Chained
<1>6. Judged
  BY <1>1, <1>4 DEF Judged
<1>7. Ordered
  <2>1. \A k : k \notin 1..(next - 1)
    <3>1. next = 1
      BY <1>1
    <3>2. next - 1 = 0
      BY <3>1
    <3> QED
      BY <3>2
  <2> QED
    BY <1>1, <1>4, <2>1 DEF Ordered
<1> QED
  BY <1>3, <1>5, <1>6, <1>7 DEF IInv

(* The invariant holds throughout every behaviour.                         *)
THEOREM Inductive == Spec => []IInv
<1>1. IInv /\ [Next]_vars => IInv'
  <2> SUFFICES ASSUME IInv, [Next]_vars PROVE IInv'
    OBVIOUS
  <2>1. CASE Next
    BY <2>1, BeginStep, OtherStep, KnownStep, CycleStep, NewStep, ReturnStep DEF Next
  <2>2. CASE UNCHANGED vars
    <3>1. /\ script' = script /\ next' = next /\ stack' = stack /\ current' = current
          /\ resolved' = resolved /\ circular' = circular /\ invalid' = invalid
      BY <2>2 DEF vars
    <3>2. Constants' = Constants /\ Frames' = Frames /\ Resolving' = Resolving /\ Top' = Top
      BY <3>1 DEF Constants, Frames, Resolving, Top
    <3>3. TypeInv'
      BY <3>1, <3>2 DEF IInv, TypeInv
    <3>4. Chained'
      BY <3>1, <3>2, Rigid, StandsOn DEF IInv, Chained, Grows
    <3>5. Judged' /\ Ordered'
      BY <3>1, <3>2, JudgedOn, OrderedOn DEF IInv, Grows
    <3> QED
      BY <3>3, <3>4, <3>5 DEF IInv
  <2> QED
    BY <2>1, <2>2
<1> QED
  BY <1>1, FirstHolds, PTL DEF Spec

(* However the constants of a script need each other, and in whatever      *)
(* order they are written: each has the value its names have in its class  *)
(* and is reported exactly when that depends on the running program, every *)
(* circle is reported at one of its constants and nowhere else, and what   *)
(* needs one is not reported for it.                                       *)
THEOREM OrderMakesNoDifference == Spec => []ConstantsJudged
  BY Inductive, InvariantSays, PTL
=============================================================================
