---------------------------- MODULE FunctionRecovery ----------------------------
(***************************************************************************)
(* The functions of a damaged script (Document::analyze in                 *)
(* src/src/core/document.cpp).  The parser recovers from an error as it    *)
(* can: its tree may lack a function or a class, end it too early or too   *)
(* late, or have it in another class.  The classes are those of the tree;  *)
(* the lines say where each ends and where each function is, and a function*)
(* that the tree has otherwise is parsed again for itself.                 *)
(*                                                                         *)
(* A line has an indentation, the word it begins with, its name if it has  *)
(* one, and the marks of its code: brackets, ":", "\\" and "x" for the     *)
(* rest.  A line that begins in a string has no code.                      *)
(***************************************************************************)
EXTENDS Integers, Sequences, FiniteSetsExt, SequencesExt

CONSTANTS
    Scripts,        \* the lines of the scripts
    HeaderLimit     \* bound of the code: lines of a header (64 KiB)

VARIABLES
    lines,
    members,        \* the functions of each class: classes_
    nodes,          \* the functions and classes in the tree: syntax_root_
    errors,         \* the lines of each syntax error: syntax_errors_
    line            \* the line that is looked at next

vars == <<lines, members, nodes, errors, line>>

-----------------------------------------------------------------------------
(* The lines.                                                              *)

Depth(l) == lines[l].depth
Code(l) == lines[l].code /\ lines[l].word # "blank"
Begins(l, words) == Code(l) /\ lines[l].word \in words
IsHeader(l) == Begins(l, {"func"})

Group(open, mark) == CASE mark = "(" -> open + 1
                       [] mark = ")" /\ open > 0 -> open - 1
                       [] OTHER -> open
Grouping(open, marks) == FoldLeft(Group, open, marks)

(* A backslash at its end continues a line.                                *)
Continued(l) == Code(l) /\ lines[l].marks # <<>> /\ Last(lines[l].marks) = "\\"

-----------------------------------------------------------------------------
(* function_extent                                                         *)

(* The colon that ends a header, on the line l of it; 0 is none.           *)
ColonOn(l, open) ==
    LET marks == lines[l].marks
        ends == {k \in DOMAIN marks : marks[k] = ":" /\ Grouping(open, SubSeq(marks, 1, k - 1)) = 0}
    IN IF ends = {} THEN 0 ELSE Min(ends)

(* A header goes on in brackets, but not into another declaration, and no  *)
(* further than the limit, which is taken to fall between two lines.       *)
HeaderEnd(h) ==
    LET from[l \in Nat, open \in Nat] ==
            IF l > Len(lines) THEN [line |-> Len(lines), colon |-> 0]
            ELSE IF \/ l = h + HeaderLimit
                    \/ l > h /\ Begins(l, {"func", "class", "var"}) /\ Depth(l) <= Depth(h)
                 THEN [line |-> l - 1, colon |-> 0]
            ELSE IF ColonOn(l, open) # 0 THEN [line |-> l, colon |-> ColonOn(l, open)]
            ELSE IF Grouping(open, lines[l].marks) = 0 THEN [line |-> l, colon |-> 0]
            ELSE from[l + 1, Grouping(open, lines[l].marks)]
    IN from[h, 0]

(* Mutant: brackets that are open keep every later line in the body.       *)
BodyEndInBrackets(h, first) ==
    LET from[l \in Nat, open \in Nat, continued \in BOOLEAN] ==
            IF l > Len(lines) THEN Len(lines)
            ELSE IF Code(l) /\ Depth(l) <= Depth(h) /\ open = 0 /\ ~continued THEN l - 1
            ELSE from[l + 1, Grouping(open, lines[l].marks), Continued(l)]
    IN from[first, 0, FALSE]

BodyEnd(h, first) ==
    LET from[l \in Nat, open \in Nat, continued \in BOOLEAN] ==
            IF l > Len(lines) THEN Len(lines)
            ELSE IF /\ Code(l) /\ Depth(l) <= Depth(h)
                    /\ (open = 0 /\ ~continued) \/ Begins(l, {"func", "class"})
                 THEN l - 1
            ELSE from[l + 1, Grouping(open, lines[l].marks), Continued(l)]
    IN from[first, 0, FALSE]

(* The last line of a function: of its header if it has no colon, or has   *)
(* its body behind it.                                                     *)
EndBehind(header, h) ==
    IF header.colon = 0 \/ Len(lines[header.line].marks) > header.colon THEN header.line
    ELSE BodyEnd(h, header.line + 1)
ExtentEnd(h) == EndBehind(HeaderEnd(h), h)

(* The end of what is not blank in the lines from h to last.               *)
CodeEnd(h, last) == Max({l \in h..last : lines[l].word # "blank"})

-----------------------------------------------------------------------------
(* The classes: collect_class in analyze.                                  *)

(* Those that it has found; 0 is the script's own.                         *)
Classes == DOMAIN members \ {0}

ClassEnd(c) ==
    LET from[l \in Nat, open \in Nat] ==
            IF l > Len(lines) THEN Len(lines)
            ELSE IF /\ Code(l) /\ Depth(l) <= Depth(c)
                    /\ open = 0 \/ Begins(l, {"func", "class"})
                 THEN l - 1
            ELSE IF IsHeader(l) THEN from[ExtentEnd(l) + 1, open]
            ELSE from[l + 1, Grouping(open, lines[l].marks)]
    IN from[c + 1, 0]

(* Mutant: the class that begins last, although it has ended.              *)
OwnerNearest(h) == LET before == {c \in Classes : c < h} IN IF before = {} THEN 0 ELSE Max(before)

(* The class that a function is in.                                        *)
Owner(h) == LET around == {c \in Classes : c < h /\ h <= ClassEnd(c)}
            IN IF around = {} THEN 0 ELSE Max(around)

(* The nodes that the tree may have at a line: a function, or a class with *)
(* or without its name and its body.  A function that runs into a          *)
(* declaration that ends it has an error in it.                            *)
Read(n) ==
    IF IsHeader(n)
    THEN {f \in [kind : {"function"}, first : {n}, damaged : BOOLEAN, from : {"tree"},
                 last : UNION {{n, CodeEnd(n, last), last, Len(lines)} : last \in {ExtentEnd(n)}}] :
             \/ f.damaged
             \/ \A k \in (n + 1)..f.last : Begins(k, {"func", "class"}) => Depth(k) > Depth(n)}
    ELSE IF Begins(n, {"class"})
    THEN [kind : {"class"}, first : {n}, last : n..Len(lines), named : BOOLEAN, body : BOOLEAN]
    ELSE {}

(* The nodes of a tree are apart, or one is in the body of a class.        *)
Around(tree, n) == {node \in tree : node.last >= n}
Fits(tree, node) ==
    \A around \in Around(tree, node.first) :
        around.kind = "class" /\ around.body /\ node.last <= around.last

Trees ==
    LET upTo[n \in 0..Len(lines)] ==
            IF n = 0 THEN {{}}
            ELSE upTo[n - 1] \cup UNION
                 {{tree \cup {[class |-> Max({0} \cup {c.first : c \in Around(tree, n)})] @@ node} :
                      node \in {m \in Read(n) : Fits(tree, m)}} : tree \in upTo[n - 1]}
    IN upTo[Len(lines)]

ClassNodes(tree) == {n \in tree : n.kind = "class"}

(* collect_class: a class without a name is skipped with what is in it,    *)
(* and so is what the tree has in a class behind its end.                  *)
Collected(tree) ==
    LET found[c \in 0..Len(lines)] ==
            \/ c = 0
            \/ \E n \in ClassNodes(tree) :
                  /\ n.first = c /\ n.named /\ found[n.class]
                  /\ n.class = 0 \/ c <= ClassEnd(n.class)
    IN {c \in 0..Len(lines) : found[c]}

InClass(tree, c) ==
    SetToSortSeq({f \in tree : f.kind = "function" /\ f.class = c /\ (c = 0 \/ f.first <= ClassEnd(c))},
                 LAMBDA f, g : f.first < g.first)

(* class_syntax_container: whether the tree has the body of a class.       *)
HasContainer(tree, c) == c = 0 \/ \E n \in ClassNodes(tree) : n.first = c /\ n.body

(* What is left of the tree: with a class goes what is in it.              *)
Without(tree, gone) ==
    LET classes[c \in 0..Len(lines)] ==
            {c} \cup UNION {classes[n.class] : n \in {m \in ClassNodes(tree) : m.first = c}}
    IN {n \in tree \ gone : classes[n.class] \cap {g.first : g \in ClassNodes(gone)} = {}}

-----------------------------------------------------------------------------
(* The scan of the lines in analyze: a function at h that ends at last, in *)
(* a class whose functions are list.                                       *)

Overlaps(part, h, last) == part.first <= last /\ part.last >= h

(* The member that is the function at h: a constructor may have begun      *)
(* before it and run into it.                                              *)
Matches(m, h) == \/ m.first = h
                 \/ lines[m.first].name = "_init" /\ m.first <= h /\ h <= m.last
Matching(list, h) == {k \in DOMAIN list : Matches(list[k], h)}

(* Mutant: a function that goes on into the next one is left as it is.     *)
AcceptedLong(m, h, last) == ~m.damaged /\ m.last >= CodeEnd(h, last)

Accepted(m, h, last) == ~m.damaged /\ m.last <= last /\ m.last >= CodeEnd(h, last)

Good(list, h, last) ==
    Matching(list, h) # {} /\ Accepted(list[Min(Matching(list, h))], h, last)

(* recover_function: from the lines of the function and no others.  The    *)
(* parser may find the function there, its header or not even that; then   *)
(* there is an error left in it.                                           *)
Recovered(h, last, owner) ==
    [kind : {"function"}, first : {h}, last : {last}, class : {owner}, damaged : BOOLEAN,
     from : {"block"}]

(* What a function replaces in the tree: all that it overlaps in the body  *)
(* of its class, and the functions among the script's own.                 *)
Displaced(owner, h, last) ==
    {n \in nodes : /\ Overlaps(n, h, last)
                   /\ n.class = owner \/ (n.class = 0 /\ n.kind = "function")}

Skip ==
    /\ line \in DOMAIN lines /\ ~IsHeader(line)
    /\ line' = line + 1 /\ UNCHANGED <<lines, members, nodes, errors>>

Keep ==
    /\ line \in DOMAIN lines /\ IsHeader(line)
    /\ \E owner \in {Owner(line)}, last \in {ExtentEnd(line)} :
          /\ Good(members[owner], line, last)
          /\ members' = [members EXCEPT ![owner][Min(Matching(members[owner], line))].last = last]
          /\ line' = last + 1
    /\ UNCHANGED <<lines, nodes, errors>>

Replaced(list, h, function) ==
    LET with == IF Matching(list, h) = {} THEN Append(list, function)
                ELSE [list EXCEPT ![Min(Matching(list, h))] = function]
    IN IF lines[h].name = "" THEN SelectSeq(with, LAMBDA m : m.first # h) ELSE with

Recover ==
    /\ line \in DOMAIN lines /\ IsHeader(line)
    /\ \E owner \in {Owner(line)}, last \in {ExtentEnd(line)} :
          /\ ~Good(members[owner], line, last)
          /\ \E function \in Recovered(line, last, owner) :
                /\ members' = [members EXCEPT ![owner] = Replaced(@, line, function)]
                /\ nodes' = Without(nodes, Displaced(owner, line, last)) \cup
                             (IF HasContainer(nodes, owner) THEN {function} ELSE {})
                /\ errors' = {e \in errors : ~Overlaps(e, line, last)} \cup
                             (IF function.damaged
                              THEN {[first |-> line, last |-> last]} ELSE {})
          /\ line' = last + 1
    /\ UNCHANGED lines

(* A class that has lost its name or its body has an error in it.          *)
Broken(node) == IF node.kind = "class" THEN ~(node.named /\ node.body) ELSE node.damaged

Init ==
    /\ lines \in Scripts
    /\ nodes \in Trees
    /\ members = [c \in {0} |-> <<>>]
    /\ errors = {[first |-> n.first, last |-> n.last] : n \in {m \in nodes : Broken(m)}}
    /\ line = 0

(* The members of the classes, before the scan of the lines.               *)
Collect ==
    /\ line = 0 /\ line' = 1
    /\ members' = [c \in Collected(nodes) |-> InClass(nodes, c)]
    /\ UNCHANGED <<lines, nodes, errors>>

Next == Collect \/ Skip \/ Keep \/ Recover

Spec == Init /\ [][Next]_vars

-----------------------------------------------------------------------------
(* Properties.                                                             *)

Done == line > Len(lines)

(* A function that is in no other: each header before it is indented as    *)
(* deep, or a declaration between the two is not in that function.         *)
Declared(l) ==
    /\ IsHeader(l)
    /\ \A h \in 1..(l - 1) : IsHeader(h) =>
           \/ Depth(h) >= Depth(l)
           \/ \E k \in (h + 1)..(l - 1) : Begins(k, {"func", "class"}) /\ Depth(k) <= Depth(h)

(* However damaged the functions before it are, a function is a member of   *)
(* its class, once, with its own lines as far as they are, and what is      *)
(* known of it is read from all of them and from none of another function.  *)
FunctionsFound ==
    Done => \A l \in {h \in DOMAIN lines : Declared(h) /\ lines[h].name # ""} :
        \A owner \in {Owner(l)}, last \in {ExtentEnd(l)} :
            LET here == {k \in DOMAIN members[owner] : members[owner][k].first = l}
            IN /\ Cardinality(here) = 1
               /\ \A k \in here : members[owner][k].last = last
               /\ \A m \in nodes : m.kind = "function" /\ m.class = owner /\ m.first = l =>
                      m.last \in CodeEnd(l, last)..last

(* A function goes on through every line that is indented deeper than its   *)
(* header, or is in brackets or continued that are opened in it, and ends   *)
(* before the first other line; no bracket that is left open reaches        *)
(* another function or class that is not indented deeper.                   *)
Open(h, l) == \/ Continued(l - 1)
              \/ \E k \in h..(l - 1) :
                     LET marks == FlattenSeq([j \in 1..(l - k) |-> lines[k + j - 1].marks])
                     IN Len(SelectSeq(marks, LAMBDA x : x = "(")) >
                        Len(SelectSeq(marks, LAMBDA x : x = ")"))
HasBody(h) == \E k \in DOMAIN lines[h].marks :
    k = Len(lines[h].marks) /\ lines[h].marks[k] = ":" /\ Grouping(0, SubSeq(lines[h].marks, 1, k - 1)) = 0
BodiesBounded ==
    \A h \in {l \in DOMAIN lines : IsHeader(l) /\ HasBody(l)} :
        LET outside == {l \in (h + 1)..Len(lines) :
                /\ Code(l) /\ Depth(l) <= Depth(h)
                /\ Begins(l, {"func", "class"}) \/ ~Open(h + 1, l)}
        IN ExtentEnd(h) = IF outside = {} THEN Len(lines) ELSE Min(outside) - 1

(* A function is in a class only if it and all the declarations from the    *)
(* class to it are indented deeper than the class, and is in it, or in one  *)
(* of its inner classes, if all the lines are.                              *)
OwnersRight ==
    \A l \in DOMAIN lines : Declared(l) =>
        LET deeper(c, words) == \A k \in (c + 1)..l : Begins(k, words) => Depth(k) > Depth(c)
        IN \A owner \in {Owner(l)} :
            /\ owner # 0 => deeper(owner, {"func", "class"})
            /\ \A c \in Classes : c < l /\ deeper(c, {"func", "class", "var", "other"}) => owner >= c

(* What was parsed again has one node, in its class if the tree has the     *)
(* body of that, and every error that touches it is in it.                  *)
RecoveredApart ==
    Done => \A c \in DOMAIN members : \A k \in DOMAIN members[c] :
        LET m == members[c][k]
        IN m.from = "block" =>
            /\ Displaced(c, m.first, m.last) = IF HasContainer(nodes, c) THEN {m} ELSE {}
            /\ \A e \in errors : Overlaps(e, m.first, m.last) => e.first >= m.first /\ e.last <= m.last

(* The damage of a function stays in it.                                   *)
DamageContained ==
    /\ FunctionsFound
    /\ BodiesBounded
    /\ OwnersRight
    /\ RecoveredApart
=============================================================================
