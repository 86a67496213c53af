---------------------------- MODULE IndentationCheck ----------------------------
(***************************************************************************)
(* The line by line part of lexical_issues                                 *)
(* (src/src/core/syntax_checks.cpp): which lines are statements of their   *)
(* own, and which of them go back to an indentation that no block has.     *)
(*                                                                         *)
(* A line has an indentation and the marks of its code: brackets, "quote"  *)
(* for the delimiter of a string of several lines, "#", "\\" and "code".   *)
(***************************************************************************)
EXTENDS Naturals, Integers, Sequences, FiniteSets, SequencesExt

CONSTANTS
    Lines,              \* the lines a script is made of
    MaxLines            \* bound: how many of them

VARIABLES
    read,               \* how many lines were read
    levels,             \* the indentations of the open blocks, the inner last
    delimiters,         \* the brackets that are open
    continuation,       \* the next line continues this one
    inString,           \* the next line begins in a string
    brackets,           \* history: every bracket of the code
    statements          \* history: the indentation and the issue of every
                        \* line that is a statement of its own

vars == <<read, levels, delimiters, continuation, inString, brackets, statements>>

(* SourceLexicalMap: the marks of a line outside of strings and comments,  *)
(* and whether the line ends in a string.                                  *)
Scan(line) ==
    FoldLeft(LAMBDA s, mark :
                 IF s.comment THEN s
                 ELSE IF mark = "quote"
                      THEN [s EXCEPT !.string = ~@, !.code = Append(@, "code")]
                 ELSE IF s.string THEN s
                 ELSE IF mark = "#" THEN [s EXCEPT !.comment = TRUE]
                 ELSE [s EXCEPT !.code = Append(@, mark)],
             [string |-> inString, comment |-> FALSE, code |-> <<>>], line.marks)

(* Mutant: a closing bracket counts although none is open.                 *)
CountAll(open, marks) ==
    FoldLeft(LAMBDA n, mark : CASE mark = "(" -> n + 1 [] mark = ")" -> n - 1 [] OTHER -> n,
             open, marks)

Count(open, marks) ==
    FoldLeft(LAMBDA n, mark : CASE mark = "(" -> n + 1
                                [] mark = ")" -> (IF n > 0 THEN n - 1 ELSE 0)
                                [] OTHER -> n,
             open, marks)

Ignored(line) ==
    line.marks = <<>> \/ line.marks[1] = "#" \/ continuation \/ inString

Width(indent) == Len(indent)
Top == levels[Len(levels)]

(* Mutant: a block of the same width is enough.                            *)
KnownWidth(indent) == \E k \in DOMAIN levels : Width(levels[k]) = Width(indent)
KnownLevel(indent) == \E k \in DOMAIN levels : levels[k] = indent

Mismatch(indent) == Width(indent) < Width(Top) /\ ~KnownLevel(indent) /\ Len(levels) > 1

(* The blocks that stay open: the script's own always does.                *)
Closed(indent) ==
    LET kept == {k \in DOMAIN levels : \A l \in 2..k : Width(levels[l]) <= Width(indent)}
    IN  SubSeq(levels, 1, CHOOSE k \in kept : \A l \in kept : l <= k)

Indented(indent) ==
    IF Width(indent) > Width(Top) THEN Append(levels, indent)
    ELSE IF Mismatch(indent) THEN Append(Closed(indent), indent)
    ELSE IF Width(indent) < Width(Top) THEN Closed(indent)
    ELSE levels

(* A line ends in the middle of a statement: in brackets, after a          *)
(* backslash or in a string.                                               *)
ReadLine(line) ==
    LET scan == Scan(line)
    IN  /\ read < MaxLines /\ read' = read + 1
        /\ IF Ignored(line) THEN UNCHANGED <<levels, statements>>
           ELSE /\ levels' = Indented(line.indent)
                /\ statements' = Append(statements,
                                        [indent |-> line.indent, issue |-> Mismatch(line.indent)])
        /\ delimiters' = Count(delimiters, scan.code)
        /\ inString' = scan.string
        /\ continuation' = \/ delimiters' > 0
                           \/ scan.code # <<>> /\ scan.code[Len(scan.code)] = "\\"
                           \/ scan.string
        /\ brackets' = brackets \o SelectSeq(scan.code, LAMBDA mark : mark \in {"(", ")"})

Init ==
    /\ read = 0 /\ levels = <<<<>>>> /\ delimiters = 0
    /\ continuation = FALSE /\ inString = FALSE
    /\ brackets = <<>> /\ statements = <<>>

Next == \E line \in Lines : ReadLine(line)

Spec == Init /\ [][Next]_vars

-----------------------------------------------------------------------------
(* Properties                                                              *)

(* A stray closing bracket is forgotten: as many brackets are open as some *)
(* end of the script opens more than it closes, so no later line is taken  *)
(* for a statement that is in brackets, or the other way round.            *)
Balance(s) == Len(SelectSeq(s, LAMBDA mark : mark = "(")) - Len(SelectSeq(s, LAMBDA mark : mark = ")"))

BracketsOpen ==
    LET ends == {Balance(SubSeq(brackets, n, Len(brackets))) : n \in 1..(Len(brackets) + 1)}
    IN  delimiters \in ends /\ \A n \in ends : n <= delimiters

(* A statement is reported exactly when it goes back and no block that is  *)
(* still open begins with its indentation: a block is opened by a          *)
(* statement that goes in, or by one that was reported, and is open until  *)
(* a statement goes further back.                                          *)
Opens(j) ==
    statements[j].issue
      \/ Width(statements[j].indent) > (IF j = 1 THEN 0 ELSE Width(statements[j - 1].indent))

OpenAt(j, i) == \A k \in j..(i - 1) : Width(statements[k].indent) >= Width(statements[j].indent)

UnindentsFound ==
    \A i \in DOMAIN statements :
        statements[i].issue <=>
            /\ i > 1 /\ Width(statements[i].indent) < Width(statements[i - 1].indent)
            /\ statements[i].indent # <<>>
            /\ \A j \in 1..(i - 1) :
                   Opens(j) /\ OpenAt(j, i) => statements[j].indent # statements[i].indent

(* Brackets and levels are tracked through every line of the script.       *)
IndentationJudged ==
    /\ BracketsOpen
    /\ UnindentsFound
=============================================================================
