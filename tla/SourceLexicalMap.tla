--------------------------- MODULE SourceLexicalMap ---------------------------
(***************************************************************************)
(* SourceLexicalMap (src/src/core/source_lexical.cpp): the comments and    *)
(* the strings of a source, found span after span.  What completion offers *)
(* at the caret depends on the context, and the checks of a line see its   *)
(* text without them.  A step is one pass of a loop of the constructor.    *)
(***************************************************************************)
EXTENDS Integers, Sequences

CONSTANT Sources    \* sequences of bytes: "hash", "single" and "double" (quotes),
                    \* "backslash", "newline" (or a return), "ampersand", "caret",
                    \* "r", "a" (for what else a name may have), ...

VARIABLES
    source,
    i,              \* the place that is read next
    inside,         \* which of the loops reads it
    span,           \* the span that is being read
    spans

vars == <<source, i, inside, span, spans>>

(* Sources are finite, and no byte of theirs is what stands for the place  *)
(* behind the end.                                                         *)
Finite ==
    \A s \in Sources : /\ Len(s) \in Nat /\ DOMAIN s = 1..Len(s)
                       /\ \A n \in DOMAIN s : s[n] # "end"

-----------------------------------------------------------------------------

(* source[at] with the bytes counted from 0.                               *)
Byte(at) == IF at \in 0..(Len(source) - 1) THEN source[at + 1] ELSE "end"
Quote(at) == Byte(at) \in {"single", "double"}
Name(byte) == byte \in {"a", "r"}

(* A letter before a string that makes it raw, or a sign of its kind.      *)
(* Mutant: a name may end in the letter.                                   *)
RawAnywhere == Byte(i) = "r" /\ Quote(i + 1)

Raw == Byte(i) = "r" /\ Quote(i + 1) /\ ~Name(Byte(i - 1))
Sign == Byte(i) \in {"ampersand", "caret"} /\ Quote(i + 1)
QuoteAt == IF Raw \/ Sign THEN i + 1 ELSE i

Width(at) == IF Byte(at + 1) = Byte(at) /\ Byte(at + 2) = Byte(at) THEN 3 ELSE 1

NoSpan == [kind |-> "string", begin |-> 0, quoteBegin |-> 0, quote |-> "none", width |-> 0,
           raw |-> FALSE, end |-> 0, closed |-> FALSE]

Skip ==
    /\ inside = "code" /\ i < Len(source) /\ Byte(i) # "hash" /\ ~Quote(QuoteAt)
    /\ i' = i + 1 /\ UNCHANGED <<source, inside, span, spans>>

CommentBegins ==
    /\ inside = "code" /\ Byte(i) = "hash"
    /\ span' = [NoSpan EXCEPT !.kind = "comment", !.begin = i]
    /\ inside' = "comment" /\ i' = i + 1
    /\ UNCHANGED <<source, spans>>

StringBegins ==
    /\ inside = "code" /\ Byte(i) # "hash" /\ Quote(QuoteAt)
    /\ span' = [NoSpan EXCEPT !.kind = IF Sign THEN Byte(i) ELSE "string", !.begin = i,
                              !.quoteBegin = QuoteAt, !.quote = Byte(QuoteAt),
                              !.width = Width(QuoteAt), !.raw = Raw]
    /\ inside' = "string" /\ i' = QuoteAt + Width(QuoteAt)
    /\ UNCHANGED <<source, spans>>

(* The inner loops.                                                        *)
Read(next) == i' = next /\ UNCHANGED <<source, inside, span, spans>>

CommentReads == inside = "comment" /\ Byte(i) \notin {"end", "newline"} /\ Read(i + 1)

(* Mutant: a raw string has no escapes.                                    *)
CookedOnly == IF Byte(i + 1) = "end" \/ span.raw THEN i + 1 ELSE i + 2

(* Behind a backslash: a raw string keeps only its quotes and backslashes. *)
Escaped ==
    IF Byte(i + 1) = "end" \/ (span.raw /\ Byte(i + 1) \notin {span.quote, "backslash"})
    THEN i + 1 ELSE i + 2

Closes == /\ Byte(i) = span.quote
          /\ \/ span.width = 1
             \/ Byte(i + 1) = span.quote /\ Byte(i + 2) = span.quote

StringEscapes == inside = "string" /\ Byte(i) = "backslash" /\ Read(Escaped)

StringReads ==
    /\ inside = "string" /\ Byte(i) \notin {"end", "backslash"} /\ ~Closes
    /\ Read(i + 1)

(* The span ends, and the outer loop goes on behind it.                    *)
End(next, closed) ==
    /\ spans' = Append(spans, [span EXCEPT !.end = next, !.closed = closed])
    /\ i' = next /\ inside' = "code" /\ span' = NoSpan
    /\ UNCHANGED source

CommentEnds == inside = "comment" /\ Byte(i) \in {"end", "newline"} /\ End(i, FALSE)
StringCloses == inside = "string" /\ Closes /\ End(i + span.width, TRUE)
StringStaysOpen == inside = "string" /\ Byte(i) = "end" /\ End(i, FALSE)

Init ==
    /\ source \in Sources /\ i = 0
    /\ inside = "code" /\ span = NoSpan /\ spans = <<>>

Next ==
    \/ Skip \/ CommentBegins \/ CommentReads \/ CommentEnds
    \/ StringBegins \/ StringEscapes \/ StringReads \/ StringCloses \/ StringStaysOpen

Spec == Init /\ [][Next]_vars

-----------------------------------------------------------------------------
(* span_at, context_span and masked_text.                                  *)

SpanAt(byte) == {n \in DOMAIN spans : spans[n].begin <= byte /\ byte < spans[n].end}

ContextSpan(offset) ==
    {n \in SpanAt(offset - 1) :
        LET s == spans[n]
        IN  \/ s.kind = "comment"
            \/ offset > s.quoteBegin /\ (offset < s.end \/ ~s.closed)}

ContextAt(offset) == IF ContextSpan(offset) = {} THEN "code"
                     ELSE spans[CHOOSE n \in ContextSpan(offset) : TRUE].kind
Code(byte) == SpanAt(byte) = {}

-----------------------------------------------------------------------------
(* Properties.  The reference reads byte after byte and remembers what it  *)
(* is in: the quote and whether three of them end it, and how many bytes   *)
(* still belong to what was begun.                                         *)

Outside == [in |-> "code", quote |-> "none", width |-> 0, raw |-> FALSE, due |-> 0]

Thrice(at) == Byte(at + 1) = Byte(at) /\ Byte(at + 2) = Byte(at)

(* In code, or behind the last quote of a string.                          *)
FromCode(at) ==
    IF Byte(at) = "hash" THEN [Outside EXCEPT !.in = "comment"]
    ELSE IF Quote(at)
         THEN [in |-> "string", quote |-> Byte(at), width |-> IF Thrice(at) THEN 3 ELSE 1,
               raw |-> Byte(at - 1) = "r" /\ ~Name(Byte(at - 2)),
               due |-> IF Thrice(at) THEN 2 ELSE 0]
    ELSE Outside

FromString(before, at) ==
    IF Byte(at) = "backslash"
    THEN [before EXCEPT
             !.due = IF before.raw /\ Byte(at + 1) \notin {before.quote, "backslash"}
                     THEN 0 ELSE 1]
    ELSE IF Byte(at) = before.quote /\ (before.width = 3 => Thrice(at))
         THEN [before EXCEPT !.in = "closing", !.due = before.width - 1]
    ELSE before

After(before, at) ==
    CASE before.due > 0 -> [before EXCEPT !.due = @ - 1]
      [] before.due = 0 /\ before.in = "comment" ->
             IF Byte(at) = "newline" THEN Outside ELSE before
      [] before.due = 0 /\ before.in = "string" -> FromString(before, at)
      [] OTHER -> FromCode(at)

(* What the last of the first bytes is in.                                 *)
Reading[bytes \in Nat] ==
    IF bytes = 0 THEN Outside ELSE After(Reading[bytes - 1], bytes - 1)

Done == inside = "code" /\ i = Len(source)

(* A byte that marks the string whose quote follows.                       *)
Marks(at) == /\ \/ Byte(at) \in {"ampersand", "caret"}
                \/ Byte(at) = "r" /\ ~Name(Byte(at - 1))
             /\ Reading[at + 1].in = "code" /\ Quote(at + 1)

(* A byte is taken for code exactly if reading up to it, byte after byte,   *)
(* is in no comment and in no string, but for what marks a string.          *)
CodeFound ==
    Done => \A at \in 0..(Len(source) - 1) :
        Code(at) <=> Reading[at + 1].in = "code" /\ ~Marks(at)

(* The spans follow each other and end in the source; only the last string  *)
(* may be left open.                                                       *)
SpansOrdered ==
    \A n \in DOMAIN spans :
        /\ spans[n].begin < spans[n].end /\ spans[n].end <= Len(source)
        /\ n < Len(spans) => /\ spans[n].end <= spans[n + 1].begin
                             /\ spans[n].kind = "comment" \/ spans[n].closed

(* The caret is in a string or in a comment exactly if what is typed there  *)
(* would belong to it: a closed string is left behind its last quote, a     *)
(* comment only with its line (context_span).                               *)
ContextFollows ==
    Done => \A offset \in 1..Len(source) :
        ContextAt(offset) # "code" <=>
            LET state == Reading[offset]
            IN \/ state.in \in {"comment", "string"}
               \/ state.in = "closing" /\ state.due > 0

(* Strings and comments are found where reading byte after byte finds      *)
(* them.                                                                   *)
SpansRight ==
    /\ CodeFound
    /\ SpansOrdered
    /\ ContextFollows
=============================================================================
