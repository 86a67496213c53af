------------------------------ MODULE TextEdits ------------------------------
(***************************************************************************)
(* Positions in a text (src/src/core/text.cpp) and the edits of a client   *)
(* (apply_content_changes in src/src/lsp/main.cpp), and what the parser is *)
(* told of an edit (src/src/core/document.cpp).  The server keeps the      *)
(* bytes of UTF-8; a position of the client counts lines, and the UTF-16   *)
(* units of its characters; a point of the parser counts lines and bytes.  *)
(***************************************************************************)
EXTENDS Integers, Sequences, FiniteSetsExt, SequencesExt

CONSTANTS
    MaxLength,          \* bound: characters of a text
    MaxChanges          \* bound: edits of one client

VARIABLES
    bytes,              \* buffers[uri]
    chars,              \* what the client shows
    changes,            \* how many edits it has made
    tree                \* the text and the last edit that the parser knows

vars == <<bytes, chars, changes, tree>>

-----------------------------------------------------------------------------
(* The client's characters: a letter, a digit, a point, a new line, two of *)
(* two bytes that may be in a name, and one of four bytes that may not.    *)

Characters == {"a", "1", ".", "n", "e", "u", "o"}
Encoding(c) == CASE c = "e" -> <<"2", "c">>
                 [] c = "u" -> <<"2", "d">>
                 [] c = "o" -> <<"4", "c", "c", "c">>
                 [] OTHER -> <<c>>
Encode(cs) == FlattenSeq([i \in DOMAIN cs |-> Encoding(cs[i])])
UnitsOf(c) == IF c = "o" THEN 2 ELSE 1

(* The position before character i + 1, and the byte that is there.        *)
PositionOf(cs, i) ==
    LET lines == {j \in 1..i : cs[j] = "n"}
        start == IF lines = {} THEN 0 ELSE Max(lines)
    IN [line |-> Cardinality(lines),
        character |-> MapThenSumSet(LAMBDA k : UnitsOf(cs[k]), (start + 1)..i)]
ByteOf(cs, i) == Len(Encode(SubSeq(cs, 1, i)))

-----------------------------------------------------------------------------
(* text.cpp                                                                *)

(* utf8_width, and the units of what codepoint makes of the bytes.         *)
Width(byte) == CASE byte = "2" -> 2 [] byte = "3" -> 3 [] byte = "4" -> 4 [] OTHER -> 1
Least(m, n) == IF m < n THEN m ELSE n

(* Mutant: every character is one unit.                                    *)
OneUnit(width) == 1

Units(width) == IF width = 4 THEN 2 ELSE 1

(* position_to_byte                                                        *)
LineStart(text, line) ==
    LET ends == {o \in DOMAIN text : text[o] = "n"}
        start[n \in Nat] ==
            IF n = 0 THEN 0
            ELSE LET after == {o \in ends : o > start[n - 1]}
                 IN IF after = {} THEN Len(text) ELSE Min(after)
    IN start[line]

(* Mutant: a position behind the end of its line is on the next one.       *)
PositionBeyondLine(text, position) ==
    LET forward[o \in 0..Len(text), units \in Nat] ==
            IF o = Len(text) \/ units >= position.character THEN o
            ELSE LET width == Least(Width(text[o + 1]), Len(text) - o)
                 IN forward[o + width, units + Units(width)]
    IN forward[LineStart(text, position.line), 0]

PositionToByte(text, position) ==
    LET forward[o \in 0..Len(text), units \in Nat] ==
            IF o = Len(text) \/ units >= position.character THEN o
            ELSE IF text[o + 1] = "n" THEN o
                 ELSE LET width == Least(Width(text[o + 1]), Len(text) - o)
                      IN forward[o + width, units + Units(width)]
    IN forward[LineStart(text, position.line), 0]

(* byte_to_position                                                        *)
ByteToPosition(text, byte) ==
    LET from[o \in 0..Len(text), line \in Nat, character \in Nat] ==
            IF o >= byte THEN [line |-> line, character |-> character]
            ELSE IF text[o + 1] = "n" THEN from[o + 1, line + 1, 0]
                 ELSE LET width == Least(Width(text[o + 1]), byte - o)
                      IN from[o + width, line, character + Units(width)]
    IN from[0, 0, 0]

IdentifierByte(byte) == byte \notin {".", "n"}

(* is_identifier: of the characters beyond ASCII only "e" may be in a name.*)
IsIdentifier(text) ==
    /\ text # <<>> /\ text[1] \in {"a", "2"}
    /\ \A o \in DOMAIN text : text[o] # "4"

(* Mutant: a position right after a name is not in it.                     *)
UnderOnly(text, offset) == offset

(* identifier_at: the byte under the position, or the one before it.       *)
Touched(text, offset) ==
    IF offset < Len(text) /\ IdentifierByte(text[Least(offset + 1, Len(text))])
    THEN offset ELSE offset - 1

IdentifierAt(text, position) ==
    LET at == Touched(text, PositionToByte(text, position)) + 1
        around == {o \in DOMAIN text : \A p \in Least(o, at)..(o + at - Least(o, at)) :
                                           IdentifierByte(text[p])}
        candidate == SubSeq(text, Min(around), Max(around))
    IN IF at \notin DOMAIN text \/ around = {} THEN <<>>
       ELSE IF IsIdentifier(candidate) THEN candidate ELSE <<>>

-----------------------------------------------------------------------------
(* document.cpp: the edit that turns the text of the tree into the new one.*)

Continuation(text, offset) == offset < Len(text) /\ text[Least(offset + 1, Len(text))] \in {"c", "d"}

(* tree_sitter_point                                                       *)
TreeSitterPoint(text, byte) ==
    LET ends == {o \in 1..byte : text[o] = "n"}
    IN [row |-> Cardinality(ends), column |-> byte - (IF ends = {} THEN 0 ELSE Max(ends))]

(* syntax_position: the units of the column's bytes.                       *)
SyntaxPosition(text, byte, point) ==
    LET from[o \in Nat, units \in Nat] ==
            IF o >= byte THEN units
            ELSE from[o + Least(Width(text[o + 1]), byte - o), units + Units(Width(text[o + 1]))]
    IN [line |-> point.row, character |-> from[byte - point.column, 0]]

(* Mutant: the bytes that both texts begin and end with, and no more.      *)
CommonOnly(old, new) ==
    LET shorter == Least(Len(old), Len(new))
        same == Max({n \in 0..shorter : SubSeq(old, 1, n) = SubSeq(new, 1, n)})
        rest == Max({n \in 0..(shorter - same) :
                    SubSeq(old, Len(old) - n + 1, Len(old)) = SubSeq(new, Len(new) - n + 1, Len(new))})
    IN [start |-> same, oldEnd |-> Len(old) - rest, newEnd |-> Len(new) - rest]

(* replacement_edit: the bytes that both texts begin and end with are not  *)
(* touched, but for those of a character that is.                          *)
ReplacementEdit(old, new) ==
    LET shorter == Least(Len(old), Len(new))
        same == Max({n \in 0..shorter : SubSeq(old, 1, n) = SubSeq(new, 1, n)})
        start == Max({n \in 0..same : n = 0 \/ ~(Continuation(old, n) \/ Continuation(new, n))})
        rest == Max({n \in 0..(shorter - start) :
                    SubSeq(old, Len(old) - n + 1, Len(old)) = SubSeq(new, Len(new) - n + 1, Len(new))})
        kept == Max({n \in 0..rest :
                    \/ n = 0
                    \/ ~(Continuation(old, Len(old) - n) \/ Continuation(new, Len(new) - n))})
    IN [start |-> start, oldEnd |-> Len(old) - kept, newEnd |-> Len(new) - kept]

(* Document::parse with the previous document: ts_tree_edit replaces bytes *)
(* of the text that the tree is of, and the points after them move.        *)
Parse(new) ==
    LET edit == ReplacementEdit(bytes, new)
    IN tree' = [text |-> SubSeq(tree.text, 1, edit.start) \o
                         SubSeq(new, edit.start + 1, edit.newEnd) \o
                         SubSeq(tree.text, edit.oldEnd + 1, Len(tree.text)),
                start |-> edit.start, newEnd |-> edit.newEnd,
                lines |-> tree.lines + TreeSitterPoint(new, edit.newEnd).row
                                     - TreeSitterPoint(bytes, edit.oldEnd).row]

-----------------------------------------------------------------------------
(* apply_content_changes                                                   *)

Replaced(text, range, new) ==
    LET begin == PositionToByte(text, range.start)
        end == PositionToByte(text, range.end)
    IN IF begin > end THEN text
       ELSE SubSeq(text, 1, begin) \o new \o SubSeq(text, end + 1, Len(text))

Edited(text, i, j, new) == SubSeq(text, 1, i) \o new \o SubSeq(text, j + 1, Len(text))

(* Mutant: the end of a range is a length.                                 *)
EditFromStart(i, j, new) ==
    /\ changes < MaxChanges /\ i <= j /\ Len(chars) - (j - i) + Len(new) <= MaxLength
    /\ chars' = Edited(chars, i, j, new)
    /\ bytes' = Replaced(bytes, [start |-> PositionOf(chars, i),
                                 end |-> PositionOf(chars, j - i)], Encode(new))
    /\ changes' = changes + 1 /\ Parse(bytes')

(* A change with a range, which is one of the text that it finds.          *)
Edit(i, j, new) ==
    /\ changes < MaxChanges /\ i <= j /\ Len(chars) - (j - i) + Len(new) <= MaxLength
    /\ chars' = Edited(chars, i, j, new)
    /\ bytes' = Replaced(bytes, [start |-> PositionOf(chars, i),
                                 end |-> PositionOf(chars, j)], Encode(new))
    /\ changes' = changes + 1 /\ Parse(bytes')

(* A change without a range.                                               *)
Replace(new) ==
    /\ changes < MaxChanges
    /\ chars' = new /\ bytes' = Encode(new) /\ changes' = changes + 1
    /\ Parse(Encode(new))

Init ==
    /\ chars \in BoundedSeq(Characters, MaxLength) /\ bytes = Encode(chars) /\ changes = 0
    /\ tree = [text |-> bytes, start |-> 0, newEnd |-> 0,
               lines |-> TreeSitterPoint(bytes, Len(bytes)).row]

Next ==
    \/ \E i, j \in 0..Len(chars), new \in BoundedSeq(Characters, 1) : Edit(i, j, new)
    \/ Replace(<<"e", "n", "o">>)

Spec == Init /\ [][Next]_vars

-----------------------------------------------------------------------------
(* Properties.                                                             *)

(* Edit after edit the buffer stays the text that the client shows.         *)
EditsAgree == bytes = Encode(chars)

(* Every place between two characters has one position for the client and   *)
(* the server, in both directions.                                          *)
PositionsAgree ==
    \A i \in 0..Len(chars) :
        /\ PositionToByte(bytes, PositionOf(chars, i)) = ByteOf(chars, i)
        /\ ByteToPosition(bytes, ByteOf(chars, i)) = PositionOf(chars, i)

(* A position that is not in the text, behind the end of its line or inside *)
(* of a character, is taken for the next place between two characters that  *)
(* is on its line: an edit never cuts a character or joins lines.           *)
PositionsClamped ==
    \A line \in 0..2, character \in 0..4 :
        LET byte == PositionToByte(bytes, [line |-> line, character |-> character])
            places == {i \in 0..Len(chars) : PositionOf(chars, i).line = line}
            behind == {i \in places : PositionOf(chars, i).character >= character}
        IN byte = ByteOf(chars, CASE places = {} -> Len(chars)
                                  [] places # {} /\ behind = {} -> Max(places)
                                  [] OTHER -> Min(behind))

(* The name at a place is the word around it, or the one that ends there,   *)
(* if that word is a name, and nothing otherwise (identifier_at).           *)
Word(i, j) == /\ i < j /\ \A k \in (i + 1)..j : chars[k] \notin {".", "n"}
              /\ i > 0 => chars[i] \in {".", "n"}
              /\ j < Len(chars) => chars[j + 1] \in {".", "n"}
IdentifiersFound ==
    \A p \in 0..Len(chars) :
        IdentifierAt(bytes, PositionOf(chars, p)) =
            LET words == {w \in (0..Len(chars)) \X (0..Len(chars)) :
                              Word(w[1], w[2]) /\ w[1] <= p /\ p <= w[2]}
                word == CHOOSE w \in words : TRUE
                text == SubSeq(chars, word[1] + 1, word[2])
            IN IF words = {} THEN <<>>
               ELSE IF text[1] = "1" \/ Contains(text, "o") THEN <<>> ELSE Encode(text)

(* The tree is one of the buffer after every edit, although it is told of   *)
(* the bytes that changed only; what it is told never cuts a character; and *)
(* a place that it counts in bytes is the client's (replacement_edit,       *)
(* tree_sitter_point, syntax_position).                                     *)
TreeFollowsBuffer ==
    /\ tree.text = bytes /\ tree.lines = TreeSitterPoint(bytes, Len(bytes)).row
    /\ {tree.start, tree.newEnd} \subseteq {ByteOf(chars, i) : i \in 0..Len(chars)}
    /\ \A i \in 0..Len(chars) :
           SyntaxPosition(bytes, ByteOf(chars, i), TreeSitterPoint(bytes, ByteOf(chars, i)))
               = PositionOf(chars, i)

(* The buffer, its tree and every place in them are those of the editor.   *)
TextFollowsEditor ==
    /\ EditsAgree
    /\ PositionsAgree
    /\ PositionsClamped
    /\ IdentifiersFound
    /\ TreeFollowsBuffer
=============================================================================
