------------------------------ MODULE SourceLines ------------------------------
(***************************************************************************)
(* A script as the sequence of its lines.  A line of depth d + 1 is in the *)
(* block of the last line of depth d before it, as the syntax tree that    *)
(* Document keeps of a script (src/src/core/document.hpp) nests its nodes. *)
(***************************************************************************)
EXTENDS Naturals, Sequences

(* The line whose block a line is in; 0 is the script itself.              *)
Parent(lines, l) ==
    IF lines[l].depth = 0 THEN 0
    ELSE CHOOSE k \in 1..(l - 1) :
             /\ lines[k].depth = lines[l].depth - 1
             /\ \A j \in (k + 1)..(l - 1) : lines[j].depth >= lines[l].depth

Nested(lines, l, k) ==
    k <= l /\ \A j \in (k + 1)..l : lines[j].depth > lines[k].depth

LastNested(lines, k) ==
    CHOOSE l \in k..Len(lines) :
        Nested(lines, l, k) /\ \A j \in (l + 1)..Len(lines) : ~Nested(lines, j, k)

Block(lines, k) == {l \in DOMAIN lines : Parent(lines, l) = k}

WellNested(lines) ==
    /\ lines # <<>> => lines[1].depth = 0
    /\ \A l \in DOMAIN lines : l > 1 => lines[l].depth <= lines[l - 1].depth + 1

Earliest(set) == CHOOSE l \in set : \A k \in set : l <= k
Latest(set) == CHOOSE l \in set : \A k \in set : k <= l
=============================================================================
