--------------------------- MODULE WorkspaceRegistry ---------------------------
(***************************************************************************)
(* The index of Workspace (src/src/core/workspace.cpp): which class every  *)
(* global name stands for, what every class inherits, what every constant  *)
(* is an alias of, and which documents depend on which.  A change of one   *)
(* document builds it again, or only mends it.                             *)
(*                                                                         *)
(* A text has a global name (or ""), constants that name classes, one      *)
(* inner class I or none, and a function whose result is a value or what   *)
(* the function of a named class returns.  A reference is the sequence of  *)
(* its names; the first may be a path.  A class is <<uri>> or <<uri, "I">>,*)
(* a type is a class, Native or Unknown.                                   *)
(***************************************************************************)
EXTENDS Naturals, Sequences, FiniteSets, SequencesExt

CONSTANTS
    Uris,               \* the scripts
    Texts,              \* Texts[u]: the texts the script u may have
    Orders              \* sequences of all classes: orders of the hash tables

VARIABLES
    documents,          \* the text of every indexed document
    opened,             \* the documents whose text is the editor's
    registry,
    announced           \* the documents the last change calls affected

vars == <<documents, opened, registry, announced>>

Unknown == <<>>
Native == <<"native">>
Values == {"int", "String"}
RefCounted == <<"RefCounted">>
NoInner == <<"none">>

-----------------------------------------------------------------------------
(* What a text declares.                                                   *)

Classes(ds) == {<<u>> : u \in DOMAIN ds}
                 \cup {<<u, "I">> : u \in {v \in DOMAIN ds : ds[v].inner # NoInner}}

Members(ds, c) ==
    IF Len(c) = 2 THEN {}
    ELSE DOMAIN ds[c[1]].consts \cup (IF ds[c[1]].inner # NoInner THEN {"I"} ELSE {})

Extends(ds, c) == IF Len(c) = 2 THEN ds[c[1]].inner ELSE ds[c[1]].extends

References(text) ==
    {text.extends, text.inner, <<text.result>>} \cup {text.consts[n] : n \in DOMAIN text.consts}
Paths(text) == {ref[1] : ref \in {x \in References(text) : x[1] \in Uris}}
Uses(text) == UNION {ToSet(ref) : ref \in References(text)} \ Uris
Identifiers(text) == Uses(text) \cup DOMAIN text.consts \cup {text.global}

Declaring(ds, name) == {u \in DOMAIN ds : ds[u].global = name}

-----------------------------------------------------------------------------
(* Lookups in an index r of the documents ds.                              *)

RECURSIVE Chain(_, _, _)
(* all_members: a class and the ones it inherits, each of them once.       *)
Chain(bases, c, seen) ==
    IF c \in seen \/ c \notin DOMAIN bases THEN <<>>
    ELSE <<c>> \o Chain(bases, bases[c], seen \cup {c})

FindMember(ds, r, c, name) ==
    LET holders == SelectSeq(Chain(r.bases, c, {}), LAMBDA d : name \in Members(ds, d))
    IN  IF holders = <<>> THEN <<>> ELSE <<holders[1], name>>

Scopes(c) == IF Len(c) = 2 THEN <<c, <<c[1]>>>> ELSE <<c>>

RECURSIVE StaticSymbol(_, _, _, _), StaticReference(_, _, _, _, _)

(* resolve_static_symbol: the function is no type; a symbol that needs     *)
(* itself is unknown.                                                      *)
StaticSymbol(ds, r, s, stack) ==
    IF s = <<>> \/ s \in stack THEN Unknown
    ELSE IF s \in DOMAIN r.statics THEN r.statics[s]
    ELSE IF s[2] = "I" THEN <<s[1][1], "I">>
    ELSE StaticReference(ds, r, ds[s[1][1]].consts[s[2]], s[1], stack \cup {s})

(* resolve_static_reference: the scopes from the inside, then the globals. *)
StaticReference(ds, r, ref, context, stack) ==
    LET name == ref[1]
        In(scope) == LET own == StaticSymbol(ds, r, FindMember(ds, r, scope, name), stack)
                     IN  IF own # Unknown THEN own
                         ELSE IF Append(scope, name) \in Classes(ds) THEN Append(scope, name)
                         ELSE Unknown
        lexical == SelectSeq([i \in DOMAIN Scopes(context) |-> In(Scopes(context)[i])],
                             LAMBDA t : t # Unknown)
        first == IF name \in Uris THEN IF name \in DOMAIN ds THEN <<name>> ELSE Unknown
                 ELSE IF lexical # <<>> THEN lexical[1]
                 ELSE IF name \in DOMAIN r.globals THEN r.globals[name]
                 ELSE IF name = "RefCounted" THEN Native
                 ELSE Unknown
    IN  FoldLeft(LAMBDA t, part : IF t \in Classes(ds)
                                  THEN StaticSymbol(ds, r, FindMember(ds, r, t, part), stack)
                                  ELSE Unknown,
                 first, Tail(ref))

RECURSIVE Returns(_, _, _, _)
(* callable_return_type of the function of u, which has no annotation.     *)
Returns(ds, r, u, stack) ==
    LET result == ds[u].result
    IN  IF result \in Values THEN result
        ELSE IF u \in stack \/ result \notin DOMAIN r.globals THEN "Variant"
        ELSE Returns(ds, r, r.globals[result][1], stack \cup {u})

-----------------------------------------------------------------------------
(* rebuild_registry                                                        *)

Globals(ds) ==
    [n \in {m \in {ds[u].global : u \in DOMAIN ds} \ {""} : Cardinality(Declaring(ds, m)) = 1}
       |-> <<CHOOSE u \in DOMAIN ds : ds[u].global = n>>]

(* One pass over the classes without a base: what was found before in the  *)
(* same pass is already inherited.                                         *)
Pass(ds, r, order) ==
    FoldLeft(LAMBDA q, c : IF q.bases[c] # Unknown THEN q
                           ELSE [q EXCEPT !.bases[c] = StaticReference(ds, q, Extends(ds, c), c, {})],
             r, order)

(* Mutant: the classes are gone through once.                              *)
OnePass(ds, r, order) == Pass(ds, r, order)

RECURSIVE Passes(_, _, _)
(* Until a pass finds no base any more.                                    *)
Passes(ds, r, order) ==
    LET next == Pass(ds, r, order) IN IF next = r THEN r ELSE Passes(ds, next, order)

(* Mutant: the classes that inherit from a circle as well.                 *)
LeadToCircle(bases) ==
    {c \in DOMAIN bases : LET chain == Chain(bases, c, {})
                          IN  bases[chain[Len(chain)]] \in DOMAIN bases}

(* The classes that inherit themselves.                                    *)
OnCircle(bases) ==
    {c \in DOMAIN bases : c \in ToSet(Chain(bases, bases[c], {}))}

(* The members one after the other: what is found is kept for the next.    *)
WithStatics(ds, r, order) ==
    FoldLeft(LAMBDA q, c : FoldLeft(LAMBDA p, n :
                 LET type == StaticSymbol(ds, p, <<c, n>>, {})
                 IN  IF type = Unknown THEN p
                     ELSE [p EXCEPT !.statics = [s \in DOMAIN @ \cup {<<c, n>>} |->
                                                   IF s = <<c, n>> THEN type ELSE @[s]]],
                 q, SetToSeq(Members(ds, c))),
             r, order)

(* dependencies_for_document                                               *)
Dependencies(ds, r, u) ==
    LET inherited == {r.bases[c] : c \in {d \in DOMAIN r.bases : d[1] = u}} \ {Unknown, Native}
        named == {r.globals[n] : n \in Identifiers(ds[u]) \cap DOMAIN r.globals}
    IN  ({c[1] : c \in inherited \cup named} \cup Paths(ds[u])) \ {u}

WithoutBases(ds) ==
    [bases |-> [c \in Classes(ds) |-> Unknown], globals |-> Globals(ds),
     statics |-> [s \in {} |-> Unknown],
     errors |-> [c \in Classes(ds) |-> ""], dependencies |-> [u \in {} |-> {}]]

(* No class on a circle keeps its base, and none is without one unblamed.  *)
WithoutCircles(r, circle) ==
    [r EXCEPT
        !.bases = [c \in DOMAIN @ |-> IF c \in circle THEN Unknown ELSE @[c]],
        !.errors = [c \in DOMAIN @ |-> IF c \in circle THEN "cyclic"
                                       ELSE IF r.bases[c] = Unknown THEN "unresolved"
                                       ELSE ""]]
WithBases(r) == WithoutCircles(r, OnCircle(r.bases))

WithGraph(ds, r) == [r EXCEPT !.dependencies = [u \in DOMAIN ds |-> Dependencies(ds, r, u)]]

(* rebuild_registry, when the hash tables have this order.                 *)
Indexed(ds, classes) ==
    WithGraph(ds, WithStatics(ds, WithBases(Passes(ds, WithoutBases(ds), classes)), classes))
Rebuild(ds, order) == Indexed(ds, SelectSeq(order, LAMBDA c : c \in Classes(ds)))

(* Mutant: only directly.                                                  *)
Direct(r, changed) ==
    changed \cup {u \in DOMAIN r.dependencies : r.dependencies[u] \cap changed # {}}

RECURSIVE Closure(_, _)
(* affected_documents_locked: the documents that depend on the changed     *)
(* ones, directly or through others.                                       *)
Closure(r, changed) ==
    LET next == changed \cup {u \in DOMAIN r.dependencies : r.dependencies[u] \cap changed # {}}
    IN  IF next = changed THEN changed ELSE Closure(r, next)

Affected(r, changed) == Closure(r, changed)

-----------------------------------------------------------------------------
(* Changes                                                                 *)

With(u, text) == [v \in DOMAIN documents \cup {u} |-> IF v = u THEN text ELSE documents[v]]
Without(u) == [v \in DOMAIN documents \ {u} |-> documents[v]]

(* document_topology: everything but the bodies.                           *)
Topology(text) == <<text.global, text.extends, text.consts, text.inner>>

(* document_semantics: what the other documents see of its bodies.         *)
Semantics(ds, r, u) == <<Returns(ds, r, u, {}), [c \in {d \in DOMAIN r.bases : d[1] = u} |-> r.bases[c]]>>

Own(ds, r, u) == {s \in DOMAIN r.statics : s[1][1] = u}

(* The index after a change of bodies only: u is registered anew, with the *)
(* bases it had.                                                           *)
Mended(ds, u, order) ==
    LET left == [registry EXCEPT !.statics = [s \in DOMAIN @ \ Own(ds, registry, u) |-> @[s]]]
    IN  WithStatics(ds, left, SelectSeq(order, LAMBDA c : c \in Classes(ds) /\ c[1] = u))

WithDependencies(ds, u, order) ==
    LET r == Mended(ds, u, order)
    IN  [r EXCEPT !.dependencies[u] = Dependencies(ds, r, u)]

BodyOnly(u, text) ==
    LET ds == With(u, text)
    IN  /\ u \in DOMAIN documents
        /\ Topology(text) = Topology(documents[u])
        /\ Semantics(ds, registry, u) = Semantics(documents, registry, u)

(* update_document_locked, when only bodies changed.                       *)
UpdateFast(u, text) ==
    /\ BodyOnly(u, text)
    /\ documents' = With(u, text)
    /\ opened' = opened \cup {u}
    /\ \E order \in Orders : registry' = WithDependencies(With(u, text), u, order)
    /\ announced' = {u}

(* update_document_locked otherwise.                                       *)
Update(u, text) ==
    /\ ~BodyOnly(u, text)
    /\ documents' = With(u, text)
    /\ opened' = opened \cup {u}
    /\ \E order \in Orders : registry' = Rebuild(With(u, text), order)
    /\ announced' = Affected(registry, {u}) \cup Affected(registry', {u})

(* A changed or removed file: close_document gives the document back to    *)
(* the file, refresh_files leaves an open one alone.  Both callers ask for *)
(* the affected documents before and after.                                *)
FromDisk(u, ds) ==
    /\ documents' = ds
    /\ \E order \in Orders : registry' = Rebuild(ds, order)
    /\ announced' = Affected(registry, {u}) \cup Affected(registry', {u})

Close(u) ==
    /\ u \in opened
    /\ opened' = opened \ {u}
    /\ FromDisk(u, Without(u)) \/ \E text \in Texts[u] : FromDisk(u, With(u, text))

RefreshFile(u) ==
    /\ u \notin opened
    /\ UNCHANGED opened
    /\ \/ u \in DOMAIN documents /\ FromDisk(u, Without(u))
       \/ \E text \in Texts[u] : /\ u \in DOMAIN documents => documents[u] # text
                                 /\ FromDisk(u, With(u, text))

(* open: the files of the project are indexed.                             *)
Init ==
    /\ documents \in {f \in [Uris -> UNION {Texts[u] : u \in Uris}] : \A u \in Uris : f[u] \in Texts[u]}
    /\ opened = {} /\ announced = {}
    /\ \E order \in Orders : registry = Rebuild(documents, order)

Next ==
    \/ \E u \in Uris : \/ \E text \in Texts[u] : UpdateFast(u, text) \/ Update(u, text)
                       \/ Close(u) \/ RefreshFile(u)

Spec == Init /\ [][Next]_vars

-----------------------------------------------------------------------------
(* Properties                                                              *)

(* A constant with the name of a global class hides it, or not, by the     *)
(* order in which bases are found; the properties below are about texts    *)
(* without such a name.                                                    *)
Unshadowed(ds) == \A u, v \in DOMAIN ds : ds[u].global \notin Members(ds, <<v>>)

(* However many changes were only mended, and whatever the order of the    *)
(* hash tables, the index is the one that the texts give when it is built  *)
(* from nothing (update_document_locked, rebuild_registry).                *)
IndexAsRebuilt ==
    Unshadowed(documents) => \A order \in Orders : registry = Rebuild(documents, order)

(* No class inherits itself; a class is without a base only with an error, *)
(* and one that inherits from a class of a circle keeps its base and is    *)
(* not blamed (rebuild_registry).                                          *)
CirclesBroken ==
    LET named(c) == StaticReference(documents, registry, Extends(documents, c), c, {})
    IN  \A c \in DOMAIN registry.bases :
            /\ c \notin ToSet(Chain(registry.bases, registry.bases[c], {}))
            /\ (registry.bases[c] = Unknown) <=> (registry.errors[c] # "")
            /\ registry.errors[c] = "cyclic" =>
                 \E d \in DOMAIN registry.bases :
                     registry.errors[d] = "cyclic" /\ named(d) = c

(* The index is the one its texts give, and circles are broken.            *)
IndexCoherent ==
    /\ IndexAsRebuilt
    /\ CirclesBroken

(* What the diagnostics of a document are made from: what it inherits and  *)
(* names, with everything visible in it.                                   *)
Visible(ds, r, c) ==
    [i \in DOMAIN Chain(r.bases, c, {}) |->
        LET d == Chain(r.bases, c, {})[i]
        IN  <<d, r.errors[d], [n \in Members(ds, d) |-> StaticSymbol(ds, r, <<d, n>>, {})],
              Returns(ds, r, d[1], {})>>]

View(ds, r, u) ==
    IF u \notin DOMAIN ds THEN <<>>
    ELSE <<ds[u], {Visible(ds, r, c) : c \in {d \in DOMAIN r.bases : d[1] = u}},
           [n \in Identifiers(ds[u]) \cap DOMAIN r.globals |-> Visible(ds, r, r.globals[n])],
           [p \in Paths(ds[u]) |-> Visible(ds, r, <<p>>)],
           Cardinality(Declaring(ds, ds[u].global))>>

Unambiguous(ds) ==
    \A u \in DOMAIN ds : ds[u].global # "" => Declaring(ds, ds[u].global) = {u}

(* A change calls every document affected for which anything looks         *)
(* different now, as long as no global name is declared twice              *)
(* (affected_documents, UpdateImpact).                                     *)
AffectedByChange ==
    \A ds \in {documents'}, r \in {registry'} :
        Unambiguous(documents) /\ Unambiguous(ds)
          => \A u \in Uris : View(ds, r, u) # View(documents, registry, u)
                                 => u \in announced'

AffectedComplete == [][AffectedByChange]_vars
=============================================================================
