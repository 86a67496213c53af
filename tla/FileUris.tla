------------------------------- MODULE FileUris -------------------------------
(***************************************************************************)
(* File URIs (src/src/core/uri.cpp).  A client may write the URI of a file *)
(* in several ways, and the documents are kept by their URI: one file must *)
(* have one canonical URI.  A character that is coded takes three places:  *)
(* the percent sign and two digits, here the character and how they are    *)
(* written.                                                                *)
(***************************************************************************)
EXTENDS Naturals, Sequences, SequencesExt

CONSTANTS
    Paths               \* bound: the paths that clients name

VARIABLES
    windows,            \* _WIN32
    path,               \* the file, as the client names it
    uri,                \* how it writes its URI, or something that is none
    canonical, opened   \* canonical_file_uri and path_for_file_uri

vars == <<windows, path, uri, canonical, opened>>

Failed == <<"nullopt">>
NoUri == [scheme |-> "none", host |-> "", text |-> <<>>]
Letters == {"c", "C"}
Plain == Letters \cup {"/", ":", "."}   \* what percent_encode keeps
Characters == Plain \cup {" ", "%"}

-----------------------------------------------------------------------------

Coded(char, digits) == <<"%", char, digits>>

(* Mutant: a percent sign is left as it is.                                *)
KeepPercent(char) == char \in Plain \cup {"%"}

Kept(char) == char \in Plain

PercentEncode(text) ==
    FlattenSeq([i \in DOMAIN text |->
        IF Kept(text[i]) THEN <<text[i]>> ELSE Coded(text[i], "upper")])

(* Digits that are no hexadecimal ones, or that are missing, or a zero.    *)
Wrong(text, i) ==
    text[i] = "%" /\ (\/ i + 2 > Len(text)
                      \/ text[i + 2] \notin {"upper", "lower"}
                      \/ text[i + 1] = "zero")

PercentDecode(text) ==
    LET decoded[i \in 1..(Len(text) + 1)] ==
            CASE i > Len(text) -> <<>>
              [] i <= Len(text) /\ text[i] = "%" -> <<text[i + 1]>> \o decoded[i + 3]
              [] OTHER -> <<text[i]>> \o decoded[i + 1]
        right[i \in Nat] ==
            \/ i > Len(text)
            \/ IF text[i] = "%" THEN ~Wrong(text, i) /\ right[i + 3]
               ELSE text[i] # "zero" /\ right[i + 1]
    IN IF right[1] THEN decoded[1] ELSE Failed

(* decoded_local_file_uri: no host, or this one.                           *)
Decoded(u) ==
    IF u.scheme # "file" \/ u.host \notin {"", "localhost"} \/ u.text = <<>>
       \/ u.text[1] # "/" THEN Failed
    ELSE PercentDecode(u.text)

Upper(letter) == IF letter = "c" THEN "C" ELSE letter
Drive(text) == Len(text) >= 3 /\ text[1] = "/" /\ text[2] \in Letters /\ text[3] = ":"

(* Mutant: a drive keeps its letter.                                       *)
AsWritten(text) == text

(* canonicalize_windows_drive                                              *)
WithDrive(text) ==
    IF windows /\ Drive(text) THEN [text EXCEPT ![2] = Upper(@)] ELSE text

Uri(text) == [scheme |-> "file", host |-> "", text |-> PercentEncode(text)]

CanonicalFileUri(u) ==
    IF Decoded(u) = Failed THEN NoUri ELSE Uri(WithDrive(Decoded(u)))

(* A path of the system: on Windows "C:/" is a root, and so is "/"; after  *)
(* "C:" alone, the names are those of a directory of that drive.           *)
HasDrive(text) == windows /\ Len(text) >= 2 /\ text[1] \in Letters /\ text[2] = ":"
RootOf(text) ==
    LET drive == IF HasDrive(text) THEN SubSeq(text, 1, 2) ELSE <<>>
        rest == SubSeq(text, Len(drive) + 1, Len(text))
    IN IF rest # <<>> /\ rest[1] = "/" THEN Append(drive, "/") ELSE drive
Native(text) == IF windows /\ Drive(text) THEN Tail(text) ELSE text

(* The names between separators, the last of them empty after a separator. *)
Names(text) ==
    FoldLeft(LAMBDA names, char :
                 IF char = "/" THEN Append(names, <<>>)
                 ELSE [names EXCEPT ![Len(names)] = Append(@, char)], <<<<>>>>, text)

Dot == <<".">>
DotDot == <<".", ".">>

(* std::filesystem::path::lexically_normal                                 *)
Normal(text) ==
    LET root == RootOf(text)
        names == Names(SubSeq(text, Len(root) + 1, Len(text)))
        Resolve(kept, name) ==
            CASE name \in {<<>>, Dot} -> kept
              [] name = DotDot /\ kept = <<>> /\ root # <<>> /\ Last(root) = "/" -> kept
              [] name = DotDot /\ kept # <<>> /\ Last(kept) # DotDot -> Front(kept)
              [] OTHER -> Append(kept, name)
        kept == FoldLeft(Resolve, <<>>, names)
        directory == kept # <<>> /\ Last(kept) # DotDot
                     /\ Last(names) \in {<<>>, Dot, DotDot}
    IN root \o FlattenSeq([i \in DOMAIN kept |->
                              IF i < Len(kept) \/ directory THEN Append(kept[i], "/")
                              ELSE kept[i]])

(* std::filesystem::absolute, where the working directory of Windows is the*)
(* root of drive C: a path without a drive, or without a root, gets it.    *)
Absolute(text) ==
    CASE ~windows -> text
      [] HasDrive(text) /\ Len(RootOf(text)) = 3 -> text
      [] HasDrive(text) /\ Len(RootOf(text)) = 2 ->
             <<"C", ":", "/">> \o SubSeq(text, 3, Len(text))
      [] OTHER -> <<"C", ":">> \o text

PathForFileUri(u) ==
    IF Decoded(u) = Failed THEN Failed ELSE Normal(Native(WithDrive(Decoded(u))))

FileUriForPath(text) ==
    LET value == Normal(Absolute(text))
    IN CanonicalFileUri(Uri(WithDrive(IF HasDrive(value) THEN <<"/">> \o value ELSE value)))

-----------------------------------------------------------------------------

(* How a client may write a path: each character plain or coded.           *)
Spellings(text) ==
    LET Of(char) == {Coded(char, "upper"), Coded(char, "lower")}
                    \cup (IF char = "%" THEN {} ELSE {<<char>>})
        all[i \in 0..Len(text)] ==
            IF i = 0 THEN {<<>>}
            ELSE {s \o t : s \in all[i - 1],
                           t \in IF i = 1 THEN {<<"/">>} ELSE Of(text[i])}
    IN all[Len(text)]

Malformed == {<<"/", "%">>, <<"/", "%", "c">>, <<"/", "%", "c", "other">>,
              <<"/", "%", "zero", "upper">>, <<"/", "zero">>, <<>>}

(* Windows takes two separators for the network, and cuts the dots and the *)
(* spaces at the end of a name: such paths are left out.                   *)
Usual(text) ==
    /\ ~(Len(text) > 1 /\ text[2] = "/")
    /\ \A name \in ToSet(Names(text)) :
           name \in {<<>>, Dot, DotDot} \/ Last(name) \notin {".", " "}

Init ==
    /\ windows \in BOOLEAN
    /\ path \in {p \in Paths : windows => Usual(p)}
    /\ \E host \in {"", "localhost", "else"} :
          \/ \E t \in Spellings(path) : uri = [scheme |-> "file", host |-> host, text |-> t]
          \/ \E t \in Malformed : uri = [scheme |-> "file", host |-> host, text |-> t]
    /\ canonical = NoUri /\ opened = <<>>

Receive ==
    /\ opened = <<>>
    /\ canonical' = CanonicalFileUri(uri) /\ opened' = PathForFileUri(uri)
    /\ UNCHANGED <<windows, path, uri>>

Next == Receive
Spec == Init /\ [][Next]_vars

-----------------------------------------------------------------------------
(* Properties.                                                             *)

Known == uri.text \notin Malformed /\ uri.host # "else"

(* A path that is absolute and normal; canonical_file_uri makes none so.   *)
Ordinary(text) == Normal(Absolute(Native(text))) = Native(text)

(* However a client codes the characters of an ordinary path, the file has  *)
(* the URI that the server makes of it when it scans, so that no document   *)
(* is there twice; and the URI that the server makes of any path, ordinary  *)
(* or not, is canonical and opens that file.                                *)
OneUriPerFile ==
    opened # <<>> /\ Known =>
        /\ Ordinary(WithDrive(path)) => canonical = FileUriForPath(opened)
        /\ CanonicalFileUri(canonical) = canonical
        /\ CanonicalFileUri(FileUriForPath(opened)) = FileUriForPath(opened)
        /\ PathForFileUri(FileUriForPath(opened)) = Normal(Absolute(opened))

(* The file that is opened is the one that the client names, and nothing    *)
(* else is opened: not of another host, and not for a text that is no URI.  *)
FileIsNamed ==
    opened # <<>> =>
        IF Known THEN opened = Normal(Native(WithDrive(path)))
        ELSE opened = Failed /\ canonical = NoUri

(* A file has one URI, and a URI opens no other file.                      *)
FilesIdentified ==
    /\ OneUriPerFile
    /\ FileIsNamed
=============================================================================
