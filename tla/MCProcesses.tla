------------------------------ MODULE MCProcesses ------------------------------
(***************************************************************************)
(* Instances for TLC of the components of Processes.                       *)
(***************************************************************************)
EXTENDS Processes, TLC

CONSTANTS
    c1, c2, k1, k2,                     \* connections and sockets (Windows)
    i1, i2, d1, d2, t1, t2              \* requests, documents and texts

-----------------------------------------------------------------------------
(* Two connections, of which one carries a request.                        *)

TwoClients == {c1, c2}
OneActive == {c1}
TwoSockets == {k1, k2}

(* The handles of sockets are interchangeable.                             *)
SocketSymmetry == Permutations(TwoSockets)

-----------------------------------------------------------------------------
(* Two messages, with headers that are short, long, too long or invalid,   *)
(* and bodies that may look like the end of one.                           *)

Message(header, body) == [header |-> header, body |-> body]
TwoMessages == [1..2 -> {Message(1, <<"b">>), Message(2, <<"e", "e">>), Message(3, <<"b", "e">>),
                         Message(4, <<"b">>), Message(1, <<>>)}]
Seqs == INSTANCE SequencesExt
Sent(m) == [i \in 1..m.header |-> "h"] \o <<"e", "e">> \o m.body
SentAll(ms) == Seqs!FlattenSeq([i \in DOMAIN ms |-> Sent(ms[i])])
Dialog(ms) ==
    [messages |-> ms, units |-> SentAll(ms),
     starts |-> [i \in 1..(Len(ms) + 1) |-> Len(SentAll(SubSeq(ms, 1, i - 1)))]]
TwoMessageDialogs == {Dialog(ms) : ms \in TwoMessages}
TwoPackets == <<<<"h", "e", "b">>, <<"h", "b", "e">>>>

-----------------------------------------------------------------------------
(* Directory 2 is in 1, 3 in 2 and 4 in 1; 2 and 3 are projects.           *)

TwoIds == {i1, i2}
TwoDocs == {d1, d2}
TwoTexts == {t1, t2}
OneRejected == {d2}
FourDirectories == <<0, 1, 2, 1>>
TwoProjects == {2, 3}
EachOption == {0, 2, 4}
TwoCommandLines == {"none", "attach"}
EachTraffic == {{"requests"}, {"settings"}, {"projects"}, {"documents"}}

-----------------------------------------------------------------------------
(* Directories within each other, and sections that are not about          *)
(* warnings.                                                               *)

Rule(directory, decision) == [directory |-> directory, decision |-> decision]
WarningNames == {"unused_variable", "other"}
SettingLines ==
    {[key |-> "section", section |-> name] : name \in {"debug", "x"}}
    \cup {[key |-> "enable", on |-> on] : on \in BOOLEAN}
    \cup {[key |-> "directory_rules", rules |-> rules] :
             rules \in {{}, {Rule(<<"addons">>, 1), Rule(<<"addons", "a">>, 0)},
                       {Rule(<<>>, 0), Rule(<<"addons">>, 2), Rule(<<"addons", "a">>, 1)}}}
    \cup {[key |-> "level", name |-> name, value |-> value] :
             name \in WarningNames, value \in {0, 2, 3}}
    \cup {[key |-> "other"]}
ScriptPaths == {<<>>, <<"addons">>, <<"addons", "a">>}

-----------------------------------------------------------------------------
(* Short sources of every byte, and longer ones of strings of either kind. *)

LexicalSources ==
    Seqs!BoundedSeq({"hash", "single", "double", "backslash", "newline", "r", "ampersand",
                     "a"}, 4)
    \cup [1..6 -> {"double", "backslash", "r"}] \cup [1..7 -> {"single", "backslash", "a"}]
=============================================================================
