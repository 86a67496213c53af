---------------------------- MODULE WarningPolicy ----------------------------
(***************************************************************************)
(* WarningPolicy (src/src/core/warnings.cpp): what project.godot says of   *)
(* the warnings, read line after line, and the level of a warning in a     *)
(* script.  A directory is the sequence of its names.                      *)
(***************************************************************************)
EXTENDS Naturals, Sequences, SequencesExt

CONSTANTS
    Lines,              \* the lines of project.godot
    MaxLines,           \* bound: how many of them
    Paths, Names        \* the directories of scripts, and the warnings

VARIABLES
    read,               \* the lines that were read
    section,
    enabled, levels, directories

vars == <<read, section, enabled, levels, directories>>

(* What holds without any setting.                                         *)
Defaults == {"unused_variable", "unreachable_code"}
Addons == [directory |-> <<"addons">>, decision |-> 0]

(* directory_rules is an object: a directory has one decision.             *)
Functional(rules) ==
    \A d, e \in rules : d.directory = e.directory => d.decision = e.decision
Written ==
    /\ Paths \cup {Addons.directory} \subseteq Seq(STRING)
    /\ \A line \in Lines : line.key = "directory_rules" =>
           /\ \A d \in line.rules : d.directory \in Seq(STRING)
           /\ Functional(line.rules)

Init ==
    /\ read = <<>> /\ section = ""
    /\ enabled = TRUE /\ directories = {Addons}
    /\ levels = [n \in Names |-> IF n \in Defaults THEN 1 ELSE 0]

(* A line of another section, or of another key, changes nothing.          *)
Setting(line, key) ==
    /\ line.key = key /\ section = "debug" /\ UNCHANGED section
Read(line) == Len(read) < MaxLines /\ read' = Append(read, line)

ReadSection(line) ==
    /\ Read(line) /\ line.key = "section"
    /\ section' = line.section
    /\ UNCHANGED <<enabled, levels, directories>>

ReadIgnored(line) ==
    /\ Read(line) /\ line.key # "section"
    /\ section # "debug" \/ line.key = "other"
    /\ UNCHANGED <<section, enabled, levels, directories>>

ReadEnable(line) ==
    /\ Read(line) /\ Setting(line, "enable")
    /\ enabled' = line.on
    /\ UNCHANGED <<levels, directories>>

(* Mutant: a level that is not one switches the warning off.               *)
ReadAnyLevel(line) ==
    /\ Read(line) /\ Setting(line, "level")
    /\ levels' = [levels EXCEPT ![line.name] = IF line.value \in 0..2
                                               THEN line.value ELSE 0]
    /\ UNCHANGED <<enabled, directories>>

ReadLevel(line) ==
    /\ Read(line) /\ Setting(line, "level")
    /\ levels' = IF line.value \in 0..2 THEN [levels EXCEPT ![line.name] = line.value]
                 ELSE levels
    /\ UNCHANGED <<enabled, directories>>

(* Mutant: the rules are added to the ones there are.                      *)
AddRules(line) ==
    /\ Read(line) /\ Setting(line, "directory_rules")
    /\ directories' = directories \cup line.rules
    /\ UNCHANGED <<enabled, levels>>

(* directory_rules takes the place of the rules there are.                 *)
ReadRules(line) ==
    /\ Read(line) /\ Setting(line, "directory_rules")
    /\ directories' = line.rules
    /\ UNCHANGED <<enabled, levels>>

Next == \E line \in Lines :
    \/ ReadSection(line) \/ ReadIgnored(line) \/ ReadEnable(line)
    \/ ReadLevel(line) \/ ReadRules(line)

Spec == Init /\ [][Next]_vars

-----------------------------------------------------------------------------
(* level                                                                   *)

Matching(path) == {d \in directories : d.decision \in {0, 1}
                                       /\ IsPrefix(d.directory, path)}

Included(path) ==
    \A d \in Matching(path) :
        (\A e \in Matching(path) : Len(e.directory) <= Len(d.directory))
            => d.decision = 1

level(name, path) == IF enabled /\ Included(path) THEN levels[name] ELSE 0

-----------------------------------------------------------------------------
(* Properties.                                                             *)

(* The lines that count: those of the debug section.                       *)
InDebug(n) ==
    \E m \in 1..(n - 1) :
        /\ read[m].key = "section" /\ read[m].section = "debug"
        /\ \A k \in (m + 1)..n : read[k].key # "section"
Latest(Test(_)) == LET told == {n \in DOMAIN read : InDebug(n) /\ Test(read[n])}
                 IN IF told = {} THEN 0 ELSE CHOOSE n \in told : \A m \in told : m <= n

(* The rules of a script are those of the innermost directory around it     *)
(* that the last directory_rules of the debug section name, whatever the    *)
(* rules before it; without any, add-ons are excluded.                      *)
InnermostRuleCounts ==
    LET n == Latest(LAMBDA line : line.key = "directory_rules")
        rules == IF n = 0 THEN {Addons} ELSE read[n].rules
        around(path) == {d \in rules : d.decision \in {0, 1} /\ IsPrefix(d.directory, path)}
    IN \A path \in Paths :
           Included(path) <=>
               \/ around(path) = {}
               \/ \E d \in around(path) : /\ d.decision = 1
                                          /\ \A e \in around(path) :
                                                 IsPrefix(e.directory, d.directory)

(* A warning has the level of the last valid setting of it in any debug     *)
(* section, unless all of them are switched off by the last enable.         *)
LastSettingCounts ==
    LET on == Latest(LAMBDA line : line.key = "enable")
        Set(name) == Latest(LAMBDA line : line.key = "level" /\ line.name = name
                                        /\ line.value \in 0..2)
    IN \A name \in Names :
           level(name, <<>>) =
               IF on # 0 /\ ~read[on].on THEN 0
               ELSE IF Included(<<>>) THEN
                        IF Set(name) # 0 THEN read[Set(name)].value
                        ELSE IF name \in Defaults THEN 1 ELSE 0
                    ELSE 0

(* The level of a warning in a script is the one project.godot says.       *)
PolicyAsWritten ==
    /\ InnermostRuleCounts
    /\ LastSettingCounts
=============================================================================
