--------------------------- MODULE EngineConnection ---------------------------
(***************************************************************************)
(* EngineConnection (src/src/lsp/engine_transport.cpp): messages framed by *)
(* a Content-Length header on a socket that delivers and accepts whatever  *)
(* number of bytes it likes.  Bytes are units: "h" of a header, "e" of the *)
(* blank line that ends it, "b" of a body; a body may hold "e" too.        *)
(***************************************************************************)
EXTENDS Naturals, Sequences

CONSTANTS
    Dialogs,            \* what the engine may send: the messages, the units
                        \* they are sent as, and where each of them starts
    Packets,            \* what the bridge sends: units of each packet
    Limit, EndSize      \* units of the longest header, and of the blank line

VARIABLES
    dialog,             \* what the engine sends here
    transit,            \* what of it has not arrived, as units
    incoming,           \* what the socket holds
    buffer,             \* Impl::buffer
    at,                 \* what the bridge does: "idle", "receive", "send", "closed"
    messages,           \* the bodies that receive has returned
    packet, offset,     \* the number of the packet that is sent, and how far
    taken               \* what the engine has read of each packet

vars == <<dialog, transit, incoming, buffer, at, messages, packet, offset, taken>>
sending == <<packet, offset, taken>>

-----------------------------------------------------------------------------

Units == {"h", "e", "b"}
Blank == [i \in 1..EndSize |-> "e"]
Header(m) == [i \in 1..m.header |-> "h"] \o Blank

(* The units of a dialog are those of its messages, one after the other; a *)
(* message without a body stands for one whose header is invalid.          *)
LaidOut(d) ==
    /\ d.messages \in Seq([header : Nat, body : Seq(Units)])
    /\ d.units \in Seq(Units)
    /\ d.starts \in [1..(Len(d.messages) + 1) -> 0..Len(d.units)]
    /\ d.starts[1] = 0 /\ d.starts[Len(d.messages) + 1] = Len(d.units)
    /\ \A i \in 1..Len(d.messages) :
          /\ d.starts[i] <= d.starts[i + 1]
          /\ SubSeq(d.units, d.starts[i] + 1, d.starts[i + 1])
                 = Header(d.messages[i]) \o d.messages[i].body

Setting ==
    /\ Limit \in Nat /\ EndSize \in Nat \ {0}
    /\ Packets \in Seq(Seq(Units) \ {<<>>})
    /\ \A d \in Dialogs : LaidOut(d)

(* buffer.find of the blank line: how long the header is before it.        *)
Ends(units) ==
    {i \in 0..(Len(units) - EndSize) : SubSeq(units, i + 1, i + EndSize) = Blank}
Found(units) == Ends(units) # {}
HeaderLength(units) == CHOOSE i \in Ends(units) : \A j \in Ends(units) : i <= j

(* The header names its message, as its number: what comes next to be read.*)
Announced == dialog.messages[Len(messages) + 1]
BodyStart == HeaderLength(buffer) + EndSize
Whole == /\ Found(buffer) /\ HeaderLength(buffer) <= Limit
         /\ Announced.body # <<>>
         /\ Len(buffer) >= BodyStart + Len(Announced.body)
Refused == \/ Found(buffer) /\ HeaderLength(buffer) > Limit
           \/ Found(buffer) /\ Announced.body = <<>>
           \/ ~Found(buffer) /\ Len(buffer) > Limit

-----------------------------------------------------------------------------

(* The network.                                                            *)
Arrive(n) ==
    /\ n \in 1..Len(transit)
    /\ incoming' = incoming \o SubSeq(transit, 1, n)
    /\ transit' = SubSeq(transit, n + 1, Len(transit))
    /\ UNCHANGED <<dialog, buffer, at, messages, sending>>

(* Mutant: what was read before is not looked at.                          *)
ReadableSocket == incoming # <<>>

readable == buffer # <<>> \/ incoming # <<>>

(* The bridge has nothing to send: it looks for a message, or waits.       *)
Look ==
    /\ at = "idle" /\ readable
    /\ at' = "receive"
    /\ UNCHANGED <<dialog, transit, incoming, buffer, messages, sending>>

(* Mutant: the header stays in the buffer.                                 *)
ReceiveBody ==
    /\ at = "receive" /\ Whole
    /\ LET from == BodyStart + 1
           to == BodyStart + Len(Announced.body)
       IN /\ messages' = Append(messages, SubSeq(buffer, from, to))
          /\ buffer' = SubSeq(buffer, Len(Announced.body) + 1, Len(buffer))
    /\ at' = "idle"
    /\ UNCHANGED <<dialog, transit, incoming, sending>>

(* receive: the message is whole.                                          *)
Receive ==
    /\ at = "receive" /\ Whole
    /\ LET from == BodyStart + 1
           to == BodyStart + Len(Announced.body)
       IN /\ messages' = Append(messages, SubSeq(buffer, from, to))
          /\ buffer' = SubSeq(buffer, to + 1, Len(buffer))
    /\ at' = "idle"
    /\ UNCHANGED <<dialog, transit, incoming, sending>>

(* Mutant: a header of the limit itself is too long when it is read alone. *)
RefuseEarly ==
    /\ at = "receive"
    /\ \/ Refused
       \/ ~Found(buffer) /\ Len(buffer) >= Limit - 1
    /\ at' = "refused"
    /\ UNCHANGED <<dialog, transit, incoming, buffer, messages, sending>>

(* receive: what is there cannot be a message; the connection is given up. *)
Refuse ==
    /\ at = "receive" /\ Refused
    /\ at' = "refused"
    /\ UNCHANGED <<dialog, transit, incoming, buffer, messages, sending>>

(* recv: some of what the socket holds.                                    *)
Read(n) ==
    /\ at = "receive" /\ ~Whole /\ ~Refused
    /\ n \in 1..Len(incoming)
    /\ buffer' = buffer \o SubSeq(incoming, 1, n)
    /\ incoming' = SubSeq(incoming, n + 1, Len(incoming))
    /\ UNCHANGED <<dialog, transit, at, messages, sending>>

(* send: the next packet, as much at a time as the socket takes.           *)
Compose ==
    /\ at = "idle" /\ packet < Len(Packets)
    /\ at' = "send" /\ packet' = packet + 1 /\ offset' = 0
    /\ taken' = Append(taken, <<>>)
    /\ UNCHANGED <<dialog, transit, incoming, buffer, messages>>

(* Mutant: what was not taken is dropped.                                  *)
SendOnce(n) ==
    /\ at = "send" /\ n \in 1..(Len(Packets[packet]) - offset)
    /\ taken' = [taken EXCEPT ![packet] =
                     @ \o SubSeq(Packets[packet], offset + 1, offset + n)]
    /\ offset' = Len(Packets[packet]) /\ at' = "idle"
    /\ UNCHANGED <<dialog, transit, incoming, buffer, messages, packet>>

Send(n) ==
    /\ at = "send" /\ n \in 1..(Len(Packets[packet]) - offset)
    /\ taken' = [taken EXCEPT ![packet] =
                     @ \o SubSeq(Packets[packet], offset + 1, offset + n)]
    /\ offset' = offset + n
    /\ at' = IF offset' = Len(Packets[packet]) THEN "idle" ELSE "send"
    /\ UNCHANGED <<dialog, transit, incoming, buffer, messages, packet>>

(* checkpoint: it was cancelled, it took too long, or the engine is gone.  *)
GiveUp ==
    /\ at \in {"receive", "send"}
    /\ at' = "closed"
    /\ UNCHANGED <<dialog, transit, incoming, buffer, messages, sending>>

Init ==
    /\ dialog \in Dialogs /\ transit = dialog.units
    /\ incoming = <<>> /\ buffer = <<>> /\ at = "idle" /\ messages = <<>>
    /\ packet = 0 /\ offset = 0 /\ taken = <<>>

Next ==
    \/ \E n \in 1..Len(transit) : Arrive(n)
    \/ \E n \in 1..Len(incoming) : Read(n)
    \/ at = "send" /\ \E n \in 1..Len(Packets[packet]) : Send(n)
    \/ Look \/ Receive \/ Refuse \/ Compose \/ GiveUp

Spec == Init /\ [][Next]_vars

-----------------------------------------------------------------------------
(* Properties.                                                             *)

(* However the bytes arrive, and whatever the bodies hold, the messages are *)
(* the engine's, whole and in their order, and none is lost in between.     *)
MessagesWhole ==
    /\ Len(messages) <= Len(dialog.messages)
    /\ \A i \in 1..Len(messages) : messages[i] = dialog.messages[i].body
    /\ buffer \o incoming \o transit
           = SubSeq(dialog.units, dialog.starts[Len(messages) + 1] + 1, Len(dialog.units))

(* A header is refused only if it is really too long or invalid; how its    *)
(* bytes arrive makes a difference for those of the last EndSize - 1        *)
(* lengths alone.                                                          *)
RefusedForCause ==
    at = "refused" => \/ Announced.header > Limit - (EndSize - 1)
                      \/ Announced.body = <<>>

(* The bridge never goes idle over a message: one that is whole in the      *)
(* buffer is readable, although the socket has nothing more (readable).     *)
NothingOverlooked == Whole /\ at = "idle" => readable

(* The engine reads the packets whole and in order, but for the one that is *)
(* being sent or was given up, after which nothing follows.                 *)
PacketsWhole ==
    /\ Len(taken) = packet
    /\ \A i \in 1..packet :
          taken[i] = IF i = packet THEN SubSeq(Packets[i], 1, offset) ELSE Packets[i]
    /\ at = "idle" /\ packet > 0 => offset = Len(Packets[packet])

(* Messages pass whole and in order in both directions, however the bytes  *)
(* come, and none is waited for when it is there.                          *)
StreamFaithful ==
    /\ MessagesWhole
    /\ RefusedForCause
    /\ NothingOverlooked
    /\ PacketsWhole
=============================================================================
