---------------------------- MODULE Deserialization ----------------------------
(***************************************************************************)
(* Reading back what was written: a packet or a datagram of the discovery  *)
(* off a socket, a command replay or a recorded replay off the disk,       *)
(* member by member, as ByteReader does.  On the way the bytes may have    *)
(* been cut short, may have grown, or may hold a value that means nothing; *)
(* which of it becomes known when the reader gets there.                   *)
(***************************************************************************)
EXTENDS Integers, Sequences

CONSTANTS
  MaxCount,  \* the longest list a reader of files takes
  Lengths    \* bound: lengths of lists tried

\* Lists up to one above the longest.
LengthsAssumption == Lengths \subseteq 0 .. MaxCount + 1

Packets == INSTANCE PacketLayouts
Demos   == INSTANCE CommandReplayLayouts
Replays == INSTANCE ReplayLayouts
Finding == INSTANCE DiscoveryLayouts

Versions == {1, 2}
Encodings == {"u8", "u16", "u32", "u64", "i32", "f32", "bool", "enum", "string"}

\* A packet has one version, a file of either kind was written by one of two.
Subjects ==
  [kind : Packets!PacketKinds, length : Lengths, version : {2}]
    \cup [kind : Finding!DiscoveryKinds, length : {0}, version : {2}]
    \cup [kind : {"demo", "replay"}, length : Lengths, version : Versions]

WriterOf(kind) == CASE kind = "demo"   -> Demos!writeBytes
                    [] kind = "replay" -> Replays!save
                    [] kind \in Finding!DiscoveryKinds -> Finding!writeDatagram[kind]
                    [] OTHER           -> Packets!serializePacket(kind)

ReaderOf(kind) == CASE kind = "demo"   -> Demos!readBytes
                    [] kind = "replay" -> Replays!load
                    [] kind \in Finding!DiscoveryKinds -> Finding!readDatagram[kind]
                    [] OTHER           -> Packets!deserializePacket(kind)

VARIABLES
  subject,  \* what was written: its kind, the length of its lists, the version
  bytes,    \* what is left from ByteReader::offset_ on, in members
  todo,     \* what the reader will do next
  damage,   \* what has happened to the bytes so far: "none", "cut", "more", "value"
  spoiled,  \* the member that holds a meaningless value, <<>> if none
  result    \* "reading", "accepted", "refused", or "garbled": a member was
            \* read from the bytes of another

vars == <<subject, bytes, todo, damage, spoiled, result>>

Init ==
  /\ subject \in Subjects
  /\ bytes = Packets!Expanded(WriterOf(subject.kind), subject.length, subject.version)
  /\ todo = Packets!Expanded(ReaderOf(subject.kind), subject.length, subject.version)
  /\ damage = "none" /\ spoiled = <<>>
  /\ result = "reading"

Reads  == result = "reading" /\ todo # <<>> /\ Head(todo).type # "check"
Checks == result = "reading" /\ todo # <<>> /\ Head(todo).type = "check"

\* readCount refuses a list above its maximum before it reads any element.
TooLong(item, datum) == "max" \in DOMAIN item /\ datum.value > item.max

Outcome(item, datum) ==
  IF ~(datum.type = item.type /\ datum.name = item.name) THEN "garbled"
  ELSE IF TooLong(item, datum) THEN "refused" ELSE "reading"

ReadMember ==
  /\ Reads /\ bytes # <<>>
  /\ result' = Outcome(Head(todo), Head(bytes))
  /\ bytes' = Tail(bytes) /\ todo' = Tail(todo)
  /\ \/ UNCHANGED <<damage, spoiled>>
     \/ /\ damage = "none" /\ Head(bytes).type = "enum"
        /\ damage' = "value" /\ spoiled' = Head(bytes).name
  /\ UNCHANGED subject

\* has() fails: the bytes end before the member does.
Underflow ==
  /\ Reads /\ (bytes = <<>> \/ damage = "none")
  /\ damage' = IF bytes = <<>> THEN damage ELSE "cut"
  /\ result' = "refused"
  /\ UNCHANGED <<subject, bytes, todo, spoiled>>

CheckValue ==
  /\ Checks
  /\ result' = IF Head(todo).name = spoiled THEN "refused" ELSE result
  /\ todo' = Tail(todo)
  /\ UNCHANGED <<subject, bytes, damage, spoiled>>

\* Mutant of AtEnd: no look at what is left.
MutAtEnd(more) == TRUE

AtEnd(more) == bytes = <<>> /\ ~more

\* Every member is read; deserializePacket, readBytes and load look whether
\* anything is left.
Finish ==
  /\ result = "reading" /\ todo = <<>>
  /\ \E more \in BOOLEAN :
       /\ more => damage = "none"
       /\ damage' = IF more THEN "more" ELSE damage
       /\ result' = IF AtEnd(more) THEN "accepted" ELSE "refused"
  /\ UNCHANGED <<subject, bytes, todo, spoiled>>

Next == ReadMember \/ Underflow \/ CheckValue \/ Finish

Spec == Init /\ [][Next]_vars

-----------------------------------------------------------------------------
(* Properties.                                                             *)

TypeOK ==
  /\ subject \in Subjects
  /\ \A i \in DOMAIN bytes : bytes[i].type \in Encodings
  /\ \A i \in DOMAIN todo : todo[i].type \in Encodings \cup {"check"}
  /\ damage \in {"none", "cut", "more", "value"}
  /\ spoiled = <<>> <=> damage # "value"
  /\ result \in {"reading", "accepted", "refused", "garbled"}

\* What one function writes the other reads back member for member, whatever
\* the lengths of the lists and whichever version wrote the file; only a list
\* above the reader's maximum is refused.
RoundTrip ==
  damage = "none" =>
    /\ result # "garbled"
    /\ result = "refused" => subject.kind \in {"demo", "replay"} /\ subject.length > MaxCount

\* Nothing that was cut short, continued or spoiled is accepted or misread: a
\* meaningless value never gets into an object.
DamageRefused == damage # "none" => result \in {"reading", "refused"}
=============================================================================
