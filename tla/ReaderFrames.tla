---------------------------- MODULE ReaderFrames ----------------------------
(***************************************************************************)
(* The bytes between the agent and the IDT-85, adapters/idt85.py: commands *)
(* with their CRC, the reading of a reply by its first byte, and what the  *)
(* agent makes of the bytes it got.                                        *)
(*                                                                         *)
(* One exchange is Send, and Receive.  All or some bytes of a reply may    *)
(* come too late for it, and be dropped by the next reset or be read by    *)
(* the next exchange, and one byte of a reply may be disturbed.            *)
(***************************************************************************)
EXTENDS Integers, SequencesExt

CONSTANTS
    Address,   \* READER_ADDRESS
    Fields,    \* the lists of EPCs that may be in the radio field
    Modes,     \* the work modes a reader may have
    Noise,     \* bound: what a disturbance can make of a byte
    MaxUnread, \* bound: bytes of earlier replies that come in after a reset
    crc16(_)   \* the checksum of a sequence of bytes: see ReaderChecksum

Byte == 0 .. 255
Word == 0 .. 65535

VARIABLES
    asked,   \* the command under way, or "none"
    field,   \* EPCs in the radio field, in the reader's order
    mode,    \* the reader's work mode
    wire,    \* the bytes of the reader that the agent has not read
    head,    \* the reply that begins with the first of them, or None
    noise,   \* position of the byte disturbed in this exchange, or -1
    answer   \* what the agent made of the last reply, or None

frameVars == <<asked, field, mode, wire, head, noise, answer>>

None == [command |-> "none"]
-----------------------------------------------------------------------------
(* Frames *)

\* Bytes are counted from 0, as in Python.
At(frame, i) == frame[i + 1]

WithCRC(bytes) == bytes \o <<crc16(bytes) % 256, crc16(bytes) \div 256>>

\* The first byte of a frame tells how many follow, with two for the CRC.
WithLength(body) == <<Len(body) + 2>> \o body

make_command(address, command, params) == WithCRC(WithLength(<<address, command>> \o params))

Code == [inventory |-> 1, info |-> 33, getmode |-> 54, setmode |-> 53]

To(c)     == IF c = "info" THEN 255 ELSE Address
Params(c) == IF c = "setmode" THEN <<0, 0, 5, 0, 1, 0>> ELSE <<>>

Request(c) == make_command(To(c), Code[c], Params(c))

\* Faulty variant: the command is not compared.
AnyCommandResponse(r, c) == Len(r) >= 5

is_valid_command_response(r, c) == Len(r) >= 5 /\ At(r, 2) = Code[c]

\* Faulty variant: no CRC is compared.
NoCRC(r) == TRUE

has_valid_crc(r) ==
    /\ Len(r) >= 3
    /\ crc16(SubSeq(r, 1, Len(r) - 2)) = r[Len(r) - 1] + 256 * r[Len(r)]

is_no_tag_inventory_response(r) ==
    Len(r) = 6 /\ At(r, 0) = 5 /\ At(r, 2) = 1 /\ At(r, 3) = 251 /\ has_valid_crc(r)

\* The loop over the tags, from position 5; ok is FALSE once one does not fit, at
\* the latest when there are as many as the frame has bytes.
Fits(r, p) == p.ok /\ p.at < Len(r) - 2 /\ p.at + 1 + At(r, p.at) <= Len(r) - 2

NextTag(r, p) ==
    IF Fits(r, p)
    THEN [at |-> p.at + 1 + At(r, p.at), ok |-> TRUE,
          epcs |-> Append(p.epcs, SubSeq(r, p.at + 2, p.at + 1 + At(r, p.at)))]
    ELSE [p EXCEPT !.ok = FALSE]

TagCount(r) == IF At(r, 4) < Len(r) THEN At(r, 4) ELSE Len(r)

TagsAfter(r) ==
    LET after[i \in 0 .. TagCount(r)] ==
            IF i = 0 THEN [at |-> 5, ok |-> TRUE, epcs |-> <<>>] ELSE NextTag(r, after[i - 1])
    IN  after

Tags(r) == TagsAfter(r)[TagCount(r)]

\* The rest of a frame is asked for by its first byte; it may be shorter.
Framed(r) == Len(r) >= 6 /\ (At(r, 0) # 0 => Len(r) = At(r, 0) + 1) /\ At(r, 2) = 1

classify_inventory_response(r) ==
    CASE r = <<>> -> [status |-> "NO_RESPONSE", tags |-> <<>>]
      [] Framed(r) /\ is_no_tag_inventory_response(r) -> [status |-> "VALID", tags |-> <<>>]
      [] Framed(r) /\ At(r, 3) \in 1 .. 4 /\ Tags(r).ok -> [status |-> "VALID", tags |-> Tags(r).epcs]
      [] OTHER -> [status |-> "MALFORMED", tags |-> <<>>]

\* What the agent takes from a reply: the tags, the mode as a list, or that it is one.
Made(c, r) ==
    CASE c = "inventory" -> [ok   |-> classify_inventory_response(r).status = "VALID",
                             says |-> classify_inventory_response(r).tags]
      [] c = "getmode" /\ is_valid_command_response(r, c) -> [ok |-> TRUE, says |-> <<<<At(r, 4)>>>>]
      [] OTHER -> [ok |-> is_valid_command_response(r, c), says |-> <<>>]
-----------------------------------------------------------------------------
(* The reader *)

\* A reader answers what is addressed to it, or to all, and has a true CRC.
Understood(command) ==
    /\ At(command, 0) = Len(command) - 1
    /\ At(command, 1) \in {Address, 255}
    /\ has_valid_crc(command)

Payload(tags) == FlattenSeq([i \in DOMAIN tags |-> <<Len(tags[i])>> \o tags[i]])

\* What a reader in mode m says to a command, with those tags in its field.
Said(c, tags, m) ==
    CASE c = "inventory" /\ tags = <<>> -> <<Address, 1, 251>>
      [] c = "inventory" /\ tags # <<>> -> <<Address, 1, 1, Len(tags)>> \o Payload(tags)
      [] c = "getmode" -> <<Address, 54, 0, m>>
      [] OTHER -> <<Address, Code[c], 0>>

ReplyTo(c, tags, m) == WithCRC(WithLength(Said(c, tags, m)))

Replies == [c \in DOMAIN Code |-> [tags \in Fields |-> [m \in Modes |-> ReplyTo(c, tags, m)]]]

Reply(c) == Replies[c][field][mode]

\* What such a reply tells.
Told(c, tags, m) == CASE c = "inventory" -> tags
                      [] c = "getmode"   -> <<<<m>>>>
                      [] OTHER           -> <<>>

Tells(c) == Told(c, field, mode)

\* Lengths are bytes, also that of a reply that counts every tag.
ASSUME FramesAssumption ==
    /\ Address \in Byte
    /\ Modes \subseteq Byte
    /\ Noise \subseteq Byte
    /\ MaxUnread \in Nat
    /\ \A tags \in Fields : /\ tags \in Seq(Seq(Byte))
                            /\ \A i \in DOMAIN tags : Len(tags[i]) \in Byte
                            /\ Len(Payload(tags)) + 6 \in Byte

\* A checksum has 16 bits, and that of the reply without tags tells addresses apart.
ASSUME ChecksumAssumption ==
    /\ \A c \in DOMAIN Code :
         /\ crc16(WithLength(<<To(c), Code[c]>> \o Params(c))) \in Word
         /\ \A tags \in Fields, m \in Modes : crc16(WithLength(Said(c, tags, m))) \in Word
    /\ \A a \in Byte \ {Address} : crc16(<<5, a, 1, 251>>) # crc16(<<5, Address, 1, 251>>)
-----------------------------------------------------------------------------
(* One exchange *)

\* The commands that the reader answers, and what it puts on the line.
Answered == {c \in DOMAIN Code : Understood(Request(c))}

Answer(c) == IF c \in Answered THEN Reply(c) ELSE <<>>

\* The reply on its way to a command: whose it is, and what it tells.
Present(c) == [command |-> c, says |-> Tells(c)]

FrameInit ==
    /\ asked = "none"
    /\ field \in Fields
    /\ mode \in Modes
    /\ wire = <<>>
    /\ head = None
    /\ noise = -1
    /\ answer = None

\* Tags come and go, and somebody may change the mode.
Change ==
    /\ asked = "none"
    /\ field' \in Fields
    /\ mode' \in Modes
    /\ UNCHANGED <<asked, wire, head, noise, answer>>

\* reset_input_buffer drops the bytes that have come in; the others come in after
\* it, in the middle of a frame or not, and before the reply to the command written.
Send ==
    /\ asked = "none"
    /\ \E c \in DOMAIN Code : LET reply == Answer(c) IN \E k \in 0 .. Len(wire) :
        LET rest == SubSeq(wire, k + 1, Len(wire))
        IN  /\ Len(rest) <= MaxUnread
            /\ asked' = c
            /\ wire' = rest \o reply
            /\ head' = CASE rest = <<>>            -> Present(c)
                         [] rest # <<>> /\ k = 0  -> head
                         [] rest # <<>> /\ k # 0  -> None
    /\ answer' = None
    /\ UNCHANGED <<field, mode, noise>>

\* Nothing is on the line but the reply, and nothing has happened to it.
Whole == asked # "none" /\ noise = -1 /\ wire # <<>> /\ wire = Reply(asked)

\* One fault at a time: while no other bytes are on the line.
Disturb ==
    /\ Whole
    /\ \E i \in 0 .. Len(wire) - 1 : \E b \in Noise \ {At(wire, i)} :
        /\ wire' = [wire EXCEPT ![i + 1] = b]
        /\ noise' = i
    /\ UNCHANGED <<asked, field, mode, head, answer>>

\* read(1), and then as many bytes as the first one says, if they come.
Taken(bytes) ==
    IF bytes = <<>> THEN <<>>
    ELSE SubSeq(bytes, 1, IF bytes[1] + 1 < Len(bytes) THEN bytes[1] + 1 ELSE Len(bytes))

\* Each read ends after a second with the bytes it has.  What it did not wait for
\* stays on the line, of a disturbed reply what is beyond its count.
Receive ==
    /\ asked # "none"
    /\ LET reply == Reply(asked) IN \E t \in 0 .. Len(Taken(wire)) :
        LET got  == SubSeq(wire, 1, t)
            rest == SubSeq(wire, t + 1, Len(wire))
            made == Made(asked, got)
        IN  /\ noise # -1 => t = Len(Taken(wire))
            /\ answer' = [command  |-> asked,
                           ok       |-> made.ok,
                           says     |-> made.says,
                           whole    |-> noise = -1 /\ got = reply /\ rest = <<>>,
                           inStep   |-> head # None,
                           complete |-> got # <<>> /\ Len(got) = At(got, 0) + 1,
                           noise    |-> noise,
                           sent     |-> reply,
                           truths   |-> {Tells(asked)} \cup IF head.command = asked THEN {head.says} ELSE {}]
            /\ wire' = rest
            /\ head' = CASE t = 0                 -> head
                         [] t # 0 /\ rest = reply -> Present(asked)
                         [] t # 0 /\ rest # reply -> None
    /\ asked' = "none"
    /\ noise' = -1
    /\ UNCHANGED <<field, mode>>

FrameNext == Change \/ Send \/ Disturb \/ Receive

FrameSpec == FrameInit /\ [][FrameNext]_frameVars
-----------------------------------------------------------------------------
(* Properties *)

FrameTypeOK ==
    /\ asked \in DOMAIN Code \cup {"none"}
    /\ field \in Fields
    /\ mode \in Modes
    /\ wire \in Seq(Byte)
    /\ noise \in -1 .. 255
    /\ head # None => head.command \in DOMAIN Code
    /\ answer # None => answer.ok \in BOOLEAN /\ answer.command \in DOMAIN Code

\* When nothing is disturbed and the first byte read is the first of a reply, of
\* this command or of an earlier one that comes late, the agent takes for an answer
\* only a reply to this kind of command, and makes of it what the reader said; of an
\* inventory only with all its bytes, while of the other commands, which compare no
\* count, the first five will do.  Input that begins inside an earlier reply is
\* promised nothing, for no CRC is compared: that is what the reset is to prevent.
AnswersTruly ==
    answer # None /\ answer.noise = -1 /\ answer.inStep =>
        /\ answer.whole => answer.ok
        /\ answer.ok => answer.says \in answer.truths
        /\ answer.ok /\ answer.command = "inventory" => answer.complete

\* What one disturbed byte can do.  In the reply without tags it is found, unless
\* it makes it one that counts tags, and the next byte, of the CRC, counts none.
\* Of the others no CRC is compared: the agent reads wrong tags, but only if the
\* byte is one of their count, lengths or EPCs, and a wrong mode only if it is
\* the mode's own.
DisturbedInData ==
    answer # None /\ answer.noise >= 0 /\ answer.ok =>
        /\ answer.command = "inventory" /\ At(answer.sent, 3) = 251 => answer.noise = 3 /\ At(answer.sent, 4) = 0
        /\ answer.says \notin answer.truths =>
             answer.noise \in IF answer.command = "inventory" THEN 4 .. Len(answer.sent) - 3 ELSE {4}
=============================================================================
