---------------------------- MODULE SecureStream ----------------------------
(***************************************************************************)
(* How wire reads a reply (wire.go:18-24, 48-132): a header byte by byte,  *)
(* then a body, from the socket or, once the handshake has set key, from   *)
(* the plaintext of SEC frames kept in plain.  A peer may seal its reply   *)
(* in frames of any size, also empty ones, that end anywhere.  One         *)
(* connection; after an error exchange's callers close it.                 *)
(***************************************************************************)
EXTENDS WireReply

CONSTANTS
    MaxReplies,  \* bound: exchanges on the connection
    Choices      \* the replies the peer may send

ASSUME StreamAssumption == MaxReplies \in Nat /\ Choices \subseteq ReplyType

VARIABLES
    key,     \* wire.key is set
    plain,   \* wire.plain
    outbox,  \* what the peer has still to send (or to seal) of its reply
    count, reply, sound,       \* as in ReplyContract
    pc,      \* "idle", "line", "bytes", "failed"
    buf,     \* line's buffer
    header, body

vars == <<key, plain, outbox, count, reply, sound, pc, buf, header, body>>

Init ==
    /\ key \in BOOLEAN /\ plain = <<>> /\ outbox = <<>>
    /\ count = 0 /\ reply \in Choices /\ sound = TRUE
    /\ pc = "idle" /\ buf = <<>> /\ header = <<>> /\ body = <<>>

\* A request is out; the peer answers it with r.
Ask(r) ==
    /\ pc = "idle" /\ count < MaxReplies
    /\ pc' = "line" /\ buf' = <<>>
    /\ count' = count + 1 /\ reply' = r
    /\ outbox' = outbox \o Bytes(count', r, 1, Size(r))
    /\ UNCHANGED <<key, plain, sound, header, body>>

-----------------------------------------------------------------------------
(* The bytes that can be taken without waiting for the peer.               *)

source == IF key THEN plain ELSE outbox

\* MUTANT of bytes: what a frame holds beyond the bytes asked for is lost.
bytesOnly(n) ==
    IF key THEN plain' = <<>> /\ UNCHANGED outbox
    ELSE outbox' = SubSeq(outbox, n + 1, Len(outbox)) /\ UNCHANGED plain

\* bytes and rawBytes hand out the first n bytes once there are as many.
bytes(n) ==
    IF key THEN plain' = SubSeq(plain, n + 1, Len(plain)) /\ UNCHANGED outbox
    ELSE outbox' = SubSeq(outbox, n + 1, Len(outbox)) /\ UNCHANGED plain

Fail == pc' = "failed" /\ UNCHANGED <<buf, header, body>>

\* MUTANT of TooLarge: no room for the LF of a header of full length.
TooLargeShort(k) == Len(plain) + k > MaxFrame + MaxHeader

\* Nonce and authenticator of a sealed frame (24 + 16 bytes).
Overhead == 40

\* fill's bounds, on the length of the frame and on what is kept of it.
TooLarge(k) ==
    \/ k + Overhead > MaxFrame + MaxHeader + 41
    \/ Len(plain) + k > MaxFrame + MaxHeader + 1

\* bytes' loop takes another frame while it has too few bytes.
fill(k) ==
    /\ key
    /\ \/ pc = "line" /\ Len(plain) < 1
       \/ pc = "bytes" /\ Len(plain) < reply.body
    /\ outbox' = SubSeq(outbox, k + 1, Len(outbox))
    /\ \/ /\ ~TooLarge(k)
          /\ plain' = plain \o SubSeq(outbox, 1, k)
          /\ UNCHANGED <<pc, buf, header, body>>
       \/ TooLarge(k) /\ Fail /\ UNCHANGED plain
    /\ UNCHANGED <<key, count, reply, sound>>

-----------------------------------------------------------------------------
(* The header and the body.                                                *)

\* line without its carriage return.
Line == IF buf # <<>> /\ buf[Len(buf)].char = "CR"
        THEN SubSeq(buf, 1, Len(buf) - 1) ELSE buf

\* MUTANT of HasRoom: the limit is checked before the byte is appended.
HasRoomBefore == Len(buf) <= MaxHeader

HasRoom == Len(buf) + 1 <= MaxHeader

\* line takes a byte that does not end it.
ReadByte ==
    /\ pc = "line" /\ source # <<>> /\ Head(source).char # "LF"
    /\ bytes(1)
    /\ \/ /\ HasRoom
          /\ buf' = Append(buf, Head(source))
          /\ UNCHANGED <<pc, header, body>>
       \/ ~HasRoom /\ Fail
    /\ UNCHANGED <<key, count, reply, sound>>

\* line ends; the reply closure checks the header and the length in it.
EndLine ==
    /\ pc = "line" /\ source # <<>> /\ Head(source).char = "LF"
    /\ bytes(1)
    /\ \/ /\ Line # <<>>
          /\ \A i \in DOMAIN Line : Line[i].char = "text"
          /\ reply.body <= MaxFrame
          /\ pc' = "bytes" /\ buf' = Line
          /\ UNCHANGED <<header, body>>
       \/ /\ \/ Line = <<>> \/ reply.body > MaxFrame
             \/ \E i \in DOMAIN Line : Line[i].char # "text"
          /\ Fail
    /\ UNCHANGED <<key, count, reply, sound>>

\* MUTANT of ReadBody: the plaintext of the body is not dropped from plain.
ReadBodyKept ==
    /\ pc = "bytes" /\ Len(source) >= reply.body
    /\ IF key THEN UNCHANGED <<plain, outbox>> ELSE bytes(reply.body)
    /\ pc' = "idle" /\ buf' = <<>> /\ header' = buf
    /\ body' = SubSeq(source, 1, reply.body)
    /\ UNCHANGED <<key, count, reply, sound>>

\* The body is there, and the reply is handed to the caller.
ReadBody ==
    /\ pc = "bytes" /\ Len(source) >= reply.body
    /\ bytes(reply.body)
    /\ pc' = "idle" /\ buf' = <<>> /\ header' = buf
    /\ body' = SubSeq(source, 1, reply.body)
    /\ UNCHANGED <<key, count, reply, sound>>

\* The reply is cut short or late, a frame is malformed or does not open.
Break ==
    /\ pc \in {"line", "bytes"}
    /\ sound' = FALSE /\ Fail
    /\ UNCHANGED <<key, plain, outbox, count, reply>>

Next ==
    \/ \E r \in Choices : Ask(r)
    \/ \E k \in 0..Len(outbox) : fill(k)
    \/ ReadByte \/ EndLine \/ ReadBody \/ Break

Spec == Init /\ [][Next]_vars

\* The peer sends its reply, in frames that are not all empty.
FairSpec ==
    /\ Spec
    /\ WF_vars(\E k \in 1..Len(outbox) : fill(k))
    /\ WF_vars(ReadByte \/ EndLine \/ ReadBody)
=============================================================================
