-------------------------- MODULE StreamInvariants --------------------------
(***************************************************************************)
(* Properties of SecureStream: sealing is invisible to the caller.         *)
(***************************************************************************)
EXTENDS SecureStream

\* The fields of wire and the locals of line and bytes.
TypeOK ==
    /\ key \in BOOLEAN /\ sound \in BOOLEAN
    /\ count \in 0..MaxReplies /\ reply \in Choices
    /\ pc \in {"idle", "line", "bytes", "failed"}

ByteType == [reply : Nat, at : Nat, char : {"text", "control", "CR", "LF"}]

\* s is a stretch of the n-th reply, r, that begins with byte from.
Stretch(s, n, r, from) ==
    /\ s \in Seq(ByteType)
    /\ \A i \in 1..Len(s) : s[i] = Byte(n, r, from + i - 1)

\* Where in the reply line is ...
InHeader ==
    /\ Len(buf) < HeaderSize(reply) /\ Len(buf) <= MaxHeader
    /\ Len(buf) + Len(plain) + Len(outbox) = Size(reply)
    /\ Stretch(buf, count, reply, 1)
    /\ Stretch(plain, count, reply, Len(buf) + 1)
    /\ Stretch(outbox, count, reply, Len(buf) + Len(plain) + 1)

\* ... and bytes, for the body.
InBody ==
    /\ Acceptable(reply)
    /\ Len(buf) = reply.length
    /\ Len(plain) + Len(outbox) = reply.body
    /\ Stretch(buf, count, reply, 1)
    /\ Stretch(plain, count, reply, HeaderSize(reply) + 1)
    /\ Stretch(outbox, count, reply, HeaderSize(reply) + Len(plain) + 1)

Aligned ==
    /\ ~key => plain = <<>>
    /\ pc = "idle" => plain = <<>> /\ outbox = <<>>
    /\ pc = "line" => InHeader
    /\ pc = "bytes" => InBody

\* At every byte the driver and the peer agree on what comes next.
StreamInv == TypeOK /\ Aligned

\* When a reply has been handed over nothing of it is left to be taken for the
\* beginning of the next one on the connection (wire.go:106-120).
NothingLeft == pc = "idle" => plain = <<>> /\ outbox = <<>>

\* The plaintext that is kept fits the largest reply there can be, and no
\* more: the bound of fill never cuts what the caller may ask for
\* (wire.go:89-103).
RoomForReply ==
    /\ Len(plain) <= MaxFrame + MaxHeader + 1
    /\ pc \in {"line", "bytes"} /\ Acceptable(reply) =>
          \A k \in 0..Len(outbox) : ~TooLarge(k)

-----------------------------------------------------------------------------
Contract == INSTANCE ReplyContract
    WITH state <- IF pc \in {"line", "bytes"} THEN "reading" ELSE pc

\* Whatever the frames, a reply is handed to the caller byte for byte or, if it
\* is out of bounds, refused (wire.go:48-132).
ImplementsContract == Contract!Spec

\* A reply whose bytes all arrive is handed over or refused (under FairSpec):
\* bytes never waits for more than the peer will send (wire.go:110-114).
RepliesEnd == (pc = "line") ~> (pc \in {"idle", "failed"})
=============================================================================
