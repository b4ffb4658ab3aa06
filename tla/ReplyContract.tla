--------------------------- MODULE ReplyContract ---------------------------
(***************************************************************************)
(* What exchange may rely on when it reads replies from a connection       *)
(* (wire.go:201-208), whether it is sealed or not and however the bytes    *)
(* are split: a reply is accepted as a whole, exactly as the peer sent it, *)
(* and refused only if it is out of bounds or the connection is unsound.   *)
(***************************************************************************)
EXTENDS WireReply

VARIABLES
    state,   \* "idle", "reading", "failed"
    count,   \* replies asked for
    reply,   \* the one being read
    header,  \* what the caller was given of the last accepted one
    body,
    sound    \* the connection has delivered what the peer sent

vars == <<state, count, reply, header, body, sound>>

Init ==
    /\ state = "idle" /\ count = 0 /\ reply \in ReplyType
    /\ header = <<>> /\ body = <<>> /\ sound = TRUE

Ask ==
    /\ state = "idle" /\ state' = "reading"
    /\ reply' \in ReplyType /\ count' = count + 1
    /\ UNCHANGED <<header, body, sound>>

Accept ==
    /\ state = "reading" /\ Acceptable(reply)
    /\ state' = "idle"
    /\ header' = Bytes(count, reply, 1, reply.length)
    /\ body' = Bytes(count, reply, HeaderSize(reply) + 1, Size(reply))
    /\ UNCHANGED <<reply, count, sound>>

Refuse ==
    /\ state = "reading" /\ ~Acceptable(reply)
    /\ state' = "failed"
    /\ UNCHANGED <<reply, count, header, body, sound>>

Break ==
    /\ state = "reading" /\ state' = "failed"
    /\ sound' = FALSE
    /\ UNCHANGED <<reply, count, header, body>>

Next == Ask \/ Accept \/ Refuse \/ Break

Spec == Init /\ [][Next]_vars
=============================================================================
