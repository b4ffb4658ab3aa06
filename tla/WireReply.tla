----------------------------- MODULE WireReply -----------------------------
(***************************************************************************)
(* The bytes of a reply: a header line, closed by LF or CRLF, and the body *)
(* whose length the header announces (wire.go:48-75, client.go:283-305).   *)
(* What matters of a byte is whether it ends the line, is legible, and     *)
(* where it belongs: replies carry no number, so that reply and position   *)
(* are part of a byte only to tell when the driver confuses them.          *)
(***************************************************************************)
EXTENDS Integers, Sequences

CONSTANTS
    MaxHeader,  \* maxHeader
    MaxFrame    \* Options.MaxFrameBytes

ASSUME WireAssumption == MaxHeader \in Nat \ {0} /\ MaxFrame \in Nat

\* A reply: the length of its header, its line ending, whether the header is
\* legible, the length of its body.
ReplyType == [length : Nat, cr : BOOLEAN, legible : BOOLEAN, body : Nat]

HeaderSize(r) == r.length + (IF r.cr THEN 2 ELSE 1)
Size(r)       == HeaderSize(r) + r.body

Char(r, i) ==
    IF i <= r.length THEN IF r.legible THEN "text" ELSE "control"
    ELSE IF r.cr /\ i = r.length + 1 THEN "CR" ELSE "LF"

\* Byte i of r, the n-th reply on its connection.  A body is made of line
\* feeds, the bytes most easily taken for something else.
Byte(n, r, i) == [reply |-> n, at |-> i, char |-> Char(r, i)]

Bytes(n, r, first, last) ==
    [i \in 1..(last - first + 1) |-> Byte(n, r, first + i - 1)]

\* What the driver promises to accept.  The carriage return counts.
Acceptable(r) ==
    /\ r.legible
    /\ r.length > 0
    /\ HeaderSize(r) - 1 <= MaxHeader
    /\ r.body <= MaxFrame
=============================================================================
