---------------------------- MODULE StreamProofs ----------------------------
(***************************************************************************)
(* StreamInv is inductive for SecureStream, and SecureStream implements    *)
(* ReplyContract, for every bound and every choice of replies.             *)
(***************************************************************************)
EXTENDS StreamInvariants, SequenceTheorems, TLAPS

\* The bytes of a reply are bytes, and only the end of the header is an LF
\* in front of its body.
LEMMA ByteTyped ==
    ASSUME NEW n \in Nat, NEW r \in ReplyType, NEW i \in Nat
    PROVE  /\ Byte(n, r, i) \in ByteType
           /\ Byte(n, r, i).char = Char(r, i)
           /\ i < HeaderSize(r) => Char(r, i) # "LF"
           /\ HeaderSize(r) \in Nat /\ HeaderSize(r) > r.length
BY DEF Byte, ByteType, Char, HeaderSize, ReplyType

LEMMA ReplySizes ==
    ASSUME NEW r \in ReplyType
    PROVE  /\ r.length \in Nat /\ r.body \in Nat
           /\ HeaderSize(r) \in Nat /\ HeaderSize(r) > r.length
           /\ Size(r) = HeaderSize(r) + r.body /\ Size(r) \in Nat
<1>1. r.length \in Nat /\ r.body \in Nat
  BY DEF ReplyType
<1>2. HeaderSize(r) \in Nat /\ HeaderSize(r) > r.length
  BY <1>1 DEF HeaderSize
<1> QED BY <1>1, <1>2 DEF Size

LEMMA LineFeedEnds ==
    ASSUME NEW r \in ReplyType, NEW i \in Nat, i <= HeaderSize(r)
    PROVE  Char(r, i) = "LF" <=> i = HeaderSize(r)
BY DEF Char, HeaderSize, ReplyType

\* The peer's rendering of (part of) a reply is a stretch of it.
LEMMA BytesStretch ==
    ASSUME NEW n \in Nat, NEW r \in ReplyType, NEW first \in Nat,
           NEW last \in Nat, first <= last + 1
    PROVE  /\ Stretch(Bytes(n, r, first, last), n, r, first)
           /\ Len(Bytes(n, r, first, last)) = last - first + 1
<1> DEFINE s == Bytes(n, r, first, last)
<1>1. s \in [1..(last - first + 1) -> ByteType]
  BY ByteTyped DEF Bytes
<1>2. s \in Seq(ByteType) /\ Len(s) = last - first + 1
  <2>1. last - first + 1 \in Nat
    OBVIOUS
  <2> HIDE DEF s
  <2> QED BY <1>1, <2>1
<1>3. \A i \in 1..(last - first + 1) : s[i] = Byte(n, r, first + i - 1)
  BY DEF Bytes
<1> QED BY <1>2, <1>3 DEF Stretch

\* A stretch is the peer's rendering of what it covers.
LEMMA StretchBytes ==
    ASSUME NEW n \in Nat, NEW r \in ReplyType, NEW first \in Nat,
           NEW last \in Nat, first <= last + 1,
           NEW s, Stretch(s, n, r, first), Len(s) = last - first + 1
    PROVE  s = Bytes(n, r, first, last)
<1> DEFINE t == Bytes(n, r, first, last)
<1>1. Stretch(t, n, r, first) /\ Len(t) = last - first + 1
  BY BytesStretch
<1>2. s \in Seq(ByteType) /\ t \in Seq(ByteType) /\ Len(s) = Len(t)
  BY <1>1 DEF Stretch
<1>3. \A i \in 1..Len(s) : s[i] = t[i]
  BY <1>1 DEF Stretch
<1>4. s = t
  <2> HIDE DEF t
  <2> QED BY <1>2, <1>3, SeqEqual
<1> QED BY <1>4

\* What is left of a stretch when bytes has taken k bytes, and what was taken.
LEMMA StretchRest ==
    ASSUME NEW n \in Nat, NEW r \in ReplyType, NEW from \in Nat,
           NEW s, Stretch(s, n, r, from), NEW k \in 0..Len(s)
    PROVE  /\ Stretch(SubSeq(s, k + 1, Len(s)), n, r, from + k)
           /\ Len(SubSeq(s, k + 1, Len(s))) = Len(s) - k
           /\ Stretch(SubSeq(s, 1, k), n, r, from)
           /\ Len(SubSeq(s, 1, k)) = k
<1>1. s \in Seq(ByteType) /\ Len(s) \in Nat /\ k \in Nat
  BY LenProperties DEF Stretch
<1>2. \A i \in 1..Len(s) : s[i] \in ByteType
  BY <1>1, ElementOfSeq
<1>3. /\ SubSeq(s, k + 1, Len(s)) \in Seq(ByteType)
      /\ Len(SubSeq(s, k + 1, Len(s))) = Len(s) - k
      /\ \A i \in 1..(Len(s) - k) :
            SubSeq(s, k + 1, Len(s))[i] = s[k + i]
  <2>1. \A i \in (k + 1)..Len(s) : s[i] \in ByteType
    BY <1>1, <1>2
  <2>2. /\ SubSeq(s, k + 1, Len(s)) \in Seq(ByteType)
        /\ Len(SubSeq(s, k + 1, Len(s))) =
              IF k + 1 <= Len(s) THEN Len(s) - (k + 1) + 1 ELSE 0
        /\ \A i \in 1..(Len(s) - (k + 1) + 1) :
              SubSeq(s, k + 1, Len(s))[i] = s[(k + 1) + i - 1]
    <3>1. k + 1 \in Int /\ Len(s) \in Int
      BY <1>1
    <3> QED BY <2>1, <3>1, SubSeqProperties
  <2>3. /\ Len(s) - (k + 1) + 1 = Len(s) - k
        /\ \A i \in Int : (k + 1) + i - 1 = k + i
        /\ ~(k + 1 <= Len(s)) => Len(s) - k = 0
    BY <1>1
  <2>4. Len(SubSeq(s, k + 1, Len(s))) = Len(s) - k
    BY <2>2, <2>3
  <2>5. ASSUME NEW i \in 1..(Len(s) - k)
        PROVE  SubSeq(s, k + 1, Len(s))[i] = s[k + i]
    <3>1. i \in 1..(Len(s) - (k + 1) + 1)
      BY <2>3
    <3>2. (k + 1) + i - 1 = k + i
      BY <1>1
    <3>3. SubSeq(s, k + 1, Len(s))[i] = s[(k + 1) + i - 1]
      BY <2>2, <3>1, Zenon
    <3> QED BY <3>2, <3>3
  <2> QED BY <2>2, <2>4, <2>5
<1>4. /\ SubSeq(s, 1, k) \in Seq(ByteType)
      /\ Len(SubSeq(s, 1, k)) = k
      /\ \A i \in 1..k : SubSeq(s, 1, k)[i] = s[i]
  <2>1. \A i \in 1..k : s[i] \in ByteType
    BY <1>1, <1>2
  <2>2. /\ SubSeq(s, 1, k) \in Seq(ByteType)
        /\ Len(SubSeq(s, 1, k)) = IF 1 <= k THEN k - 1 + 1 ELSE 0
        /\ \A i \in 1..(k - 1 + 1) : SubSeq(s, 1, k)[i] = s[1 + i - 1]
    BY <1>1, <2>1, SubSeqProperties
  <2>3. k - 1 + 1 = k /\ \A i \in Int : 1 + i - 1 = i
    BY <1>1
  <2> QED BY <1>1, <2>2, <2>3
<1>5. \A i \in 1..(Len(s) - k) : s[k + i] = Byte(n, r, (from + k) + i - 1)
  <2> SUFFICES ASSUME NEW i \in 1..(Len(s) - k)
               PROVE  s[k + i] = Byte(n, r, (from + k) + i - 1)
    OBVIOUS
  <2>1. k + i \in 1..Len(s) /\ from + (k + i) - 1 = (from + k) + i - 1
    BY <1>1
  <2> QED BY <2>1 DEF Stretch
<1>6. \A i \in 1..k : s[i] = Byte(n, r, from + i - 1)
  BY <1>1 DEF Stretch
<1> QED BY <1>3, <1>4, <1>5, <1>6 DEF Stretch

\* fill appends a stretch to the one that precedes it.
LEMMA StretchConcat ==
    ASSUME NEW n \in Nat, NEW r \in ReplyType, NEW from \in Nat,
           NEW s, NEW t, Stretch(s, n, r, from),
           Stretch(t, n, r, from + Len(s))
    PROVE  /\ Stretch(s \o t, n, r, from)
           /\ Len(s \o t) = Len(s) + Len(t)
<1>1. /\ s \in Seq(ByteType) /\ t \in Seq(ByteType)
      /\ Len(s) \in Nat /\ Len(t) \in Nat
  BY LenProperties DEF Stretch
<1>2. /\ s \o t \in Seq(ByteType) /\ Len(s \o t) = Len(s) + Len(t)
      /\ \A i \in 1..(Len(s) + Len(t)) :
            (s \o t)[i] = IF i <= Len(s) THEN s[i] ELSE t[i - Len(s)]
  BY <1>1, ConcatProperties
<1>3. ASSUME NEW i \in 1..(Len(s) + Len(t))
      PROVE  (s \o t)[i] = Byte(n, r, from + i - 1)
  <2>1. CASE i <= Len(s)
    BY <1>1, <1>2, <2>1 DEF Stretch
  <2>2. CASE i > Len(s)
    <3>1. i - Len(s) \in 1..Len(t)
          /\ from + Len(s) + (i - Len(s)) - 1 = from + i - 1
      BY <1>1, <2>2
    <3>2. (s \o t)[i] = t[i - Len(s)]
      BY <1>1, <1>2, <2>2
    <3> QED BY <3>1, <3>2 DEF Stretch
  <2> QED BY <1>1, <2>1, <2>2
<1> QED BY <1>2, <1>3 DEF Stretch

\* line appends the next byte.
LEMMA StretchAppend ==
    ASSUME NEW n \in Nat, NEW r \in ReplyType, NEW from \in Nat,
           NEW s, Stretch(s, n, r, from)
    PROVE  LET t == Append(s, Byte(n, r, from + Len(s)))
           IN  Stretch(t, n, r, from) /\ Len(t) = Len(s) + 1
<1> DEFINE b == Byte(n, r, from + Len(s))
           t == Append(s, b)
<1>1. s \in Seq(ByteType) /\ Len(s) \in Nat
  BY LenProperties DEF Stretch
<1>2. b \in ByteType
  BY <1>1, ByteTyped
<1>3. /\ t \in Seq(ByteType) /\ Len(t) = Len(s) + 1
      /\ \A i \in 1..Len(s) : t[i] = s[i]
      /\ t[Len(s) + 1] = b
  <2> HIDE DEF b
  <2> QED BY <1>1, <1>2, AppendProperties
<1>4. ASSUME NEW i \in 1..(Len(s) + 1) PROVE t[i] = Byte(n, r, from + i - 1)
  <2>1. CASE i <= Len(s)
    BY <1>1, <1>3, <2>1 DEF Stretch
  <2>2. CASE i = Len(s) + 1
    <3>1. from + i - 1 = from + Len(s)
      BY <1>1, <2>2
    <3> QED BY <1>3, <2>2, <3>1
  <2> QED BY <1>1, <2>1, <2>2
<1> QED BY <1>3, <1>4 DEF Stretch

-----------------------------------------------------------------------------
(* The steps.  source is the part of the reply that can be taken.          *)

LEMMA InitAligned == Init => StreamInv
BY StreamAssumption DEF Init, StreamInv, TypeOK, Aligned

\* What StreamInv says of the lengths, and of a reply that may be sent.
LEMMA Sizes ==
    ASSUME StreamInv
    PROVE  /\ reply \in ReplyType /\ count \in Nat
           /\ HeaderSize(reply) \in Nat /\ Size(reply) \in Nat
           /\ reply.length \in Nat /\ reply.body \in Nat
           /\ HeaderSize(reply) > reply.length
           /\ pc \in {"line", "bytes"} =>
                 /\ Len(buf) \in Nat
                 /\ Len(plain) \in Nat /\ Len(outbox) \in Nat
<1>1. reply \in ReplyType /\ count \in Nat
  BY StreamAssumption DEF StreamInv, TypeOK
<1>2. pc \in {"line", "bytes"} =>
        /\ buf \in Seq(ByteType) /\ plain \in Seq(ByteType)
        /\ outbox \in Seq(ByteType)
  BY DEF StreamInv, Aligned, InHeader, InBody, Stretch
<1> QED BY <1>1, <1>2, LenProperties, ReplySizes

\* Taking n bytes advances the stretch that is to come, sealed or not.
LEMMA BytesTaken ==
    ASSUME TypeOK, ~key => plain = <<>>,
           NEW r \in ReplyType, NEW i \in Nat, NEW from \in Nat,
           Stretch(plain, i, r, from), Stretch(outbox, i, r, from + Len(plain)),
           NEW n \in 0..Len(source), bytes(n)
    PROVE  /\ Stretch(source, i, r, from)
           /\ Stretch(plain', i, r, from + n)
           /\ Stretch(outbox', i, r, from + n + Len(plain'))
           /\ Len(plain') + Len(outbox') = Len(plain) + Len(outbox) - n
           /\ ~key => plain' = <<>>
<1>0. /\ Len(plain) \in Nat /\ Len(outbox) \in Nat
      /\ plain \in Seq(ByteType) /\ outbox \in Seq(ByteType)
  BY LenProperties DEF Stretch
<1>1. CASE key
  <2>1. source = plain
        /\ plain' = SubSeq(plain, n + 1, Len(plain)) /\ outbox' = outbox
    BY <1>1 DEF source, bytes
  <2>2. n \in 0..Len(plain)
    BY <2>1
  <2>3. Stretch(plain', i, r, from + n) /\ Len(plain') = Len(plain) - n
    BY <2>1, <2>2, StretchRest
  <2>4. from + n + Len(plain') = from + Len(plain)
    BY <1>0, <2>2, <2>3
  <2>5. Stretch(outbox', i, r, from + n + Len(plain'))
    BY <2>1, <2>4
  <2>6. Len(plain') + Len(outbox') = Len(plain) + Len(outbox) - n
    <3>1. Len(outbox') = Len(outbox) /\ n \in Int
      BY <1>0, <2>1, <2>2
    <3> QED BY <1>0, <2>3, <3>1
  <2> QED BY <1>1, <2>1, <2>3, <2>5, <2>6
<1>2. CASE ~key
  <2>1. source = outbox /\ plain' = plain /\ plain = <<>> /\ Len(plain) = 0
        /\ outbox' = SubSeq(outbox, n + 1, Len(outbox))
    BY <1>2 DEF source, bytes
  <2>2. n \in 0..Len(outbox) /\ from + Len(plain) = from
    BY <2>1
  <2>3. /\ Stretch(outbox', i, r, from + n)
        /\ Len(outbox') = Len(outbox) - n
    BY <2>1, <2>2, StretchRest
  <2>4. Stretch(plain', i, r, from + n)
    BY <1>0, <2>1 DEF Stretch
  <2> QED BY <1>0, <1>2, <2>1, <2>2, <2>3, <2>4
<1> QED BY <1>1, <1>2

\* The byte line is about to take is the next one of the header.
LEMMA NextByte ==
    ASSUME StreamInv, pc = "line", source # <<>>
    PROVE  /\ Stretch(source, count, reply, Len(buf) + 1)
           /\ Len(source) \in Nat /\ 1 <= Len(source)
           /\ Head(source) = Byte(count, reply, Len(buf) + 1)
           /\ Head(source).char = Char(reply, Len(buf) + 1)
           /\ Head(source).char = "LF" <=> Len(buf) + 1 = HeaderSize(reply)
<1>0. /\ reply \in ReplyType /\ count \in Nat
      /\ HeaderSize(reply) \in Nat /\ Len(buf) \in Nat
  BY Sizes
<1>1. InHeader /\ (~key => plain = <<>>) /\ TypeOK
  BY DEF StreamInv, Aligned
<1>2. Stretch(source, count, reply, Len(buf) + 1)
  <2>1. CASE key
    BY <1>1, <2>1 DEF source, InHeader
  <2>2. CASE ~key
    <3>1. Len(buf) + Len(plain) + 1 = Len(buf) + 1
      BY <1>0, <1>1, <2>2
    <3> QED BY <1>1, <2>2, <3>1 DEF source, InHeader
  <2> QED BY <2>1, <2>2
<1>3. source \in Seq(ByteType) /\ Len(source) \in Nat /\ 1 <= Len(source)
  <2>1. source \in Seq(ByteType)
    BY <1>2 DEF Stretch
  <2> QED BY <2>1, EmptySeq
<1>4. Head(source) = source[1]
  BY <1>3
<1>5. source[1] = Byte(count, reply, Len(buf) + 1)
  <2>1. 1 \in 1..Len(source) /\ (Len(buf) + 1) + 1 - 1 = Len(buf) + 1
    BY <1>0, <1>3
  <2> QED BY <1>2, <2>1 DEF Stretch
<1>6. Byte(count, reply, Len(buf) + 1).char = Char(reply, Len(buf) + 1)
  BY <1>0, ByteTyped
<1>7. Char(reply, Len(buf) + 1) = "LF" <=> Len(buf) + 1 = HeaderSize(reply)
  <2>1. Len(buf) + 1 \in Nat /\ Len(buf) + 1 <= HeaderSize(reply)
    BY <1>0, <1>1 DEF InHeader
  <2> QED BY <1>0, <2>1, LineFeedEnds
<1> QED BY <1>2, <1>3, <1>4, <1>5, <1>6, <1>7

\* At the end of a header line drops its carriage return and nothing else.
LEMMA LineIsHeader ==
    ASSUME StreamInv, pc = "line", Len(buf) + 1 = HeaderSize(reply)
    PROVE  /\ Stretch(Line, count, reply, 1) /\ Len(Line) = reply.length
           /\ Line = <<>> <=> reply.length = 0
           /\ (\A i \in DOMAIN Line : Line[i].char = "text")
                 <=> (reply.legible \/ reply.length = 0)
<1>0. /\ reply \in ReplyType /\ count \in Nat /\ reply.length \in Nat
      /\ reply.legible \in BOOLEAN /\ reply.cr \in BOOLEAN
      /\ HeaderSize(reply) \in Nat /\ Len(buf) \in Nat
  BY Sizes DEF ReplyType
<1>1. Stretch(buf, count, reply, 1) /\ buf \in Seq(ByteType)
  BY DEF StreamInv, Aligned, InHeader, Stretch
<1>2. ASSUME NEW i \in 1..Len(buf) PROVE buf[i].char = Char(reply, i)
  <2>1. buf[i] = Byte(count, reply, i)
    <3>1. 1 + i - 1 = i
      OBVIOUS
    <3> QED BY <1>1, <3>1 DEF Stretch
  <2>2. i \in Nat
    OBVIOUS
  <2> QED BY <1>0, <2>1, <2>2, ByteTyped
<1>3. Stretch(Line, count, reply, 1) /\ Len(Line) = reply.length
  <2>1. CASE reply.cr
    <3>1. Len(buf) = reply.length + 1
      BY <1>0, <2>1 DEF HeaderSize
    <3>2. Len(buf) \in 1..Len(buf) /\ Char(reply, Len(buf)) = "CR"
      BY <1>0, <2>1, <3>1 DEF Char
    <3>3. buf[Len(buf)].char = "CR" /\ buf # <<>>
      BY <1>1, <1>2, <3>1, <3>2
    <3>4. Line = SubSeq(buf, 1, Len(buf) - 1)
      BY <3>3 DEF Line
    <3>5. Len(buf) - 1 \in 0..Len(buf) /\ Len(buf) - 1 = reply.length
      BY <1>0, <3>1
    <3> QED BY <1>0, <1>1, <3>4, <3>5, StretchRest
  <2>2. CASE ~reply.cr
    <3>1. Len(buf) = reply.length
      BY <1>0, <2>2 DEF HeaderSize
    <3>2. ASSUME buf # <<>> PROVE buf[Len(buf)].char # "CR"
      <4>1. Len(buf) \in 1..Len(buf)
        BY <1>0, <1>1, <3>2, EmptySeq
      <4>2. Char(reply, Len(buf)) # "CR"
        BY <1>0, <2>2, <3>1 DEF Char
      <4> QED BY <1>2, <4>1, <4>2
    <3> QED BY <1>1, <3>1, <3>2 DEF Line
  <2> QED BY <1>0, <2>1, <2>2
<1>4. Line \in Seq(ByteType) /\ DOMAIN Line = 1..reply.length
  BY <1>3, LenProperties DEF Stretch
<1>5. ASSUME NEW i \in 1..reply.length
      PROVE  Line[i].char = "text" <=> reply.legible
  <2>1. Line[i] = Byte(count, reply, i)
    <3>1. 1 + i - 1 = i
      BY <1>0
    <3> QED BY <1>3, <3>1 DEF Stretch
  <2>2. i \in Nat /\ i <= reply.length
    BY <1>0
  <2>3. Line[i].char = Char(reply, i)
    BY <1>0, <2>1, <2>2, ByteTyped
  <2> QED BY <2>2, <2>3 DEF Char
<1>6. Line = <<>> <=> reply.length = 0
  BY <1>0, <1>3, <1>4, EmptySeq
<1>7. (\A i \in DOMAIN Line : Line[i].char = "text")
        <=> (reply.legible \/ reply.length = 0)
  <2>1. reply.length # 0 => 1 \in 1..reply.length
    BY <1>0
  <2>2. reply.length = 0 => 1..reply.length = {}
    OBVIOUS
  <2> QED BY <1>4, <1>5, <2>1, <2>2, Zenon
<1> QED BY <1>3, <1>6, <1>7

-----------------------------------------------------------------------------
(* StreamInv is preserved by every step.                                   *)

LEMMA AskStep ==
    ASSUME StreamInv, NEW r \in Choices, Ask(r)
    PROVE  StreamInv'
<1>0. /\ r \in ReplyType /\ count' \in Nat /\ reply' = r /\ buf' = <<>>
      /\ Size(r) \in Nat /\ HeaderSize(r) \in Nat /\ HeaderSize(r) > 0
  <2>1. r \in ReplyType /\ count \in Nat
    BY StreamAssumption, Sizes
  <2>2. r.length \in Nat /\ HeaderSize(r) \in Nat /\ Size(r) \in Nat
        /\ HeaderSize(r) > r.length
    BY <2>1, ReplySizes
  <2> QED BY <2>1, <2>2 DEF Ask
<1>1. plain = <<>> /\ outbox = <<>> /\ plain' = <<>> /\ UNCHANGED key
  BY DEF Ask, StreamInv, Aligned
<1>2. /\ Stretch(Bytes(count', r, 1, Size(r)), count', r, 1)
      /\ Len(Bytes(count', r, 1, Size(r))) = Size(r)
  <2>1. /\ 1 \in Nat /\ Size(r) \in Nat /\ 1 <= Size(r) + 1
        /\ count' \in Nat /\ r \in ReplyType
    BY <1>0
  <2>2. /\ Stretch(Bytes(count', r, 1, Size(r)), count', r, 1)
        /\ Len(Bytes(count', r, 1, Size(r))) = Size(r) - 1 + 1
    BY <2>1, BytesStretch
  <2>3. Size(r) - 1 + 1 = Size(r)
    BY <2>1
  <2> QED BY <2>2, <2>3
<1>3. outbox' = Bytes(count', r, 1, Size(r))
  <2>1. Bytes(count', r, 1, Size(r)) \in Seq(ByteType)
    BY <1>2 DEF Stretch
  <2>2. outbox' = <<>> \o Bytes(count', r, 1, Size(r))
    BY <1>1 DEF Ask
  <2> QED BY <2>1, <2>2, ConcatEmptySeq
<1>4. TypeOK'
  BY <1>0, StreamAssumption DEF StreamInv, TypeOK, Ask
<1>5. InHeader'
  <2>1. /\ Len(buf') = 0 /\ Len(plain') = 0
        /\ Stretch(<<>>, count', r, 1)
    BY <1>0, <1>1 DEF Stretch
  <2>2. Len(buf') + Len(plain') + 1 = 1 /\ Len(buf') + 1 = 1
        /\ Len(buf') + Len(plain') + Len(outbox') = Size(r)
    BY <1>0, <1>2, <1>3, <2>1
  <2>3. Len(buf') < HeaderSize(reply') /\ Len(buf') <= MaxHeader
    BY <1>0, <2>1, WireAssumption
  <2> QED BY <1>0, <1>1, <1>2, <1>3, <2>1, <2>2, <2>3 DEF InHeader
<1> QED BY <1>1, <1>4, <1>5 DEF StreamInv, Aligned, Ask

\* A frame: what moves from the peer to plain.
LEMMA Filled ==
    ASSUME NEW i \in Nat, NEW r \in ReplyType, NEW from \in Nat,
           Stretch(plain, i, r, from), Stretch(outbox, i, r, from + Len(plain)),
           NEW k \in 0..Len(outbox),
           plain' = plain \o SubSeq(outbox, 1, k),
           outbox' = SubSeq(outbox, k + 1, Len(outbox))
    PROVE  /\ Stretch(plain', i, r, from)
           /\ Stretch(outbox', i, r, from + Len(plain'))
           /\ Len(plain') + Len(outbox') = Len(plain) + Len(outbox)
<1>0. Len(plain) \in Nat /\ Len(outbox) \in Nat /\ k \in Nat
  BY LenProperties DEF Stretch
<1>1. from + Len(plain) \in Nat
  BY <1>0
<1>2. /\ Stretch(outbox', i, r, (from + Len(plain)) + k)
      /\ Len(outbox') = Len(outbox) - k
      /\ Stretch(SubSeq(outbox, 1, k), i, r, from + Len(plain))
      /\ Len(SubSeq(outbox, 1, k)) = k
  BY <1>1, StretchRest
<1>3. Stretch(plain', i, r, from) /\ Len(plain') = Len(plain) + k
  BY <1>2, StretchConcat
<1>4. /\ (from + Len(plain)) + k = from + Len(plain')
      /\ Len(plain') + Len(outbox') = Len(plain) + Len(outbox)
  <2>1. (from + Len(plain)) + k = from + (Len(plain) + k)
        /\ (Len(plain) + k) + (Len(outbox) - k) = Len(plain) + Len(outbox)
    BY <1>0
  <2>2. Len(plain') = Len(plain) + k /\ Len(outbox') = Len(outbox) - k
    BY <1>2, <1>3
  <2> QED BY <2>1, <2>2, Zenon
<1>5. Stretch(outbox', i, r, from + Len(plain'))
  BY <1>2, <1>4
<1> QED BY <1>3, <1>4, <1>5

LEMMA FillStep ==
    ASSUME StreamInv, NEW k \in 0..Len(outbox), fill(k)
    PROVE  StreamInv'
<1>0. /\ reply \in ReplyType /\ count \in Nat /\ HeaderSize(reply) \in Nat
      /\ TypeOK /\ UNCHANGED <<key, count, reply, sound>> /\ key
  BY Sizes DEF fill, StreamInv
<1>1. CASE TooLarge(k) /\ Fail
  BY <1>0, <1>1 DEF Fail, StreamInv, TypeOK, Aligned
<1>2. CASE /\ plain' = plain \o SubSeq(outbox, 1, k)
           /\ UNCHANGED <<pc, buf, header, body>>
  <2>0. /\ outbox' = SubSeq(outbox, k + 1, Len(outbox))
        /\ pc \in {"line", "bytes"} /\ UNCHANGED <<pc, buf>>
    BY <1>2 DEF fill
  <2>1. TypeOK'
    BY <1>0, <1>2 DEF TypeOK
  <2>2. CASE pc = "line"
    <3>1. InHeader /\ Len(buf) \in Nat /\ Len(buf) + 1 \in Nat
          /\ Len(plain) \in Nat /\ Len(outbox) \in Nat
      BY <2>2, Sizes DEF StreamInv, Aligned
    <3>2. Len(buf) + Len(plain) + 1 = (Len(buf) + 1) + Len(plain)
      BY <3>1
    <3>3. /\ Stretch(plain', count, reply, Len(buf) + 1)
          /\ Stretch(outbox', count, reply, (Len(buf) + 1) + Len(plain'))
          /\ Len(plain') + Len(outbox') = Len(plain) + Len(outbox)
      BY <1>0, <1>2, <2>0, <3>1, <3>2, Filled DEF InHeader
    <3>4. Len(plain') \in Nat /\ Len(outbox') \in Nat
      BY <3>3, LenProperties DEF Stretch
    <3>5. /\ Len(buf) + Len(plain') + 1 = (Len(buf) + 1) + Len(plain')
          /\ Len(buf) + Len(plain') + Len(outbox')
                = Len(buf) + Len(plain) + Len(outbox)
      BY <3>1, <3>3, <3>4
    <3>6. InHeader'
      BY <1>0, <2>0, <3>1, <3>3, <3>5 DEF InHeader
    <3> QED BY <1>0, <2>0, <2>1, <2>2, <3>6 DEF StreamInv, Aligned
  <2>3. CASE pc = "bytes"
    <3>1. InBody /\ HeaderSize(reply) + 1 \in Nat
          /\ Len(plain) \in Nat /\ Len(outbox) \in Nat
      BY <1>0, <2>3, Sizes DEF StreamInv, Aligned
    <3>2. HeaderSize(reply) + Len(plain) + 1
            = (HeaderSize(reply) + 1) + Len(plain)
      BY <1>0, <3>1
    <3>3. /\ Stretch(plain', count, reply, HeaderSize(reply) + 1)
          /\ Stretch(outbox', count, reply,
                     (HeaderSize(reply) + 1) + Len(plain'))
          /\ Len(plain') + Len(outbox') = Len(plain) + Len(outbox)
      BY <1>0, <1>2, <2>0, <3>1, <3>2, Filled DEF InBody
    <3>4. Len(plain') \in Nat
      BY <3>3, LenProperties DEF Stretch
    <3>5. HeaderSize(reply) + Len(plain') + 1
            = (HeaderSize(reply) + 1) + Len(plain')
      BY <1>0, <3>4
    <3>6. InBody'
      BY <1>0, <2>0, <3>1, <3>3, <3>5 DEF InBody
    <3> QED BY <1>0, <2>0, <2>1, <2>3, <3>6 DEF StreamInv, Aligned
  <2> QED BY <2>0, <2>2, <2>3
<1> QED BY <1>1, <1>2 DEF fill

LEMMA ReadByteStep ==
    ASSUME StreamInv, ReadByte
    PROVE  StreamInv'
<1>0. /\ reply \in ReplyType /\ count \in Nat /\ HeaderSize(reply) \in Nat
      /\ Len(buf) \in Nat /\ Len(plain) \in Nat /\ Len(outbox) \in Nat
      /\ TypeOK /\ InHeader /\ (~key => plain = <<>>)
      /\ UNCHANGED <<key, count, reply, sound>> /\ pc = "line" /\ bytes(1)
  BY Sizes DEF ReadByte, StreamInv, Aligned
<1>1. /\ 1 \in 0..Len(source) /\ Len(buf) + 1 # HeaderSize(reply)
      /\ Head(source) = Byte(count, reply, Len(buf) + 1)
  BY NextByte DEF ReadByte
<1>2. /\ Stretch(plain', count, reply, (Len(buf) + 1) + 1)
      /\ Stretch(outbox', count, reply, (Len(buf) + 1) + 1 + Len(plain'))
      /\ Len(plain') + Len(outbox') = Len(plain) + Len(outbox) - 1
      /\ ~key => plain' = <<>>
  <2>1. Len(buf) + 1 \in Nat
        /\ Len(buf) + Len(plain) + 1 = (Len(buf) + 1) + Len(plain)
    BY <1>0
  <2>2. /\ Stretch(plain, count, reply, Len(buf) + 1)
        /\ Stretch(outbox, count, reply, (Len(buf) + 1) + Len(plain))
    BY <1>0, <2>1 DEF InHeader
  <2>3. /\ reply \in ReplyType /\ count \in Nat /\ TypeOK
        /\ (~key => plain = <<>>) /\ bytes(1)
    BY <1>0
  <2> QED BY <1>1, <2>1, <2>2, <2>3, BytesTaken
<1>3. CASE Fail
  BY <1>0, <1>2, <1>3 DEF Fail, StreamInv, TypeOK, Aligned
<1>4. CASE HasRoom /\ buf' = Append(buf, Head(source)) /\ UNCHANGED pc
  <2>1. Stretch(buf', count, reply, 1) /\ Len(buf') = Len(buf) + 1
    <3>1. Stretch(buf, count, reply, 1) /\ 1 + Len(buf) = Len(buf) + 1
      BY <1>0 DEF InHeader
    <3> QED BY <1>0, <1>1, <1>4, <3>1, StretchAppend
  <2>2. Len(plain') \in Nat /\ Len(outbox') \in Nat
    BY <1>2, LenProperties DEF Stretch
  <2>3. Len(buf') < HeaderSize(reply) /\ Len(buf') <= MaxHeader
    BY <1>0, <1>1, <1>4, <2>1 DEF InHeader, HasRoom
  <2>7. Len(buf') + Len(plain') + Len(outbox') = Size(reply)
    <3>1. Len(buf) + Len(plain) + Len(outbox) = Size(reply)
      BY <1>0 DEF InHeader
    <3>2. \A b, q, o, p \in Nat :
            q + o = p - 1 => (b + 1) + q + o = b + p
      OBVIOUS
    <3>3. (Len(buf) + 1) + Len(plain') + Len(outbox')
            = Len(buf) + (Len(plain) + Len(outbox))
      <4>1. Len(plain) + Len(outbox) \in Nat
        BY <1>0
      <4> QED BY <1>0, <1>2, <2>2, <3>2, <4>1
    <3> QED BY <1>0, <2>1, <3>1, <3>3
  <2>4. (Len(buf) + 1) + 1 + Len(plain') = Len(buf') + Len(plain') + 1
    BY <1>0, <2>1, <2>2
  <2>5. InHeader'
    BY <1>0, <1>2, <2>1, <2>3, <2>4, <2>7 DEF InHeader
  <2>6. TypeOK'
    BY <1>0, <1>4 DEF TypeOK
  <2> QED BY <1>0, <1>2, <1>4, <2>5, <2>6 DEF StreamInv, Aligned
<1> QED BY <1>3, <1>4 DEF ReadByte

LEMMA EndLineStep ==
    ASSUME StreamInv, EndLine
    PROVE  StreamInv' /\ (Acceptable(reply) <=> pc' = "bytes")
<1>0. /\ reply \in ReplyType /\ count \in Nat /\ HeaderSize(reply) \in Nat
      /\ reply.length \in Nat /\ reply.body \in Nat
      /\ Len(buf) \in Nat /\ Len(plain) \in Nat /\ Len(outbox) \in Nat
      /\ TypeOK /\ InHeader /\ (~key => plain = <<>>)
      /\ UNCHANGED <<key, count, reply, sound>> /\ pc = "line" /\ bytes(1)
  BY Sizes DEF EndLine, StreamInv, Aligned
<1>1. 1 \in 0..Len(source) /\ Len(buf) + 1 = HeaderSize(reply)
  BY NextByte DEF EndLine
<1>2. /\ Stretch(plain', count, reply, (Len(buf) + 1) + 1)
      /\ Stretch(outbox', count, reply, (Len(buf) + 1) + 1 + Len(plain'))
      /\ Len(plain') + Len(outbox') = Len(plain) + Len(outbox) - 1
      /\ ~key => plain' = <<>>
  <2>1. Len(buf) + 1 \in Nat
        /\ Len(buf) + Len(plain) + 1 = (Len(buf) + 1) + Len(plain)
    BY <1>0
  <2>2. /\ Stretch(plain, count, reply, Len(buf) + 1)
        /\ Stretch(outbox, count, reply, (Len(buf) + 1) + Len(plain))
    BY <1>0, <2>1 DEF InHeader
  <2>3. /\ reply \in ReplyType /\ count \in Nat /\ TypeOK
        /\ (~key => plain = <<>>) /\ bytes(1)
    BY <1>0
  <2> QED BY <1>1, <2>1, <2>2, <2>3, BytesTaken
<1>3. Len(plain') \in Nat /\ Len(outbox') \in Nat
  BY <1>2, LenProperties DEF Stretch
<1>4. HeaderSize(reply) - 1 <= MaxHeader
  BY <1>0, <1>1, WireAssumption DEF InHeader
<1>5. /\ Stretch(Line, count, reply, 1) /\ Len(Line) = reply.length
      /\ Line = <<>> <=> reply.length = 0
      /\ (\A i \in DOMAIN Line : Line[i].char = "text")
            <=> (reply.legible \/ reply.length = 0)
  BY <1>0, <1>1, LineIsHeader
<1>6. CASE Fail
  <2>1. pc' = "failed" /\ ~Acceptable(reply)
    <3>1. pc' # "bytes" /\ pc' = "failed"
      BY <1>6 DEF Fail
    <3>2. \/ Line = <<>> \/ reply.body > MaxFrame
          \/ \E i \in DOMAIN Line : Line[i].char # "text"
      BY <3>1 DEF EndLine
    <3>3. reply.length = 0 \/ reply.body > MaxFrame \/ ~reply.legible
      BY <1>5, <3>2, Zenon
    <3> QED BY <1>0, <3>1, <3>3, WireAssumption DEF Acceptable
  <2> QED BY <1>0, <1>2, <2>1 DEF StreamInv, TypeOK, Aligned
<1>7. CASE /\ Line # <<>> /\ reply.body <= MaxFrame
           /\ \A i \in DOMAIN Line : Line[i].char = "text"
           /\ pc' = "bytes" /\ buf' = Line
  <2>1. reply.legible /\ reply.length # 0
    BY <1>5, <1>7, Zenon
  <2>2. Acceptable(reply)
    BY <1>0, <1>4, <1>7, <2>1 DEF Acceptable
  <2>3. Len(plain') + Len(outbox') = reply.body
    <3>1. Len(buf) + Len(plain) + Len(outbox) = HeaderSize(reply) + reply.body
      BY <1>0, ReplySizes DEF InHeader
    <3>2. Len(plain) + Len(outbox) - 1 = reply.body
      BY <1>0, <1>1, <3>1
    <3> QED BY <1>2, <3>2
  <2>4. /\ (Len(buf) + 1) + 1 = HeaderSize(reply) + 1
        /\ (Len(buf) + 1) + 1 + Len(plain')
              = HeaderSize(reply) + Len(plain') + 1
    BY <1>0, <1>1, <1>3
  <2>5. InBody'
    BY <1>0, <1>2, <1>5, <1>7, <2>2, <2>3, <2>4 DEF InBody
  <2>6. TypeOK'
    BY <1>0, <1>7 DEF TypeOK
  <2> QED BY <1>0, <1>2, <1>7, <2>2, <2>5, <2>6 DEF StreamInv, Aligned
<1> QED BY <1>6, <1>7 DEF EndLine

\* A body is taken whole, and with it the reply ends.
LEMMA ReadBodyStep ==
    ASSUME StreamInv, ReadBody
    PROVE  /\ StreamInv'
           /\ header' = Bytes(count, reply, 1, reply.length)
           /\ body' = Bytes(count, reply, HeaderSize(reply) + 1, Size(reply))
<1>0. /\ reply \in ReplyType /\ count \in Nat /\ HeaderSize(reply) \in Nat
      /\ reply.length \in Nat /\ reply.body \in Nat
      /\ Len(plain) \in Nat /\ Len(outbox) \in Nat
      /\ TypeOK /\ InBody /\ (~key => plain = <<>>)
      /\ UNCHANGED <<key, count, reply, sound>>
      /\ bytes(reply.body) /\ Len(source) >= reply.body
      /\ pc' = "idle" /\ header' = buf /\ body' = SubSeq(source, 1, reply.body)
  BY Sizes DEF ReadBody, StreamInv, Aligned
<1>1. /\ HeaderSize(reply) + 1 \in Nat
      /\ HeaderSize(reply) + Len(plain) + 1
           = (HeaderSize(reply) + 1) + Len(plain)
      /\ Size(reply) = HeaderSize(reply) + reply.body /\ Size(reply) \in Nat
  <2>1. Size(reply) = HeaderSize(reply) + reply.body /\ Size(reply) \in Nat
    BY <1>0, ReplySizes
  <2> QED BY <1>0, <2>1
<1>2. Len(source) \in Nat /\ reply.body \in 0..Len(source)
  BY <1>0 DEF source
<1>3. /\ Stretch(source, count, reply, HeaderSize(reply) + 1)
      /\ Stretch(plain', count, reply, (HeaderSize(reply) + 1) + reply.body)
      /\ Stretch(outbox', count, reply,
                 (HeaderSize(reply) + 1) + reply.body + Len(plain'))
      /\ Len(plain') + Len(outbox') = Len(plain) + Len(outbox) - reply.body
      /\ ~key => plain' = <<>>
  BY <1>0, <1>1, <1>2, BytesTaken DEF InBody
<1>4. plain' = <<>> /\ outbox' = <<>>
  <2>1. plain' \in Seq(ByteType) /\ outbox' \in Seq(ByteType)
        /\ Len(plain') \in Nat /\ Len(outbox') \in Nat
    BY <1>3, LenProperties DEF Stretch
  <2>2. Len(plain') = 0 /\ Len(outbox') = 0
    <3>1. Len(plain) + Len(outbox) = reply.body
      BY <1>0 DEF InBody
    <3>2. Len(plain') + Len(outbox') = 0
      BY <1>0, <1>3, <3>1
    <3> QED BY <2>1, <3>2
  <2> QED BY <2>1, <2>2, EmptySeq
<1>5. header' = Bytes(count, reply, 1, reply.length)
  <2>1. Stretch(buf, count, reply, 1) /\ Len(buf) = reply.length - 1 + 1
        /\ 1 \in Nat /\ 1 <= reply.length + 1
    BY <1>0 DEF InBody
  <2>2. buf = Bytes(count, reply, 1, reply.length)
    BY <1>0, <2>1, StretchBytes
  <2> QED BY <1>0, <2>2
<1>6. body' = Bytes(count, reply, HeaderSize(reply) + 1, Size(reply))
  <2>1. /\ Stretch(SubSeq(source, 1, reply.body), count, reply,
                   HeaderSize(reply) + 1)
        /\ Len(SubSeq(source, 1, reply.body)) = reply.body
    <3>1. /\ count \in Nat /\ reply \in ReplyType
          /\ HeaderSize(reply) + 1 \in Nat
          /\ Stretch(source, count, reply, HeaderSize(reply) + 1)
          /\ reply.body \in 0..Len(source)
      BY <1>0, <1>1, <1>2, <1>3
    <3> QED BY <3>1, StretchRest
  <2>2. /\ HeaderSize(reply) + 1 <= Size(reply) + 1
        /\ reply.body = Size(reply) - (HeaderSize(reply) + 1) + 1
    <3>1. \A h, b \in Nat : h + 1 <= h + b + 1 /\ b = h + b - (h + 1) + 1
      OBVIOUS
    <3>2. HeaderSize(reply) \in Nat /\ reply.body \in Nat
          /\ Size(reply) = HeaderSize(reply) + reply.body
      BY <1>0, <1>1
    <3> QED BY <3>1, <3>2
  <2>3. SubSeq(source, 1, reply.body)
          = Bytes(count, reply, HeaderSize(reply) + 1, Size(reply))
    BY <1>0, <1>1, <2>1, <2>2, StretchBytes
  <2> QED BY <1>0, <2>3
<1> QED BY <1>0, <1>4, <1>5, <1>6 DEF StreamInv, TypeOK, Aligned

LEMMA NextPreserves == StreamInv /\ [Next]_vars => StreamInv'
<1> SUFFICES ASSUME StreamInv, [Next]_vars PROVE StreamInv'
  OBVIOUS
<1>1. ASSUME NEW r \in Choices, Ask(r) PROVE StreamInv'
  BY <1>1, AskStep
<1>2. ASSUME NEW k \in 0..Len(outbox), fill(k) PROVE StreamInv'
  BY <1>2, FillStep
<1>3. CASE ReadByte
  BY <1>3, ReadByteStep
<1>4. CASE EndLine
  BY <1>4, EndLineStep
<1>5. CASE ReadBody
  BY <1>5, ReadBodyStep
<1>6. CASE Break
  BY <1>6 DEF Break, Fail, StreamInv, TypeOK, Aligned
<1>7. CASE UNCHANGED vars
  BY <1>7 DEF vars, StreamInv, TypeOK, Aligned, InHeader, InBody
<1> QED BY <1>1, <1>2, <1>3, <1>4, <1>5, <1>6, <1>7 DEF Next

\* The driver and the peer never disagree about the place of a byte.
THEOREM StreamAligned == Spec => []StreamInv
BY InitAligned, NextPreserves, PTL DEF Spec

\* Nothing of a reply is left over for the next.
THEOREM StreamClean == Spec => []NothingLeft
<1>1. StreamInv => NothingLeft
  BY DEF StreamInv, Aligned, NothingLeft
<1> QED BY <1>1, StreamAligned, PTL

-----------------------------------------------------------------------------
(* fill's bounds.                                                          *)

\* A frame of an acceptable reply passes both checks of fill, whatever has
\* been read before it.
LEMMA FrameFits ==
    ASSUME StreamInv, pc \in {"line", "bytes"}, Acceptable(reply),
           NEW k \in 0..Len(outbox)
    PROVE  ~TooLarge(k)
<1>0. /\ HeaderSize(reply) \in Nat /\ reply.body \in Nat /\ Len(buf) \in Nat
      /\ Len(plain) \in Nat /\ Len(outbox) \in Nat
      /\ Size(reply) = HeaderSize(reply) + reply.body
      /\ MaxFrame \in Nat /\ MaxHeader \in Nat
  BY Sizes, ReplySizes, WireAssumption
<1>1. HeaderSize(reply) - 1 <= MaxHeader /\ reply.body <= MaxFrame
  BY DEF Acceptable
<1>2. Len(plain) + Len(outbox) <= Size(reply)
  <2>1. CASE pc = "line"
    BY <1>0, <2>1 DEF StreamInv, Aligned, InHeader
  <2>2. CASE pc = "bytes"
    BY <1>0, <2>2 DEF StreamInv, Aligned, InBody
  <2> QED BY <2>1, <2>2
<1>3. Len(plain) + k <= MaxFrame + MaxHeader + 1
  BY <1>0, <1>1, <1>2
<1> QED BY <1>0, <1>3 DEF TooLarge, Overhead

\* No more is kept than the largest reply needs, and that much always fits.
THEOREM StreamBounded == Spec => []RoomForReply
<1> DEFINE Kept == Len(plain) \in Nat /\ Len(plain) <= MaxFrame + MaxHeader + 1
<1>1. Init => Kept
  BY WireAssumption DEF Init
<1>2. StreamInv /\ Kept /\ [Next]_vars => Kept'
  <2> SUFFICES ASSUME StreamInv, Kept, [Next]_vars PROVE Kept'
    OBVIOUS
  <2>1. CASE UNCHANGED plain
    BY <2>1
  <2>2. ASSUME NEW k \in 0..Len(outbox), fill(k), plain' # plain PROVE Kept'
    <3>1. /\ plain \in Seq(ByteType) /\ outbox \in Seq(ByteType)
          /\ Len(plain) \in Nat /\ Len(outbox) \in Nat
      BY <2>2, Sizes
         DEF fill, StreamInv, Aligned, InHeader, InBody, Stretch
    <3>2. ~TooLarge(k) /\ plain' = plain \o SubSeq(outbox, 1, k)
      BY <2>2 DEF fill
    <3>3. SubSeq(outbox, 1, k) \in Seq(ByteType)
          /\ Len(SubSeq(outbox, 1, k)) = k
      <4>1. \A i \in 1..k : outbox[i] \in ByteType
        BY <3>1, ElementOfSeq
      <4>2. /\ SubSeq(outbox, 1, k) \in Seq(ByteType)
            /\ Len(SubSeq(outbox, 1, k)) = IF 1 <= k THEN k - 1 + 1 ELSE 0
        BY <4>1, SubSeqProperties
      <4> QED BY <3>1, <4>2
    <3>4. Len(plain') = Len(plain) + k
      BY <3>1, <3>2, <3>3, ConcatProperties
    <3> QED BY <3>1, <3>2, <3>4, WireAssumption DEF TooLarge
  <2>3. ASSUME NEW n \in 0..Len(source), bytes(n),
               plain \in Seq(ByteType), Len(plain) \in Nat
        PROVE  Kept'
    <3>1. CASE key
      <4>1. n \in 0..Len(plain) /\ plain' = SubSeq(plain, n + 1, Len(plain))
        BY <2>3, <3>1 DEF source, bytes
      <4>2. \A i \in (n + 1)..Len(plain) : plain[i] \in ByteType
        BY <2>3, <4>1, ElementOfSeq
      <4>3. n + 1 \in Int /\ Len(plain) \in Int
        BY <2>3, <4>1
      <4>4. Len(plain') = IF n + 1 <= Len(plain)
                          THEN Len(plain) - (n + 1) + 1 ELSE 0
        BY <4>1, <4>2, <4>3, SubSeqProperties
      <4> QED BY <2>3, <4>1, <4>4, WireAssumption
    <3>2. CASE ~key
      BY <2>3, <3>2 DEF bytes
    <3> QED BY <3>1, <3>2
  <2>4. CASE ReadByte \/ EndLine
    <3>1. /\ pc = "line" /\ source # <<>> /\ bytes(1)
      BY <2>4 DEF ReadByte, EndLine
    <3>2. 1 \in 0..Len(source) /\ plain \in Seq(ByteType) /\ Len(plain) \in Nat
      BY <3>1, NextByte, Sizes DEF StreamInv, Aligned, InHeader, Stretch
    <3> QED BY <2>3, <3>1, <3>2
  <2>5. CASE ReadBody
    <3>1. /\ pc = "bytes" /\ bytes(reply.body) /\ Len(source) >= reply.body
      BY <2>5 DEF ReadBody
    <3>2. /\ reply.body \in Nat /\ Len(source) \in Nat
          /\ plain \in Seq(ByteType) /\ Len(plain) \in Nat
      BY <3>1, Sizes DEF StreamInv, Aligned, InBody, Stretch, source
    <3>3. reply.body \in 0..Len(source)
      BY <3>1, <3>2
    <3> QED BY <2>3, <3>1, <3>2, <3>3
  <2>6. (\E r \in Choices : Ask(r)) \/ Break \/ UNCHANGED vars
            => UNCHANGED plain
    BY DEF Ask, Break, vars
  <2> QED BY <2>1, <2>2, <2>4, <2>5, <2>6 DEF Next
<1>3. StreamInv /\ Kept => RoomForReply
  BY FrameFits DEF RoomForReply
<1> QED BY <1>1, <1>2, <1>3, StreamAligned, PTL DEF Spec

-----------------------------------------------------------------------------
(* The refinement.                                                         *)

\* The contract's replies are those of the driver's model.
LEMMA SameReplies ==
    /\ Contract!ReplyType = ReplyType
    /\ \A r \in ReplyType :
          /\ Contract!Acceptable(r) = Acceptable(r)
          /\ Contract!HeaderSize(r) = HeaderSize(r)
          /\ Contract!Size(r) = Size(r)
    /\ \A n, r, first, last :
          Contract!Bytes(n, r, first, last) = Bytes(n, r, first, last)
<1>1. /\ Contract!ReplyType = ReplyType
      /\ \A r : Contract!HeaderSize(r) = HeaderSize(r)
      /\ \A r, i : Contract!Char(r, i) = Char(r, i)
  BY DEF Contract!ReplyType, ReplyType, Contract!HeaderSize, HeaderSize,
         Contract!Char, Char
<1>2. \A r : /\ Contract!Size(r) = Size(r)
            /\ Contract!Acceptable(r) = Acceptable(r)
  BY <1>1 DEF Contract!Size, Size, Contract!Acceptable, Acceptable
<1>3. \A n, r, i : Contract!Byte(n, r, i) = Byte(n, r, i)
  BY <1>1 DEF Contract!Byte, Byte
<1>4. \A n, r, first, last :
         Contract!Bytes(n, r, first, last) = Bytes(n, r, first, last)
  BY <1>3 DEF Contract!Bytes, Bytes
<1> QED BY <1>1, <1>2, <1>4

\* How the driver splits its reading into steps is invisible to the caller.
LEMMA StepRefines ==
    ASSUME StreamInv, [Next]_vars
    PROVE  [Contract!Next]_(Contract!vars)
<1>0. Contract!Acceptable(reply) = Acceptable(reply)
  BY Sizes, SameReplies
<1>1. ASSUME NEW r \in Choices, Ask(r) PROVE Contract!Ask
  BY <1>1, StreamAssumption, SameReplies DEF Ask, Contract!Ask
<1>2. CASE EndLine
  <2>1. /\ pc = "line" /\ pc' \in {"bytes", "failed"}
        /\ UNCHANGED <<count, reply, sound, header, body>>
    BY <1>2 DEF EndLine, Fail
  <2>2. Acceptable(reply) <=> pc' = "bytes"
    BY <1>2, EndLineStep
  <2> QED BY <1>0, <2>1, <2>2
          DEF Contract!Next, Contract!Refuse, Contract!vars
<1>3. CASE ReadBody
  <2>1. /\ pc = "bytes" /\ pc' = "idle" /\ UNCHANGED <<count, reply, sound>>
        /\ Acceptable(reply)
    BY <1>3 DEF ReadBody, StreamInv, Aligned, InBody
  <2>2. /\ header' = Bytes(count, reply, 1, reply.length)
        /\ body' = Bytes(count, reply, HeaderSize(reply) + 1, Size(reply))
    BY <1>3, ReadBodyStep
  <2>3. /\ header' = Contract!Bytes(count, reply, 1, reply.length)
        /\ body' = Contract!Bytes(count, reply,
                       Contract!HeaderSize(reply) + 1, Contract!Size(reply))
    BY <2>2, Sizes, SameReplies, Zenon
  <2> QED BY <1>0, <2>1, <2>3 DEF Contract!Next, Contract!Accept
<1>4. ASSUME NEW k \in 0..Len(outbox), fill(k)
      PROVE  Contract!Refuse \/ UNCHANGED Contract!vars
  <2>1. /\ pc \in {"line", "bytes"}
        /\ UNCHANGED <<count, reply, sound, header, body>>
        /\ \/ UNCHANGED pc
           \/ pc' = "failed" /\ TooLarge(k)
    BY <1>4 DEF fill, Fail
  <2>2. TooLarge(k) => ~Acceptable(reply)
    BY <2>1, FrameFits
  <2> QED BY <1>0, <2>1, <2>2 DEF Contract!Refuse, Contract!vars
<1>5. CASE ReadByte
  <2>1. /\ pc = "line" /\ UNCHANGED <<count, reply, sound, header, body>>
        /\ \/ UNCHANGED pc
           \/ pc' = "failed" /\ ~HasRoom
    BY <1>5 DEF ReadByte, Fail
  <2>2. ~HasRoom => ~Acceptable(reply)
    <3>1. Len(buf) + 1 < HeaderSize(reply)
      <4>1. /\ Len(buf) \in Nat /\ HeaderSize(reply) \in Nat
            /\ Len(buf) < HeaderSize(reply)
            /\ Len(buf) + 1 # HeaderSize(reply)
        BY <1>5, Sizes, NextByte DEF ReadByte, StreamInv, Aligned, InHeader
      <4> QED BY <4>1
    <3>2. Len(buf) \in Nat /\ HeaderSize(reply) \in Nat
      BY <2>1, Sizes
    <3> QED BY <3>1, <3>2, WireAssumption DEF HasRoom, Acceptable
  <2> QED BY <1>0, <2>1, <2>2
          DEF Contract!Next, Contract!Refuse, Contract!vars
<1>6. CASE Break
  BY <1>6 DEF Break, Fail, Contract!Next, Contract!Break
<1>7. CASE UNCHANGED vars
  BY <1>7 DEF vars, Contract!vars
<1> QED BY <1>1, <1>2, <1>3, <1>4, <1>5, <1>6, <1>7
        DEF Next, Contract!Next

\* A caller cannot tell a sealed connection from an open one.
THEOREM StreamRefines == Spec => ImplementsContract
<1>1. Init => Contract!Init
  BY StreamAssumption, SameReplies DEF Init, Contract!Init
<1> QED BY <1>1, StepRefines, StreamAligned, PTL
        DEF Spec, ImplementsContract, Contract!Spec
=============================================================================
