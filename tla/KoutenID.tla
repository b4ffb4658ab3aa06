------------------------------ MODULE KoutenID ------------------------------
(***************************************************************************)
(* The names of records (id.go): a server gives an ID in the fields of a   *)
(* reply, the application may keep it as a text, and the driver sends it   *)
(* back in the header of a read.  A name is the sequence of its fields: an *)
(* integer is written in digits, a real is a spelling of a float64.        *)
(***************************************************************************)
EXTENDS Integers, Sequences

CONSTANTS
    MaxUint64, MaxUint32,  \* bounds: the widths, scaled down
    Names,                 \* the names that are read
    IDs                    \* the IDs that the application makes up

ASSUME WidthAssumption ==
    MaxUint32 \in Nat /\ MaxUint64 \in Nat /\ MaxUint32 <= MaxUint64

Digits == 0..9    \* any other number stands for a byte that is no digit

\* Floats, by their order; the last two are not finite.
NaN == 1001
Inf == 1000

finite(f) == f \notin {NaN, Inf, -Inf}

\* "exact" is the shortest text of a float and "padded" a longer one;
\* "overflow" and "malformed" make ParseFloat fail.
Spellings == {"exact", "padded", "overflow", "malformed"}

valid(i) == finite(i.TWrite) /\ finite(i.Period) /\ i.Period > 0 /\ finite(i.Head)

ASSUME NameAssumption ==
    \A p \in Names : Len(p) = 6 =>
        /\ \A i \in 1..3 : p[i] \in Seq(Nat)
        /\ \A i \in 4..6 : p[i] \in [float : Int, spelling : Spellings]

\* The fields of type ID.
IDType == [Parent : 0..MaxUint64, Epoch : 0..MaxUint32, Seq : 0..MaxUint32,
           TWrite : Int, Period : Int, Head : Int]

ASSUME IDAssumption == IDs \subseteq IDType

ZeroID == [Parent |-> 0, Epoch |-> 0, Seq |-> 0, TWrite |-> 0, Period |-> 0,
           Head |-> 0]

-----------------------------------------------------------------------------
(* Reading.                                                                *)

\* The values of the prefixes of s, by their length.
Value(s) ==
    LET value[n \in 0..Len(s)] ==
            IF n = 0 THEN 0 ELSE 10 * value[n - 1] + s[n]
    IN  value[Len(s)]

AllDigits(s) == \A i \in 1..Len(s) : s[i] \in Digits

\* MUTANT of Canonical: leading zeros are let through.
CanonicalOrPadded(s) == s # <<>> /\ AllDigits(s)

Canonical(s) ==
    /\ s # <<>> /\ ~(Len(s) > 1 /\ s[1] = 0)
    /\ AllDigits(s)

MaxUint(bits) == IF bits = 64 THEN MaxUint64 ELSE MaxUint32

\* uintField returns no error; its result is Value(s).
uintField(s, bits) == Canonical(s) /\ Value(s) <= MaxUint(bits)

ParseFloat(s) == s.spelling \in {"exact", "padded"}

parsed(p) ==
    [Parent |-> Value(p[1]), Epoch |-> Value(p[2]), Seq |-> Value(p[3]),
     TWrite |-> p[4].float, Period |-> p[5].float, Head |-> p[6].float]

\* parseFields returns no error; its result is parsed(p).
parseFields(p) ==
    /\ Len(p) = 6
    /\ uintField(p[1], 64) /\ uintField(p[2], 32) /\ uintField(p[3], 32)
    /\ \A i \in 4..6 : ParseFloat(p[i])
    /\ valid(parsed(p))

-----------------------------------------------------------------------------
(* Writing.                                                                *)

\* The digits of a uint64.
Decimal[n \in 0..MaxUint64] ==
    IF n < 10 THEN <<n>> ELSE Append(Decimal[n \div 10], n % 10)

\* MUTANT of FormatFloat: a fixed number of digits merges neighbours.
FormatFloatRounded(f) ==
    [float |-> IF finite(f) THEN 2 * (f \div 2) ELSE f, spelling |-> "exact"]

FormatFloat(f) == [float |-> f, spelling |-> "exact"]

String(i) ==
    <<Decimal[i.Parent], Decimal[i.Epoch], Decimal[i.Seq],
      FormatFloat(i.TWrite), FormatFloat(i.Period), FormatFloat(i.Head)>>

-----------------------------------------------------------------------------
VARIABLES
    id,      \* an ID of the application
    input,   \* the name it was last to be read from, or <<>>
    err,     \* what that has returned
    output   \* the name it was written as, or <<>>

vars == <<id, input, err, output>>

Init ==
    id = ZeroID /\ input = <<>> /\ err = "none" /\ output = <<>>

\* A reply to PUTR, or a redirect.
Receive(p) ==
    /\ input' = p
    /\ \/ parseFields(p) /\ id' = parsed(p) /\ err' = "none"
       \/ ~parseFields(p) /\ id' = ZeroID /\ err' = "protocol"
    /\ output' = <<>>

\* A text that the application has kept.
UnmarshalText(p) ==
    /\ input' = p
    /\ \/ parseFields(p) /\ id' = parsed(p) /\ err' = "none"
       \/ ~parseFields(p) /\ UNCHANGED id /\ err' = "input"
    /\ output' = <<>>

\* The fields of ID are exported.
Assign(i) ==
    /\ id' = i /\ input' = <<>> /\ err' = "none"
    /\ output' = <<>>

\* MarshalText, and the header of a GETID or QRYID.
Write ==
    /\ valid(id)
    /\ output' = String(id)
    /\ UNCHANGED <<id, input, err>>

Next ==
    \/ \E p \in Names : Receive(p) \/ UnmarshalText(p)
    \/ \E i \in IDs : Assign(i)
    \/ Write

Spec == Init /\ [][Next]_vars
=============================================================================
