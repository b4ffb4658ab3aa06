---------------------------- MODULE IDInvariants ----------------------------
(***************************************************************************)
(* Properties of KoutenID: the driver never changes the name of a record.  *)
(***************************************************************************)
EXTENDS KoutenID

\* What is read is a name of the protocol, and every such name is read:
\* integers are written the one way String writes them and fit their field,
\* also at the last value of each width (id.go:28-65).
Named(p) ==
    /\ Len(p) = 6
    /\ p[1] \in {Decimal[n] : n \in 0..MaxUint64}
    /\ p[2] \in {Decimal[n] : n \in 0..MaxUint32}
    /\ p[3] \in {Decimal[n] : n \in 0..MaxUint32}
    /\ \A i \in 4..6 : /\ p[i].spelling \notin {"overflow", "malformed"}
                       /\ p[i].float \notin {NaN, Inf, -Inf}
    /\ p[5].float > 0

ReadsNames == input # <<>> => (err = "none" <=> Named(input))

\* The name that goes back to the server is the one that it has given: byte
\* for byte in the integers, in its value for a real.  And whoever reads what
\* was written, a server or UnmarshalText, reads the ID that was written, also
\* one that the application has made (id.go:20-23, 50-88; client.go:170, 250).
NameKept ==
    /\ input # <<>> /\ err = "none" =>
          LET s == String(id)
          IN  /\ \A i \in 1..3 : s[i] = input[i]
              /\ \A i \in 4..6 : s[i].float = input[i].float
    /\ output # <<>> => parseFields(output) /\ parsed(output) = id

-----------------------------------------------------------------------------
\* The inductive invariant: id is what the last name said, if it was good, and
\* the last text is that of id.
IDInv ==
    /\ id \in IDType
    /\ input \in Names \cup {<<>>}
    /\ input # <<>> => /\ err = "none" <=> parseFields(input)
                       /\ err = "none" => id = parsed(input)
    /\ output # <<>> => valid(id) /\ output = String(id)
=============================================================================
