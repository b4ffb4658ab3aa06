--------------------------- MODULE KoutenOptions ----------------------------
(***************************************************************************)
(* normalize (options.go:45-111): what Dial makes of the caller's peers    *)
(* and Options.  A text counts by its length and by whether it holds only  *)
(* the bytes it may; a duration is in seconds.                             *)
(***************************************************************************)
EXTENDS Integers

maxFrame  == 64 * 1024 * 1024
maxHeader == 8192
Hour      == 3600

Text == [length : Nat, legible : BOOLEAN]

Peers == [count : Nat, valid : BOOLEAN]

Timeouts == {"ConnectTimeout", "ReadTimeout", "WriteTimeout"}

OptionsType ==
    [timeout : [Timeouts -> Int], MaxFrameBytes : Int, MaxRedirects : Int,
     Username : Text, Password : Text, AuthToken : Text, SecretKey : Nat,
     Galaxy : Text, readableCA : BOOLEAN]

OrDefault(n, default) == IF n = 0 THEN default ELSE n

Defaulted(o) ==
    [o EXCEPT !.timeout = [t \in Timeouts |-> OrDefault(o.timeout[t], 5)],
              !.MaxFrameBytes = OrDefault(@, maxFrame),
              !.MaxRedirects = OrDefault(@, 8)]

\* A token is the password of the user "token".
WithToken(o) ==
    IF o.Username.length = 0 /\ o.AuthToken.length > 0
    THEN [o EXCEPT !.Username = [length |-> 5, legible |-> TRUE],
                   !.Password = o.AuthToken]
    ELSE o

normalized(o) == WithToken(Defaulted(o))

\* MUTANT of FieldFits: names as long as secrets are let through.
FieldFitsLoosely(field) == field.length <= 4096 /\ field.legible

FieldFits(field) == field.length <= 1024 /\ field.legible

\* normalize returns no error.
Accepted(peers, given) ==
    LET o == normalized(given)
    IN  /\ peers.count \in 1..64 /\ peers.valid
        /\ \A t \in Timeouts : o.timeout[t] \in 0..Hour
        /\ o.MaxFrameBytes \in 1..maxFrame
        /\ o.MaxRedirects \in 0..32
        /\ FieldFits(o.Username) /\ FieldFits(o.Password)
        /\ FieldFits(o.Galaxy)
        /\ o.SecretKey <= 4096
        /\ o.Username.length = 0 => o.Password.length = 0 /\ o.SecretKey = 0
        /\ o.readableCA

\* normalize, as Dial sees it: the options to use, or ErrInvalidInput.
normalize(peers, given) ==
    [valid |-> Accepted(peers, given), options |-> normalized(given)]
=============================================================================
