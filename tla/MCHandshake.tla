---------------------------- MODULE MCHandshake -----------------------------
(* Instances of KoutenHandshake for TLC: options at and just past a limit.   *)
EXTENDS HandshakeInvariants

Field(n) == [length |-> n, legible |-> TRUE]
Fields == {Field(n) : n \in {1, 1024, 1025, 4096}}
          \cup {[length |-> 1, legible |-> FALSE]}

\* The zero Options.
Zero ==
    [timeout |-> [t \in Timeouts |-> 0], MaxFrameBytes |-> 0,
     MaxRedirects |-> 0, Username |-> Field(0), Password |-> Field(0),
     AuthToken |-> Field(0), SecretKey |-> 0, Galaxy |-> Field(0),
     readableCA |-> TRUE]

\* Users with a password, with a token, with a secret; none; long ones.
Logins ==
    {Zero, [Zero EXCEPT !.AuthToken = Field(1)],
     [Zero EXCEPT !.AuthToken = Field(1), !.SecretKey = 32]}
    \cup {[Zero EXCEPT !.Username = f, !.Password = p, !.SecretKey = s] :
             f \in {Field(1), Field(1024)}, p \in {Field(0), Field(1024)},
             s \in {0, 32}}

WithGalaxy == Logins \cup {[o EXCEPT !.Galaxy = Field(1024)] : o \in Logins}

\* One limit at a time.
Limits ==
    {[Zero EXCEPT !.timeout[t] = n] :
        t \in Timeouts, n \in {-1, 1, Hour, Hour + 1}}
    \cup {[Zero EXCEPT !.MaxFrameBytes = n] :
             n \in {-1, 1, maxFrame, maxFrame + 1}}
    \cup {[Zero EXCEPT !.MaxRedirects = n] : n \in {-1, 1, 32, 33}}
    \cup {[Zero EXCEPT !.Username = f, !.SecretKey = n] :
             f \in Fields \cup {Field(0)}, n \in {0, 4096, 4097}}
    \cup {[Zero EXCEPT !.Password = f] : f \in Fields}
    \cup {[Zero EXCEPT !.AuthToken = f] : f \in Fields}
    \cup {[Zero EXCEPT !.Galaxy = f] : f \in Fields}
    \cup {[Zero EXCEPT !.readableCA = FALSE]}

Peer == [count |-> 1, valid |-> TRUE]

MCGiven ==
    [peers : {Peer}, options : WithGalaxy \cup Limits]
    \cup [peers : [count : {0, 1, 64, 65}, valid : BOOLEAN], options : {Zero}]

MCServers == [login : BOOLEAN, credentials : BOOLEAN, galaxy : BOOLEAN,
              version : {1, 2}, codec : {"codec-metadata", "other", "ERR"}]
=============================================================================
