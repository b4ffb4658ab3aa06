---------------------------- MODULE KoutenErrors ----------------------------
(***************************************************************************)
(* The driver's errors (errors.go:9-33) and the names under which the      *)
(* conformance adapter reports them (cmd/conformance/main.go:34-52).       *)
(***************************************************************************)

Kinds == {"connection", "timeout", "authentication", "protocol", "version",
          "server", "indeterminate", "input", "closed"}

\* A finished context is reported by an error of package context, which is
\* none of the driver's.
ErrorType == [kind : Kinds \cup {"ctx"}, cause : Kinds \cup {"ctx", "none"}]

\* An error of kind k.  Only ErrIndeterminateWrite has a cause.
Error(k) == [kind |-> k, cause |-> "none"]

\* Error.Is of an error of kind k, asked for the kind t.
IsKind(k, t) == k = t \/ (k = "closed" /\ t = "connection")

\* errors.Is: the error itself, or what it unwraps to.
Is(e, t) == IsKind(e.kind, t) \/ IsKind(e.cause, t)

\* MUTANT of NameOf: the cause of an unknown outcome is looked at first.
NameOfCause(e) ==
    CASE Is(e, "timeout")        -> "ConnectionTimeoutException"
    []   Is(e, "connection") /\ ~Is(e, "timeout") -> "ConnectionException"
    []   OTHER -> "IndeterminateWriteException"

\* MUTANT of NameOf: the alias of a closed client is forgotten.
NameOfItself(e) ==
    CASE e.kind = "indeterminate"  -> "IndeterminateWriteException"
    []   e.kind = "authentication" -> "AuthenticationException"
    []   e.kind = "protocol"       -> "ProtocolException"
    []   e.kind = "version"        -> "VersionMismatchException"
    []   e.kind = "timeout"        -> "ConnectionTimeoutException"
    []   e.kind = "connection"     -> "ConnectionException"
    []   e.kind = "server"         -> "ServerException"
    []   OTHER                     -> "InvalidInputException"

\* kind: its pairs, in their order, and its default.
NameOf(e) ==
    IF Is(e, "indeterminate")       THEN "IndeterminateWriteException"
    ELSE IF Is(e, "authentication") THEN "AuthenticationException"
    ELSE IF Is(e, "protocol")       THEN "ProtocolException"
    ELSE IF Is(e, "version")        THEN "VersionMismatchException"
    ELSE IF Is(e, "timeout")        THEN "ConnectionTimeoutException"
    ELSE IF Is(e, "connection")     THEN "ConnectionException"
    ELSE IF Is(e, "server")         THEN "ServerException"
    ELSE "InvalidInputException"
=============================================================================
