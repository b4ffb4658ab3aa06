------------------------- MODULE EmbeddedInvariants -------------------------
(***************************************************************************)
(* What the embedded driver promises to its callers, and what it owes to   *)
(* libkoutendb (the contract stated in embedded/koutendb.h:72-76, 113-135):*)
(* properties of EmbeddedDB.                                               *)
(***************************************************************************)
EXTENDS EmbeddedDB

\* Where a worker is: before, in and after its loop.
Starting == {"new", "lockThread", "once", "init", "version", "open", "openError"}
Working  == {"exists", "act", "buffer", "error", "close", "closeReply"}
Workers  == Starting \cup Working \cup {"loop", "dead"}

\* The places between the lock and the unlock of DB.mu.
Holding == {"send", "wait", "unlock"}
Answers == {"empty", "ok", "absent", "notFound", "abi"}

\* The values the fields of DB, the locals of its worker, the calls and the
\* library's state take (db.go:87-101, 115-191).
TypeOK ==
    /\ once \in {"new", "running", "done"}
    /\ opened \in [DBs -> {"none", "ok", "version", "abi"}]
    /\ worker \in [DBs -> Workers]
    /\ thread \in [DBs -> Threads]
    /\ locked \in [DBs -> BOOLEAN]
    /\ job \in [DBs -> Calls \cup {NoCall}]
    /\ handle \in [DBs -> {"none", "open", "closed"}]
    /\ record \in [DBs -> BOOLEAN]
    /\ buffers \in [DBs -> Nat]
    /\ errorText \in [Threads -> DBs \cup {NoDB}]
    /\ mu \in [DBs -> BOOLEAN]
    /\ closed \in [DBs -> BOOLEAN]
    /\ op \in [Calls -> Ops \cup {"none"}]
    /\ db \in [Calls -> DBs]
    /\ pc \in [Calls -> Holding \cup {"idle", "lock", "done"}]
    /\ done \in [Calls -> Answers]
    /\ result \in [Calls -> (Answers \ {"empty"}) \cup {"none", "input", "closed"}]

\* No worker enters the library before kouten_init has returned, however many
\* DB values are opened at once (koutendb.h:76, 118; runtimeOnce, db.go:124).
InitBeforeCalls ==
    \A d \in DBs :
        worker[d] \in (Working \cup {"version", "open", "openError", "loop"})
            => once = "done"

\* A handle is used only between kouten_open and kouten_close, by one job at a
\* time, and that job is the one of the call that holds DB.mu
\* (koutendb.h:121-124).
HandleUse ==
    \A d \in DBs :
        /\ worker[d] \in Working \ {"closeReply"} => handle[d] = "open"
        /\ worker[d] \in Working =>
              /\ job[d] \in Calls
              /\ db[job[d]] = d
              /\ pc[job[d]] = "wait"

\* Nobody waits on a worker that is gone: a call hands its job over, or waits
\* for the answer, only while the worker lives, and after Close every call is
\* turned away before the channel (db.go:169-174, 183-189).
NobodyStranded ==
    \A c \in Calls :
        /\ pc[c] = "send" => worker[db[c]] = "loop"
        /\ pc[c] = "wait" => done[c] # "empty" \/ job[db[c]] = c
        /\ closed[db[c]] =>
              handle[db[c]] = "closed" /\ pc[c] \notin {"send", "wait"}

\* The text that lastError reads is that of the failure it reports: nothing
\* ran in between on its thread, for this DB or for another one
\* (koutendb.h:119-120, db.go:71-75, 122).
ErrorFromOwnFailure ==
    \A d \in DBs :
        worker[d] \in {"error", "openError"} => errorText[thread[d]] = d

\* get, query, update and remove reach the library only for a record that still
\* exists when they do, and until a result has been copied: nothing runs between
\* kouten_exists and them (db.go:232-248, 274-281, 294-297, 309-312).
ActsOnExisting ==
    \A d \in DBs :
        worker[d] \in {"act", "buffer"} /\ op[job[d]] \in Checked => record[d]

\* A worker holds a C buffer only while it copies it, and gives it back once
\* (db.go:76-85).
BuffersFreed ==
    \A d \in DBs : buffers[d] = IF worker[d] = "buffer" THEN 1 ELSE 0

-----------------------------------------------------------------------------
(* The inductive invariant.                                                *)

Serving == Working \cup {"loop"}

\* A worker is locked to its thread from its first step to its last, and to
\* one of its own.
ThreadInv ==
    /\ \A d \in DBs : locked[d] <=> worker[d] \notin {"new", "lockThread", "dead"}
    /\ \A d, e \in DBs :
          locked[d] /\ locked[e] /\ d # e => thread[d] # thread[e]

\* The life of a worker, its handle and what OpenWithOptions has returned.
LifeInv ==
    \A d \in DBs :
        /\ opened[d] = "none" <=> worker[d] \in Starting
        /\ worker[d] \in Serving => opened[d] = "ok"
        /\ handle[d] = "open" <=> worker[d] \in Serving \ {"closeReply"}
        /\ worker[d] = "closeReply" => handle[d] = "closed"
        /\ opened[d] = "ok" /\ worker[d] = "dead" => handle[d] = "closed"
        /\ closed[d] => opened[d] = "ok" /\ worker[d] = "dead"

\* A worker has the job of the one call that waits for it.
JobInv ==
    \A d \in DBs :
        /\ worker[d] \notin Working => job[d] = NoCall
        /\ worker[d] \in Working =>
              /\ job[d] \in Calls
              /\ db[job[d]] = d
              /\ pc[job[d]] = "wait"
              /\ done[job[d]] = "empty"
              /\ op[job[d]] = "close" <=> worker[d] \in {"close", "closeReply"}
              /\ worker[d] = "exists" => op[job[d]] \in Checked
              /\ worker[d] = "buffer" => op[job[d]] \in Buffered

\* DB.mu is a mutex of the calls between its lock and unlock.
MutexInv ==
    /\ \A d \in DBs : mu[d] <=> \E c \in Calls : pc[c] \in Holding /\ db[c] = d
    /\ \A c, e \in Calls :
          pc[c] \in Holding /\ pc[e] \in Holding /\ db[c] = db[e] => c = e

\* Where the channels and the worker are, by the place of a call.
CallInv ==
    \A c \in Calls :
        /\ pc[c] = "idle" <=> op[c] = "none"
        /\ pc[c] # "idle" => opened[db[c]] = "ok"
        /\ result[c] = "none" <=> pc[c] \in {"idle", "lock", "send", "wait"}
        /\ pc[c] = "send" => worker[db[c]] = "loop"
        /\ pc[c] # "wait" => done[c] = "empty"
        /\ pc[c] = "wait" =>
              IF done[c] = "empty" THEN job[db[c]] = c
              ELSE worker[db[c]] = IF op[c] = "close" THEN "dead" ELSE "loop"
        /\ pc[c] \in {"send", "wait"} => ~closed[db[c]]

\* A DB that is open and whose channel nobody uses has a worker that receives.
IdleInv ==
    \A d \in DBs :
        opened[d] = "ok" /\ ~closed[d] =>
            \/ worker[d] = "loop"
            \/ \E c \in Calls : pc[c] = "wait" /\ db[c] = d

EmbeddedInv ==
    /\ TypeOK
    /\ InitBeforeCalls
    /\ ThreadInv
    /\ LifeInv
    /\ JobInv
    /\ MutexInv
    /\ CallInv
    /\ IdleInv
    /\ ErrorFromOwnFailure
    /\ ActsOnExisting
    /\ BuffersFreed

-----------------------------------------------------------------------------
(* The contract.                                                           *)

State(d) ==
    IF opened[d] # "ok" THEN "unopened"
    ELSE IF worker[d] = "dead" THEN "shut" ELSE "open"

\* The library call of c has failed, and the worker has yet to say so.
Failing(c) == worker[db[c]] = "error" /\ job[db[c]] = c

Outcome(c) ==
    IF done[c] # "empty" THEN done[c]
    ELSE IF Failing(c) THEN "abi" ELSE result[c]

Phase(c) ==
    IF pc[c] = "idle" THEN "new"
    ELSE IF pc[c] = "done" THEN "returned"
    ELSE IF Outcome(c) = "none" THEN "running" ELSE "answered"

Contract == INSTANCE EmbeddedContract
    WITH state <- [d \in DBs |-> State(d)], stored <- record,
         method <- op, target <- db,
         phase <- [c \in Calls |-> Phase(c)],
         answer <- [c \in Calls |-> Outcome(c)]

\* The worker, its channel and DB.mu make the methods of DB atomic: every
\* answer is right for the database at one moment between call and return, that
\* of a call whose write fails being the moment at which the library has kept
\* the write or not, and Close is the last of them (db.go:163-191).
ImplementsContract == Contract!Spec

-----------------------------------------------------------------------------
(* Liveness, under FairSpec.                                               *)

\* Every method returns, also those that Close overtakes.
CallsReturn == \A c \in Calls : (pc[c] = "lock") ~> (pc[c] = "done")

\* OpenWithOptions returns, on every path of the worker before its loop, also
\* when several run at once (db.go:120-155).
OpensReturn ==
    \A d \in DBs : (worker[d] = "lockThread") ~> (opened[d] # "none")
=============================================================================
