----------------------------- MODULE EmbeddedDB -----------------------------
(***************************************************************************)
(* The embedded driver (embedded/db.go): DB values opened in one process.  *)
(* Each has a worker goroutine, locked to an OS thread, that owns the C    *)
(* handle and runs the jobs that the methods of DB hand to it one at a     *)
(* time over an unbuffered channel, under a mutex.                         *)
(*                                                                         *)
(* libkoutendb is external: its calls may fail, a failure leaves a text    *)
(* that only the calling thread sees and that its next call overwrites, a  *)
(* returned buffer belongs to the caller (embedded/koutendb.h:113-135).    *)
(* It does not promise to roll back a put, update or remove that fails     *)
(* (embedded/koutendb.h:22-26).                                            *)
(* One record identity per DB stands for all of them: put stores it,       *)
(* remove deletes it.                                                      *)
(***************************************************************************)
EXTENDS Naturals

CONSTANTS DBs,      \* the DB values, and their worker goroutines
          Calls,    \* method calls, each made at most once
          Threads,  \* OS threads
          NoCall, NoDB

ASSUME EmbeddedAssumption == NoCall \notin Calls /\ NoDB \notin DBs

VARIABLES
    once,      \* runtimeOnce: "new", "running" kouten_init, "done"
    opened,    \* what OpenWithOptions has returned
    worker,    \* where the worker goroutine is
    thread,    \* the OS thread the worker runs on
    locked,    \* runtime.LockOSThread is in force
    job,       \* the call whose job the worker executes
    handle,    \* raw
    record,    \* whether the record exists in the handle's database
    buffers,   \* buffers obtained and not yet given to kouten_free
    errorText, \* per thread: the DB whose failure kouten_last_error tells of
    mu, closed,   \* DB.mu (TRUE while held) and DB.closed
    op, db, pc,   \* per call: the method, its receiver, where it is
    done,      \* the buffered channel of the call's job
    result     \* what the call returns

dbVars   == <<opened, worker, thread, locked, job, handle, record, buffers>>
callVars == <<op, db, pc, done, result>>
vars == <<once, dbVars, errorText, mu, closed, callVars>>

Checked == {"get", "query", "update", "remove"}   \* call kouten_exists first
Buffered == {"get", "query", "readRing"}          \* return a C buffer
Mutating == {"put", "update", "remove"}           \* write to the database
Ops == Checked \cup Buffered \cup {"put", "close"}

Move(d, p)    == worker' = [worker EXCEPT ![d] = p]
Advance(c, p) == pc' = [pc EXCEPT ![c] = p]

-----------------------------------------------------------------------------
(* OpenWithOptions and the start of the worker.                            *)

Open(d) ==
    /\ worker[d] = "new"
    /\ Move(d, "lockThread")
    /\ UNCHANGED <<once, opened, thread, locked, job, handle, record, buffers,
                   errorText, mu, closed, callVars>>

\* A thread that no goroutine is locked to.
FreeThread(t) == \A d \in DBs : ~(locked[d] /\ thread[d] = t)

\* The scheduler may run a goroutine that is not locked on any free thread.
Migrate(d) ==
    /\ worker[d] \notin {"new", "dead"}
    /\ ~locked[d]
    /\ \E t \in Threads : FreeThread(t) /\ thread' = [thread EXCEPT ![d] = t]
    /\ UNCHANGED <<once, opened, worker, locked, job, handle, record, buffers,
                   errorText, mu, closed, callVars>>

\* MUTANT of LockOSThread: the worker is not locked to its thread.
StayUnlocked(d) ==
    /\ worker[d] = "lockThread"
    /\ Move(d, "once")
    /\ UNCHANGED <<once, opened, thread, locked, job, handle, record, buffers,
                   errorText, mu, closed, callVars>>

LockOSThread(d) ==
    /\ worker[d] = "lockThread"
    /\ \E t \in Threads : FreeThread(t) /\ thread' = [thread EXCEPT ![d] = t]
    /\ locked' = [locked EXCEPT ![d] = TRUE]
    /\ Move(d, "once")
    /\ UNCHANGED <<once, opened, job, handle, record, buffers,
                   errorText, mu, closed, callVars>>

\* MUTANT of OnceDo: a flag instead of sync.Once does not wait for kouten_init.
OnceFlag(d) ==
    /\ worker[d] = "once"
    /\ \/ once = "new" /\ once' = "running" /\ Move(d, "init")
       \/ once # "new" /\ Move(d, "version") /\ UNCHANGED once
    /\ UNCHANGED <<opened, thread, locked, job, handle, record, buffers,
                   errorText, mu, closed, callVars>>

\* runtimeOnce.Do: the first worker runs kouten_init, the others wait for it.
OnceDo(d) ==
    /\ worker[d] = "once"
    /\ \/ once = "new" /\ once' = "running" /\ Move(d, "init")
       \/ once = "done" /\ Move(d, "version") /\ UNCHANGED once
    /\ UNCHANGED <<opened, thread, locked, job, handle, record, buffers,
                   errorText, mu, closed, callVars>>

InitDone(d) ==
    /\ worker[d] = "init"
    /\ once' = "done"
    /\ Move(d, "version")
    /\ UNCHANGED <<opened, thread, locked, job, handle, record, buffers,
                   errorText, mu, closed, callVars>>

\* MUTANT of GiveUp: a return without a send on ready.
GiveUpSilently(d, r) ==
    /\ locked' = [locked EXCEPT ![d] = FALSE]
    /\ Move(d, "dead")
    /\ UNCHANGED opened

\* The worker returns before it has a handle to serve.
GiveUp(d, r) ==
    /\ opened' = [opened EXCEPT ![d] = r]
    /\ locked' = [locked EXCEPT ![d] = FALSE]
    /\ Move(d, "dead")

\* An ABI call overwrites the error text of the thread it runs on.
ErrorText(d, failed) ==
    errorText' = [errorText EXCEPT ![thread[d]] = IF failed THEN d ELSE NoDB]

Version(d) ==
    /\ worker[d] = "version"
    /\ \/ Move(d, "open") /\ UNCHANGED <<opened, locked>>
       \/ GiveUp(d, "version")
    /\ UNCHANGED <<once, thread, job, handle, record, buffers, errorText, mu,
                   closed, callVars>>

\* kouten_open, or kouten_open_dir_options of a directory that may hold data.
OpenHandle(d) ==
    /\ worker[d] = "open"
    /\ \/ /\ handle' = [handle EXCEPT ![d] = "open"]
          /\ \E r \in BOOLEAN : record' = [record EXCEPT ![d] = r]
          /\ opened' = [opened EXCEPT ![d] = "ok"]
          /\ ErrorText(d, FALSE)
          /\ Move(d, "loop")
       \/ /\ ErrorText(d, TRUE)
          /\ Move(d, "openError")
          /\ UNCHANGED <<handle, record, opened>>
    /\ UNCHANGED <<once, thread, locked, job, buffers, mu, closed,
                   callVars>>

OpenFailed(d) ==
    /\ worker[d] = "openError"
    /\ GiveUp(d, "abi")
    /\ UNCHANGED <<once, thread, job, handle, record, buffers, errorText, mu,
                   closed, callVars>>

-----------------------------------------------------------------------------
(* The methods of DB, in the goroutines of their callers.                  *)

Invoke(c, o, d) ==
    /\ pc[c] = "idle"
    /\ opened[d] = "ok"
    /\ op' = [op EXCEPT ![c] = o]
    /\ db' = [db EXCEPT ![c] = d]
    /\ \/ /\ Advance(c, "lock")
          /\ UNCHANGED result
       \/ /\ o # "close"                      \* arguments are rejected
          /\ Advance(c, "done")
          /\ result' = [result EXCEPT ![c] = "input"]
    /\ UNCHANGED <<once, dbVars, errorText, mu, closed, done>>

\* mu.Lock and the check of closed.
Lock(c) ==
    /\ pc[c] = "lock"
    /\ ~mu[db[c]]
    /\ mu' = [mu EXCEPT ![db[c]] = TRUE]
    /\ \/ /\ closed[db[c]]
          /\ Advance(c, "unlock")
          /\ result' = [result EXCEPT ![c] =
                           IF op[c] = "close" THEN "ok" ELSE "closed"]
       \/ /\ ~closed[db[c]]
          /\ Advance(c, "send")
          /\ UNCHANGED result
    /\ UNCHANGED <<once, dbVars, errorText, closed, op, db, done>>

\* MUTANT of Job: kouten_exists is not asked.
JobUnchecked(c) == IF op[c] = "close" THEN "close" ELSE "act"

\* What the worker has to do first for c.
Job(c) == IF op[c] = "close" THEN "close"
          ELSE IF op[c] \in Checked THEN "exists" ELSE "act"

\* db.jobs <- job meets the worker's receive.
Send(c) ==
    /\ pc[c] = "send"
    /\ worker[db[c]] = "loop"
    /\ job' = [job EXCEPT ![db[c]] = c]
    /\ Move(db[c], Job(c))
    /\ Advance(c, "wait")
    /\ UNCHANGED <<once, opened, thread, locked, handle, record, buffers,
                   errorText, mu, closed, op, db, done, result>>

\* MUTANT of SetClosed: Close forgets the flag.
ForgetClosed(c) == UNCHANGED closed

SetClosed(c) == closed' = [closed EXCEPT ![db[c]] = @ \/ op[c] = "close"]

\* MUTANT of Receive: the call does not wait for its answer.
ReceiveEarly(c) ==
    /\ pc[c] = "wait"
    /\ result' =
          [result EXCEPT ![c] = IF done[c] = "empty" THEN "abi" ELSE done[c]]
    /\ done' = [done EXCEPT ![c] = "empty"]
    /\ SetClosed(c)
    /\ Advance(c, "unlock")
    /\ UNCHANGED <<once, dbVars, errorText, mu, op, db>>

\* <-done
Receive(c) ==
    /\ pc[c] = "wait"
    /\ done[c] # "empty"
    /\ done' = [done EXCEPT ![c] = "empty"]
    /\ result' = [result EXCEPT ![c] = done[c]]
    /\ SetClosed(c)
    /\ Advance(c, "unlock")
    /\ UNCHANGED <<once, dbVars, errorText, mu, op, db>>

Unlock(c) ==
    /\ pc[c] = "unlock"
    /\ mu' = [mu EXCEPT ![db[c]] = FALSE]
    /\ Advance(c, "done")
    /\ UNCHANGED <<once, dbVars, errorText, closed, op, db, done, result>>

-----------------------------------------------------------------------------
(* The jobs, on the worker.                                                *)

\* done <- r
Reply(d, r) ==
    /\ done' = [done EXCEPT ![job[d]] = r]
    /\ job' = [job EXCEPT ![d] = NoCall]

\* kouten_exists: 0, 1 or an error.
Exists(d) ==
    /\ worker[d] = "exists"
    /\ \/ /\ ~record[d]
          /\ Reply(d, IF op[job[d]] = "get" THEN "absent" ELSE "notFound")
          /\ ErrorText(d, FALSE)
          /\ Move(d, "loop")
       \/ /\ record[d]
          /\ ErrorText(d, FALSE)
          /\ Move(d, "act")
          /\ UNCHANGED <<done, job>>
       \/ /\ ErrorText(d, TRUE)
          /\ Move(d, "error")
          /\ UNCHANGED <<done, job>>
    /\ UNCHANGED <<once, opened, thread, locked, handle, record, buffers, mu,
                   closed, op, db, pc, result>>

\* kouten_put_vec_codec, get_codec, query, update_codec, remove and
\* read_ring_json.  One that fails to write may leave the record stored or not.
Act(d) ==
    /\ worker[d] = "act"
    /\ \/ /\ ErrorText(d, TRUE)
          /\ Move(d, "error")
          /\ \E r \in BOOLEAN :
                /\ op[job[d]] \notin Mutating => r = record[d]
                /\ record' = [record EXCEPT ![d] = r]
          /\ UNCHANGED <<buffers, done, job>>
       \/ /\ op[job[d]] \in Buffered
          /\ ErrorText(d, FALSE)
          /\ buffers' = [buffers EXCEPT ![d] = @ + 1]
          /\ Move(d, "buffer")
          /\ UNCHANGED <<record, done, job>>
       \/ /\ op[job[d]] \notin Buffered
          /\ ErrorText(d, FALSE)
          /\ record' = [record EXCEPT ![d] = op[job[d]] # "remove"]
          /\ Reply(d, "ok")
          /\ Move(d, "loop")
          /\ UNCHANGED buffers
    /\ UNCHANGED <<once, opened, thread, locked, handle, mu, closed, op, db, pc,
                   result>>

\* MUTANT of kouten_free: a second free.
FreeTwice(d) == buffers' = [buffers EXCEPT ![d] = @ - 2]

kouten_free(d) == buffers' = [buffers EXCEPT ![d] = @ - 1]

\* MUTANT of Refused: the defer of the free comes after the check of the size.
RefusedUnfreed(d) == UNCHANGED buffers /\ Reply(d, "abi")

\* The two returns of buffer, both after the deferred free: a result that is
\* too large, and a copy, of which Get still refuses an unknown codec and
\* ReadRing a text that is not JSON.
Refused(d) == kouten_free(d) /\ Reply(d, "abi")
Copied(d)  == kouten_free(d) /\ \E r \in {"ok", "abi"} : Reply(d, r)

Buffer(d) ==
    /\ worker[d] = "buffer"
    /\ Refused(d) \/ Copied(d)
    /\ ErrorText(d, FALSE)
    /\ Move(d, "loop")
    /\ UNCHANGED <<once, opened, thread, locked, handle, record, mu, closed, op,
                   db, pc, result>>

\* lastError: kouten_last_error, copied.
LastError(d) ==
    /\ worker[d] = "error"
    /\ Reply(d, "abi")
    /\ Move(d, "loop")
    /\ UNCHANGED <<once, opened, thread, locked, handle, record, buffers,
                   errorText, mu, closed, op, db, pc, result>>

\* kouten_close, the answer, and the end of the goroutine.
CloseHandle(d) ==
    /\ worker[d] = "close"
    /\ handle' = [handle EXCEPT ![d] = "closed"]
    /\ Move(d, "closeReply")
    /\ UNCHANGED <<once, opened, thread, locked, job, record, buffers,
                   errorText, mu, closed, callVars>>

Stop(d) ==
    /\ worker[d] = "closeReply"
    /\ Reply(d, "ok")
    /\ locked' = [locked EXCEPT ![d] = FALSE]
    /\ Move(d, "dead")
    /\ UNCHANGED <<once, opened, thread, handle, record, buffers, errorText,
                   mu, closed, op, db, pc, result>>

-----------------------------------------------------------------------------
Init ==
    /\ once = "new"
    /\ opened = [d \in DBs |-> "none"]
    /\ worker = [d \in DBs |-> "new"]
    /\ thread \in [DBs -> Threads]
    /\ locked = [d \in DBs |-> FALSE]
    /\ job = [d \in DBs |-> NoCall]
    /\ handle = [d \in DBs |-> "none"]
    /\ record = [d \in DBs |-> FALSE]
    /\ buffers = [d \in DBs |-> 0]
    /\ errorText = [t \in Threads |-> NoDB]
    /\ mu = [d \in DBs |-> FALSE]
    /\ closed = [d \in DBs |-> FALSE]
    /\ op = [c \in Calls |-> "none"]
    /\ db \in [Calls -> DBs]
    /\ pc = [c \in Calls |-> "idle"]
    /\ done = [c \in Calls |-> "empty"]
    /\ result = [c \in Calls |-> "none"]

Start(d) ==
    LockOSThread(d) \/ OnceDo(d) \/ InitDone(d) \/ Version(d) \/ OpenHandle(d)
            \/ OpenFailed(d)
Work(d) ==
    Exists(d) \/ Act(d) \/ Buffer(d) \/ LastError(d) \/ CloseHandle(d) \/ Stop(d)
Step(c)  == Lock(c) \/ Send(c) \/ Receive(c) \/ Unlock(c)

Next ==
    \/ \E d \in DBs : Open(d) \/ Migrate(d) \/ Start(d) \/ Work(d)
    \/ \E c \in Calls :
          \/ \E o \in Ops, d \in DBs : Invoke(c, o, d)
          \/ Step(c)

Spec == Init /\ [][Next]_vars

\* Goroutines that can go on are scheduled, and ABI calls return.
Fairness ==
    /\ \A d \in DBs : WF_vars(Start(d)) /\ WF_vars(Work(d))
    /\ \A c \in Calls : WF_vars(Step(c))

FairSpec == Spec /\ Fairness
=============================================================================
