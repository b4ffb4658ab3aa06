---------------------------- MODULE EmbeddedProofs ----------------------------
(***************************************************************************)
(* EmbeddedInv is an inductive invariant of EmbeddedDB, the properties of  *)
(* EmbeddedInvariants follow from it, and the driver implements its        *)
(* contract: for any number of DBs, calls and threads.                     *)
(***************************************************************************)
EXTENDS EmbeddedInvariants, TLAPS

\* Before the first open.
LEMMA EmbeddedInit == Init => EmbeddedInv
<1> SUFFICES ASSUME Init PROVE EmbeddedInv
  OBVIOUS
<1> USE EmbeddedAssumption DEF Init, Working, Starting, Serving, Workers,
        Holding, Ops, Checked, Buffered, Answers
<1>1. TypeOK
  BY DEF TypeOK
<1>2. InitBeforeCalls /\ ThreadInv /\ LifeInv /\ JobInv
  BY DEF InitBeforeCalls, ThreadInv, LifeInv, JobInv
<1>3. MutexInv /\ CallInv /\ IdleInv
  BY DEF MutexInv, CallInv, IdleInv
<1>4. ErrorFromOwnFailure /\ ActsOnExisting /\ BuffersFreed
  BY DEF ErrorFromOwnFailure, ActsOnExisting, BuffersFreed
<1> QED BY <1>1, <1>2, <1>3, <1>4 DEF EmbeddedInv

\* A worker is started (db.go:119-121).
LEMMA OpenStep ==
    ASSUME EmbeddedInv, NEW d \in DBs, Open(d)
    PROVE  EmbeddedInv'
<1> USE EmbeddedAssumption DEF EmbeddedInv, TypeOK, Open, Move, callVars,
        Working, Starting, Serving, Workers, Holding, Ops, Checked, Buffered,
        Answers
<1>1. TypeOK'
  OBVIOUS
<1>2. /\ InitBeforeCalls' /\ ThreadInv' /\ LifeInv'
      /\ ErrorFromOwnFailure' /\ BuffersFreed'
  BY DEF InitBeforeCalls, ThreadInv, LifeInv, ErrorFromOwnFailure, BuffersFreed
<1>3. JobInv' /\ MutexInv' /\ IdleInv' /\ ActsOnExisting'
  BY DEF JobInv, MutexInv, IdleInv, ActsOnExisting
<1>4. CallInv'
  BY DEF CallInv
<1> QED BY <1>1, <1>2, <1>3, <1>4

\* The scheduler moves a goroutine that is not locked to its thread.
LEMMA MigrateStep ==
    ASSUME EmbeddedInv, NEW d \in DBs, Migrate(d)
    PROVE  EmbeddedInv'
<1> USE EmbeddedAssumption DEF EmbeddedInv, TypeOK, Migrate, FreeThread,
        callVars, Working, Starting, Serving, Workers, Holding, Ops, Checked,
        Buffered, Answers
<1>1. TypeOK'
  OBVIOUS
<1>2. InitBeforeCalls' /\ ThreadInv' /\ LifeInv' /\ BuffersFreed'
  BY DEF InitBeforeCalls, ThreadInv, LifeInv, BuffersFreed
<1>3. JobInv' /\ MutexInv' /\ IdleInv' /\ ActsOnExisting'
  BY DEF JobInv, MutexInv, IdleInv, ActsOnExisting
<1>4. CallInv'
  BY DEF CallInv
<1>5. ErrorFromOwnFailure'
  BY DEF ErrorFromOwnFailure, ThreadInv
<1> QED BY <1>1, <1>2, <1>3, <1>4, <1>5

\* The worker gets a thread of its own (db.go:122-123).
LEMMA LockOSThreadStep ==
    ASSUME EmbeddedInv, NEW d \in DBs, LockOSThread(d)
    PROVE  EmbeddedInv'
<1> USE EmbeddedAssumption DEF EmbeddedInv, TypeOK, LockOSThread, Move,
        FreeThread, callVars, Working, Starting, Serving, Workers, Holding,
        Ops, Checked, Buffered, Answers
<1>1. TypeOK'
  OBVIOUS
<1>2. /\ InitBeforeCalls' /\ ThreadInv' /\ LifeInv'
      /\ ErrorFromOwnFailure' /\ BuffersFreed'
  BY DEF InitBeforeCalls, ThreadInv, LifeInv, ErrorFromOwnFailure, BuffersFreed
<1>3. JobInv' /\ MutexInv' /\ IdleInv' /\ ActsOnExisting'
  BY DEF JobInv, MutexInv, IdleInv, ActsOnExisting
<1>4. CallInv'
  BY DEF CallInv
<1> QED BY <1>1, <1>2, <1>3, <1>4

\* The first worker runs kouten_init, the others pass when it has (db.go:124).
LEMMA OnceDoStep ==
    ASSUME EmbeddedInv, NEW d \in DBs, OnceDo(d)
    PROVE  EmbeddedInv'
<1> USE EmbeddedAssumption DEF EmbeddedInv, TypeOK, OnceDo, Move, callVars,
        Working, Starting, Serving, Workers, Holding, Ops, Checked, Buffered,
        Answers
<1>1. TypeOK'
  OBVIOUS
<1>2. /\ InitBeforeCalls' /\ ThreadInv' /\ LifeInv'
      /\ ErrorFromOwnFailure' /\ BuffersFreed'
  BY DEF InitBeforeCalls, ThreadInv, LifeInv, ErrorFromOwnFailure, BuffersFreed
<1>3. JobInv' /\ MutexInv' /\ IdleInv' /\ ActsOnExisting'
  BY DEF JobInv, MutexInv, IdleInv, ActsOnExisting
<1>4. CallInv'
  BY DEF CallInv
<1> QED BY <1>1, <1>2, <1>3, <1>4

\* kouten_init has returned (db.go:124).
LEMMA InitDoneStep ==
    ASSUME EmbeddedInv, NEW d \in DBs, InitDone(d)
    PROVE  EmbeddedInv'
<1> USE EmbeddedAssumption DEF EmbeddedInv, TypeOK, InitDone, Move, callVars,
        Working, Starting, Serving, Workers, Holding, Ops, Checked, Buffered,
        Answers
<1>1. TypeOK'
  OBVIOUS
<1>2. /\ InitBeforeCalls' /\ ThreadInv' /\ LifeInv'
      /\ ErrorFromOwnFailure' /\ BuffersFreed'
  BY DEF InitBeforeCalls, ThreadInv, LifeInv, ErrorFromOwnFailure, BuffersFreed
<1>3. JobInv' /\ MutexInv' /\ IdleInv' /\ ActsOnExisting'
  BY DEF JobInv, MutexInv, IdleInv, ActsOnExisting
<1>4. CallInv'
  BY DEF CallInv
<1> QED BY <1>1, <1>2, <1>3, <1>4

\* The worker checks the version of the library (db.go:125-128).
LEMMA VersionStep ==
    ASSUME EmbeddedInv, NEW d \in DBs, Version(d)
    PROVE  EmbeddedInv'
<1> USE EmbeddedAssumption DEF EmbeddedInv, TypeOK, Version, Move, GiveUp,
        callVars, Working, Starting, Serving, Workers, Holding, Ops, Checked,
        Buffered, Answers
<1>1. TypeOK'
  <2>1. opened' \in [DBs -> {"none", "ok", "version", "abi"}]
    OBVIOUS
  <2>2. locked' \in [DBs -> BOOLEAN]
    OBVIOUS
  <2> QED BY <2>1, <2>2
<1>2. LifeInv'
  BY DEF LifeInv
<1>3. InitBeforeCalls' /\ ThreadInv' /\ ErrorFromOwnFailure' /\ BuffersFreed'
  BY DEF InitBeforeCalls, ThreadInv, ErrorFromOwnFailure, BuffersFreed
<1>4. JobInv' /\ MutexInv' /\ IdleInv' /\ ActsOnExisting'
  BY DEF JobInv, MutexInv, IdleInv, ActsOnExisting
<1>5. CallInv'
  BY DEF CallInv, LifeInv
<1> QED BY <1>1, <1>2, <1>3, <1>4, <1>5

\* The worker opens the handle, or fails on its own thread (db.go:129-141).
LEMMA OpenHandleStep ==
    ASSUME EmbeddedInv, NEW d \in DBs, OpenHandle(d)
    PROVE  EmbeddedInv'
<1> USE EmbeddedAssumption DEF EmbeddedInv, TypeOK, OpenHandle, Move,
        ErrorText, callVars, Working, Starting, Serving, Workers, Holding,
        Ops, Checked, Buffered, Answers
<1>1. TypeOK'
  OBVIOUS
<1>2. InitBeforeCalls' /\ BuffersFreed'
  BY DEF InitBeforeCalls, BuffersFreed
<1>3. JobInv' /\ MutexInv' /\ IdleInv'
  BY DEF JobInv, MutexInv, IdleInv
<1>4. CallInv'
  BY DEF CallInv
<1>5. ErrorFromOwnFailure'
  <2>1. /\ UNCHANGED thread
        /\ \A t \in Threads \ {thread[d]} : errorText'[t] = errorText[t]
    OBVIOUS
  <2>2. \A e \in DBs \ {d} : worker'[e] = worker[e]
    OBVIOUS
  <2>3. worker'[d] \in {"loop", "openError"}
    OBVIOUS
  <2>4. worker'[d] = "openError" => errorText'[thread[d]] = d
    OBVIOUS
  <2>5. \A e \in DBs \ {d} :
            worker[e] \in {"error", "openError"} => thread[e] # thread[d]
    BY DEF ThreadInv
  <2> QED
    BY <2>1, <2>2, <2>3, <2>4, <2>5 DEF ErrorFromOwnFailure
<1>6. ActsOnExisting'
  BY DEF ActsOnExisting, JobInv
<1>7. ThreadInv'
  BY DEF ThreadInv
<1>8. LifeInv'
  BY DEF LifeInv
<1> QED BY <1>1, <1>2, <1>3, <1>4, <1>5, <1>6, <1>7, <1>8

\* The worker reports the failed open and ends (db.go:137-140).
LEMMA OpenFailedStep ==
    ASSUME EmbeddedInv, NEW d \in DBs, OpenFailed(d)
    PROVE  EmbeddedInv'
<1> USE EmbeddedAssumption DEF EmbeddedInv, TypeOK, OpenFailed, GiveUp, Move,
        callVars, Working, Starting, Serving, Workers, Holding, Ops, Checked,
        Buffered, Answers
<1>1. TypeOK'
  OBVIOUS
<1>2. /\ InitBeforeCalls' /\ ThreadInv' /\ LifeInv'
      /\ ErrorFromOwnFailure' /\ BuffersFreed'
  BY DEF InitBeforeCalls, ThreadInv, LifeInv, ErrorFromOwnFailure, BuffersFreed
<1>3. JobInv' /\ MutexInv' /\ IdleInv' /\ ActsOnExisting'
  BY DEF JobInv, MutexInv, IdleInv, ActsOnExisting
<1>4. CallInv'
  BY DEF CallInv, LifeInv
<1> QED BY <1>1, <1>2, <1>3, <1>4

\* A method is entered on a DB that has been opened.
LEMMA InvokeStep ==
    ASSUME EmbeddedInv, NEW c \in Calls, NEW o \in Ops, NEW d \in DBs,
           Invoke(c, o, d)
    PROVE  EmbeddedInv'
<1> USE EmbeddedAssumption DEF EmbeddedInv, TypeOK, Invoke, Advance, dbVars,
        Working, Starting, Serving, Workers, Holding, Ops, Checked, Buffered,
        Answers
<1>1. TypeOK'
  OBVIOUS
<1>2. /\ InitBeforeCalls' /\ ThreadInv' /\ LifeInv'
      /\ ErrorFromOwnFailure' /\ BuffersFreed'
  BY DEF InitBeforeCalls, ThreadInv, LifeInv, ErrorFromOwnFailure, BuffersFreed
<1>3. JobInv'
  BY DEF JobInv
<1>7. MutexInv'
  <2>1. UNCHANGED mu
    OBVIOUS
  <2>2. \A e \in Calls : pc'[e] \in Holding => pc'[e] = pc[e] /\ db'[e] = db[e]
    OBVIOUS
  <2>3. \A e \in Calls : pc[e] \in Holding => pc'[e] = pc[e] /\ db'[e] = db[e]
    OBVIOUS
  <2> QED BY <2>1, <2>2, <2>3 DEF MutexInv
<1>6. IdleInv'
  <2>1. UNCHANGED <<opened, closed, worker>>
    OBVIOUS
  <2>2. \A e \in Calls : pc[e] = "wait" => pc'[e] = "wait" /\ db'[e] = db[e]
    OBVIOUS
  <2> QED BY <2>1, <2>2 DEF IdleInv
<1>4. CallInv'
  BY DEF CallInv
<1>5. ActsOnExisting'
  BY DEF ActsOnExisting, JobInv
<1> QED BY <1>1, <1>2, <1>3, <1>4, <1>5, <1>6, <1>7

\* The holder of DB.mu finds a worker that receives, or closed set
\* (db.go:167-171, 181-185).
LEMMA LockStep ==
    ASSUME EmbeddedInv, NEW c \in Calls, Lock(c)
    PROVE  EmbeddedInv'
<1> USE EmbeddedAssumption DEF EmbeddedInv, TypeOK, Lock, Advance, dbVars,
        Working, Starting, Serving, Workers, Holding, Ops, Checked, Buffered,
        Answers
<1>1. TypeOK'
  OBVIOUS
<1>2. /\ InitBeforeCalls' /\ ThreadInv' /\ LifeInv'
      /\ ErrorFromOwnFailure' /\ BuffersFreed'
  BY DEF InitBeforeCalls, ThreadInv, LifeInv, ErrorFromOwnFailure, BuffersFreed
<1>3. JobInv' /\ IdleInv' /\ ActsOnExisting'
  BY DEF JobInv, IdleInv, ActsOnExisting
<1>4. MutexInv'
  BY DEF MutexInv, CallInv
<1>5. CallInv'
  BY DEF CallInv, IdleInv, MutexInv, LifeInv
<1> QED BY <1>1, <1>2, <1>3, <1>4, <1>5

\* The worker takes the job of the call that holds DB.mu (db.go:173, 187).
LEMMA SendStep ==
    ASSUME EmbeddedInv, NEW c \in Calls, Send(c)
    PROVE  EmbeddedInv'
<1> USE EmbeddedAssumption DEF EmbeddedInv, TypeOK, Send, Move, Advance, Job,
        Working, Starting, Serving, Workers, Holding, Ops, Checked, Buffered,
        Answers
<1>1. TypeOK'
  OBVIOUS
<1>2. /\ InitBeforeCalls' /\ ThreadInv' /\ LifeInv'
      /\ ErrorFromOwnFailure' /\ BuffersFreed'
  BY DEF InitBeforeCalls, ThreadInv, LifeInv, ErrorFromOwnFailure, BuffersFreed
<1>3. MutexInv' /\ IdleInv' /\ ActsOnExisting'
  BY DEF MutexInv, IdleInv, ActsOnExisting
<1>4. JobInv'
  BY DEF JobInv, CallInv
<1>5. CallInv'
  BY DEF CallInv, MutexInv
<1> QED BY <1>1, <1>2, <1>3, <1>4, <1>5

\* The call takes its answer; after Close it marks the DB (db.go:174,
\* 188-189).
LEMMA ReceiveStep ==
    ASSUME EmbeddedInv, NEW c \in Calls, Receive(c)
    PROVE  EmbeddedInv'
<1> USE EmbeddedAssumption DEF EmbeddedInv, TypeOK, Receive, Advance,
        SetClosed, dbVars, Working, Starting, Serving, Workers, Holding, Ops,
        Checked, Buffered, Answers
<1>1. TypeOK'
  OBVIOUS
<1>2. InitBeforeCalls' /\ ThreadInv' /\ ErrorFromOwnFailure' /\ BuffersFreed'
  BY DEF InitBeforeCalls, ThreadInv, ErrorFromOwnFailure, BuffersFreed
<1>3. JobInv' /\ MutexInv' /\ ActsOnExisting'
  BY DEF JobInv, MutexInv, ActsOnExisting
<1>4. LifeInv'
  BY DEF LifeInv, CallInv
<1>5. CallInv'
  BY DEF CallInv, MutexInv
<1>6. IdleInv'
  BY DEF IdleInv, CallInv, MutexInv, LifeInv
<1> QED BY <1>1, <1>2, <1>3, <1>4, <1>5, <1>6

\* The deferred unlock (db.go:168, 182).
LEMMA UnlockStep ==
    ASSUME EmbeddedInv, NEW c \in Calls, Unlock(c)
    PROVE  EmbeddedInv'
<1> USE EmbeddedAssumption DEF EmbeddedInv, TypeOK, Unlock, Advance, dbVars,
        Working, Starting, Serving, Workers, Holding, Ops, Checked, Buffered,
        Answers
<1>1. TypeOK'
  OBVIOUS
<1>2. /\ InitBeforeCalls' /\ ThreadInv' /\ LifeInv'
      /\ ErrorFromOwnFailure' /\ BuffersFreed'
  BY DEF InitBeforeCalls, ThreadInv, LifeInv, ErrorFromOwnFailure, BuffersFreed
<1>3. JobInv' /\ MutexInv' /\ IdleInv' /\ ActsOnExisting'
  BY DEF JobInv, MutexInv, IdleInv, ActsOnExisting
<1>4. CallInv'
  BY DEF CallInv
<1> QED BY <1>1, <1>2, <1>3, <1>4

\* kouten_exists (db.go:232-238, 320-329).
LEMMA ExistsStep ==
    ASSUME EmbeddedInv, NEW d \in DBs, Exists(d)
    PROVE  EmbeddedInv'
<1> USE EmbeddedAssumption DEF EmbeddedInv, TypeOK, Exists, Move, ErrorText,
        Reply, Working, Starting, Serving, Workers, Holding, Ops, Checked,
        Buffered, Answers
<1>1. TypeOK'
  OBVIOUS
<1>2. InitBeforeCalls' /\ ThreadInv' /\ LifeInv' /\ BuffersFreed'
  BY DEF InitBeforeCalls, ThreadInv, LifeInv, BuffersFreed
<1>3. JobInv' /\ MutexInv' /\ IdleInv' /\ ActsOnExisting'
  BY DEF JobInv, MutexInv, IdleInv, ActsOnExisting
<1>4. CallInv'
  BY DEF CallInv, JobInv
<1>5. ErrorFromOwnFailure'
  BY DEF ErrorFromOwnFailure, ThreadInv
<1> QED BY <1>1, <1>2, <1>3, <1>4, <1>5

\* The operation on the record (db.go:213-318).
LEMMA ActStep ==
    ASSUME EmbeddedInv, NEW d \in DBs, Act(d)
    PROVE  EmbeddedInv'
<1> USE EmbeddedAssumption DEF EmbeddedInv, TypeOK, Act, Move, ErrorText,
        Reply, Working, Starting, Serving, Workers, Holding, Ops, Checked,
        Buffered, Answers
<1>1. TypeOK'
  <2>1. record' \in [DBs -> BOOLEAN]
    <3>1. /\ record \in [DBs -> BOOLEAN]
          /\ \/ UNCHANGED record
             \/ \E r \in BOOLEAN : record' = [record EXCEPT ![d] = r]
      OBVIOUS
    <3> HIDE DEF EmbeddedInv, TypeOK, Act, Move, ErrorText, Reply
    <3> QED BY <3>1
  <2>2. buffers' \in [DBs -> Nat]
    OBVIOUS
  <2>3. done' \in [Calls -> Answers] /\ job' \in [DBs -> Calls \cup {NoCall}]
    BY DEF JobInv
  <2>4. errorText' \in [Threads -> DBs \cup {NoDB}]
    OBVIOUS
  <2> QED BY <2>1, <2>2, <2>3, <2>4
<1>2. InitBeforeCalls' /\ ThreadInv' /\ LifeInv' /\ BuffersFreed'
  BY DEF InitBeforeCalls, ThreadInv, LifeInv, BuffersFreed
<1>3. JobInv' /\ MutexInv' /\ IdleInv'
  BY DEF JobInv, MutexInv, IdleInv
<1>4. ActsOnExisting'
  BY DEF ActsOnExisting
<1>5. CallInv'
  BY DEF CallInv, JobInv
<1>6. ErrorFromOwnFailure'
  <2>1. /\ UNCHANGED thread
        /\ \A t \in Threads \ {thread[d]} : errorText'[t] = errorText[t]
    OBVIOUS
  <2>2. \A e \in DBs \ {d} : worker'[e] = worker[e]
    OBVIOUS
  <2>3. worker'[d] \in {"error", "buffer", "loop"}
    OBVIOUS
  <2>4. worker'[d] = "error" => errorText'[thread[d]] = d
    OBVIOUS
  <2>5. \A e \in DBs \ {d} :
            worker[e] \in {"error", "openError"} => thread[e] # thread[d]
    BY DEF ThreadInv
  <2> HIDE DEF Act, Move, ErrorText, Reply
  <2> QED
    BY <2>1, <2>2, <2>3, <2>4, <2>5 DEF ErrorFromOwnFailure
<1> QED BY <1>1, <1>2, <1>3, <1>4, <1>5, <1>6

\* The buffer is copied and freed (db.go:76-85).
LEMMA BufferStep ==
    ASSUME EmbeddedInv, NEW d \in DBs, Buffer(d)
    PROVE  EmbeddedInv'
<1> USE EmbeddedAssumption DEF EmbeddedInv, TypeOK, Buffer, Refused, Copied,
        Move, ErrorText, Reply, kouten_free, Working, Starting, Serving, Workers, Holding, Ops,
        Checked, Buffered, Answers
<1>1. TypeOK'
  <2>1. buffers' \in [DBs -> Nat]
    BY DEF BuffersFreed
  <2>2. done' \in [Calls -> Answers] /\ job' \in [DBs -> Calls \cup {NoCall}]
    <3>1. job[d] \in Calls
      BY DEF JobInv
    <3>2. PICK r \in {"ok", "abi"} : Reply(d, r)
      OBVIOUS
    <3> QED BY <3>1, <3>2
  <2>3. errorText' \in [Threads -> DBs \cup {NoDB}]
    OBVIOUS
  <2> QED BY <2>1, <2>2, <2>3
<1>2. InitBeforeCalls' /\ ThreadInv' /\ LifeInv' /\ BuffersFreed'
  BY DEF InitBeforeCalls, ThreadInv, LifeInv, BuffersFreed
<1>3. JobInv' /\ MutexInv' /\ IdleInv' /\ ActsOnExisting'
  BY DEF JobInv, MutexInv, IdleInv, ActsOnExisting
<1>4. CallInv'
  BY DEF CallInv, JobInv
<1>5. ErrorFromOwnFailure'
  <2>1. /\ UNCHANGED thread
        /\ \A t \in Threads \ {thread[d]} : errorText'[t] = errorText[t]
    OBVIOUS
  <2>2. \A e \in DBs \ {d} : worker'[e] = worker[e]
    OBVIOUS
  <2>3. worker'[d] \in {"loop"}
    OBVIOUS
  <2>5. \A e \in DBs \ {d} :
            worker[e] \in {"error", "openError"} => thread[e] # thread[d]
    BY DEF ThreadInv
  <2> HIDE DEF Buffer, Refused, Copied, Move, ErrorText, Reply
  <2> QED
    BY <2>1, <2>2, <2>3, <2>5 DEF ErrorFromOwnFailure
<1> QED BY <1>1, <1>2, <1>3, <1>4, <1>5

\* The error text is read on the thread of its failure (db.go:71-75).
LEMMA LastErrorStep ==
    ASSUME EmbeddedInv, NEW d \in DBs, LastError(d)
    PROVE  EmbeddedInv'
<1> USE EmbeddedAssumption DEF EmbeddedInv, TypeOK, LastError, Move, Reply,
        Working, Starting, Serving, Workers, Holding, Ops, Checked, Buffered,
        Answers
<1>1. TypeOK'
  BY DEF JobInv
<1>2. /\ InitBeforeCalls' /\ ThreadInv' /\ LifeInv'
      /\ ErrorFromOwnFailure' /\ BuffersFreed'
  BY DEF InitBeforeCalls, ThreadInv, LifeInv, ErrorFromOwnFailure, BuffersFreed
<1>3. JobInv' /\ MutexInv' /\ IdleInv' /\ ActsOnExisting'
  BY DEF JobInv, MutexInv, IdleInv, ActsOnExisting
<1>4. CallInv'
  BY DEF CallInv, JobInv
<1> QED BY <1>1, <1>2, <1>3, <1>4

\* kouten_close (db.go:143-144).
LEMMA CloseHandleStep ==
    ASSUME EmbeddedInv, NEW d \in DBs, CloseHandle(d)
    PROVE  EmbeddedInv'
<1> USE EmbeddedAssumption DEF EmbeddedInv, TypeOK, CloseHandle, Move,
        callVars, Working, Starting, Serving, Workers, Holding, Ops, Checked,
        Buffered, Answers
<1>1. TypeOK'
  OBVIOUS
<1>2. /\ InitBeforeCalls' /\ ThreadInv' /\ LifeInv'
      /\ ErrorFromOwnFailure' /\ BuffersFreed'
  BY DEF InitBeforeCalls, ThreadInv, LifeInv, ErrorFromOwnFailure, BuffersFreed
<1>3. JobInv' /\ MutexInv' /\ IdleInv' /\ ActsOnExisting'
  BY DEF JobInv, MutexInv, IdleInv, ActsOnExisting
<1>4. CallInv'
  BY DEF CallInv
<1> QED BY <1>1, <1>2, <1>3, <1>4

\* The worker answers Close and ends (db.go:145-146).
LEMMA StopStep ==
    ASSUME EmbeddedInv, NEW d \in DBs, Stop(d)
    PROVE  EmbeddedInv'
<1> USE EmbeddedAssumption DEF EmbeddedInv, TypeOK, Stop, Move, Reply,
        Working, Starting, Serving, Workers, Holding, Ops, Checked, Buffered,
        Answers
<1>1. TypeOK'
  BY DEF JobInv
<1>2. /\ InitBeforeCalls' /\ ThreadInv' /\ LifeInv'
      /\ ErrorFromOwnFailure' /\ BuffersFreed'
  BY DEF InitBeforeCalls, ThreadInv, LifeInv, ErrorFromOwnFailure, BuffersFreed
<1>3. JobInv' /\ MutexInv' /\ IdleInv' /\ ActsOnExisting'
  BY DEF JobInv, MutexInv, IdleInv, ActsOnExisting
<1>4. CallInv'
  BY DEF CallInv, JobInv
<1> QED BY <1>1, <1>2, <1>3, <1>4

\* Nothing happens.
LEMMA EmbeddedStutter ==
    ASSUME EmbeddedInv, UNCHANGED vars
    PROVE  EmbeddedInv'
<1> USE DEF vars, dbVars, callVars
<1>1. TypeOK' /\ InitBeforeCalls' /\ ThreadInv' /\ LifeInv'
  BY DEF EmbeddedInv, TypeOK, InitBeforeCalls, ThreadInv, LifeInv
<1>2. JobInv' /\ MutexInv' /\ CallInv' /\ IdleInv'
  BY DEF EmbeddedInv, JobInv, MutexInv, CallInv, IdleInv
<1>3. ErrorFromOwnFailure' /\ ActsOnExisting' /\ BuffersFreed'
  BY DEF EmbeddedInv, ErrorFromOwnFailure, ActsOnExisting, BuffersFreed
<1> QED BY <1>1, <1>2, <1>3 DEF EmbeddedInv

\* Every step of a worker or a caller preserves the invariant.
THEOREM EmbeddedInductive == EmbeddedInv /\ [Next]_vars => EmbeddedInv'
<1> SUFFICES ASSUME EmbeddedInv, [Next]_vars PROVE EmbeddedInv'
  OBVIOUS
<1>1. ASSUME NEW d \in DBs, Open(d) \/ Migrate(d) \/ Start(d) PROVE EmbeddedInv'
  BY <1>1, OpenStep, MigrateStep, LockOSThreadStep, OnceDoStep, InitDoneStep,
     VersionStep, OpenHandleStep, OpenFailedStep DEF Start
<1>2. ASSUME NEW d \in DBs, Work(d) PROVE EmbeddedInv'
  BY <1>2, ExistsStep, ActStep, BufferStep, LastErrorStep, CloseHandleStep,
     StopStep DEF Work
<1>3. ASSUME NEW c \in Calls, Step(c) PROVE EmbeddedInv'
  BY <1>3, LockStep, SendStep, ReceiveStep, UnlockStep DEF Step
<1> QED BY <1>1, <1>2, <1>3, InvokeStep, EmbeddedStutter DEF Next

\* The invariant holds in every reachable state.
THEOREM EmbeddedInvariant == Spec => []EmbeddedInv
BY EmbeddedInit, EmbeddedInductive, PTL DEF Spec

\* The state of workers, callers, threads and buffers keeps its types; the
\* library is never given more buffers back than it has handed out.
THEOREM TypesKept == Spec => []TypeOK
<1>1. EmbeddedInv => TypeOK
  BY DEF EmbeddedInv
<1> QED BY <1>1, EmbeddedInvariant, PTL

\* No library call before kouten_init is complete (db.go:124,
\* koutendb.h:76, 118).
THEOREM InitComesFirst == Spec => []InitBeforeCalls
<1>1. EmbeddedInv => InitBeforeCalls
  BY DEF EmbeddedInv
<1> QED BY <1>1, EmbeddedInvariant, PTL

\* A handle is used by one job of a waiting call, before kouten_close
\* (db.go:142-150, koutendb.h:121-124).
THEOREM HandleUsedProperly == Spec => []HandleUse
<1>1. EmbeddedInv => HandleUse
  BY DEF EmbeddedInv, HandleUse, LifeInv, JobInv, Serving, Working
<1> QED BY <1>1, EmbeddedInvariant, PTL

\* No call blocks on the channels of a worker that has left (db.go:163-191).
THEOREM NoCallStranded == Spec => []NobodyStranded
<1>1. EmbeddedInv => NobodyStranded
  BY DEF EmbeddedInv, TypeOK, NobodyStranded, LifeInv, CallInv
<1> QED BY <1>1, EmbeddedInvariant, PTL

\* lastError reads the text of the failure it reports (db.go:71-75, 122).
THEOREM ErrorsAreOwn == Spec => []ErrorFromOwnFailure
<1>1. EmbeddedInv => ErrorFromOwnFailure
  BY DEF EmbeddedInv
<1> QED BY <1>1, EmbeddedInvariant, PTL

\* A record that kouten_exists has found is still there for the operation
\* (db.go:232-241, 274-280, 294-297, 309-312).
THEOREM RecordStillExists == Spec => []ActsOnExisting
<1>1. EmbeddedInv => ActsOnExisting
  BY DEF EmbeddedInv
<1> QED BY <1>1, EmbeddedInvariant, PTL

\* Every C buffer is freed once (db.go:76-85).
THEOREM EveryBufferFreed == Spec => []BuffersFreed
<1>1. EmbeddedInv => BuffersFreed
  BY DEF EmbeddedInv
<1> QED BY <1>1, EmbeddedInvariant, PTL

-----------------------------------------------------------------------------
(* The contract.                                                           *)

\* Fresh DBs are fresh contracts.
LEMMA ContractInit == Init => Contract!Init
BY DEF Init, Contract!Init, State, Phase, Outcome, Failing

\* A step that neither the callers nor the database can see.
LEMMA Unseen ==
    ASSUME UNCHANGED <<record, op, db>>,
           \A d \in DBs : State(d)' = State(d),
           \A c \in Calls : Phase(c)' = Phase(c) /\ Outcome(c)' = Outcome(c)
    PROVE  UNCHANGED Contract!vars
BY DEF Contract!vars

\* A call whose library call has failed waits for the worker to say so.
LEMMA FailingWaits ==
    ASSUME EmbeddedInv, NEW c \in Calls, Failing(c)
    PROVE  pc[c] = "wait" /\ done[c] = "empty"
BY DEF EmbeddedInv, TypeOK, JobInv, Failing, Working

\* The worker answers the one call that waits for it, unless its failure has
\* answered it already.
LEMMA JobIsRunning ==
    ASSUME EmbeddedInv, NEW d \in DBs, worker[d] \in Working
    PROVE  /\ job[d] \in Calls /\ db[job[d]] = d
           /\ worker[d] # "error" => Phase(job[d]) = "running"
           /\ State(d) = "open"
BY DEF EmbeddedInv, TypeOK, JobInv, LifeInv, CallInv, Phase, Outcome, Failing,
       State, Serving, Working

\* A step of one worker fails no call but the one whose job it has.
LEMMA OthersFail ==
    ASSUME EmbeddedInv, NEW d \in DBs, worker[d] \in Working, NEW p, Move(d, p),
           UNCHANGED db, UNCHANGED job \/ job' = [job EXCEPT ![d] = NoCall],
           NEW e \in Calls \ {job[d]}
    PROVE  Failing(e)' = Failing(e)
<1>1. CASE db[e] = d
  <2>1. ~Failing(e)
    BY <1>1 DEF Failing
  <2>2. job'[d] # e
    BY EmbeddedAssumption DEF EmbeddedInv, TypeOK
  <2> QED BY <1>1, <2>1, <2>2 DEF Failing
<1>2. CASE db[e] # d
  <2>1. worker'[db[e]] = worker[db[e]] /\ job'[db[e]] = job[db[e]]
    BY <1>2 DEF EmbeddedInv, TypeOK, Move
  <2> QED BY <2>1 DEF Failing
<1> QED BY <1>1, <1>2

\* An answer r to c, seen by nobody else.
LEMMA Answered ==
    ASSUME EmbeddedInv, NEW c \in Calls, NEW r, r # "none",
           Phase(c) = "running", Phase(c)' = "answered", Outcome(c)' = r,
           UNCHANGED <<op, db>>,
           \A e \in Calls \ {c} :
               Phase(e)' = Phase(e) /\ Outcome(e)' = Outcome(e)
    PROVE  Contract!Answer(c, r)
BY DEF Contract!Answer

\* The steps before the loop of the worker, and a DB that opens.
LEMMA OpeningRefines ==
    ASSUME EmbeddedInv, NEW d \in DBs, Open(d) \/ Migrate(d) \/ Start(d)
    PROVE  [Contract!Next]_Contract!vars
<1>0. UNCHANGED callVars /\ \A e \in Calls : Failing(e)' = Failing(e)
  <2>1. UNCHANGED <<callVars, job>>
    BY DEF Open, Migrate, Start, LockOSThread, OnceDo, InitDone, Version,
       OpenHandle, OpenFailed
  <2>2. UNCHANGED worker \/ \E p \in (Starting \cup {"loop", "dead"}) : Move(d, p)
    BY DEF Open, Migrate, Start, LockOSThread, OnceDo, InitDone, Version,
       OpenHandle, OpenFailed, GiveUp, Starting
  <2>3. UNCHANGED worker \/ worker[d] # "error"
    BY DEF Open, Migrate, Start, LockOSThread, OnceDo, InitDone, Version,
       OpenHandle, OpenFailed
  <2> QED BY <2>1, <2>2, <2>3 DEF Failing, Move, Starting, callVars, EmbeddedInv,
             TypeOK
<1>9. \A e \in Calls : Phase(e)' = Phase(e) /\ Outcome(e)' = Outcome(e)
  BY <1>0 DEF callVars, Phase, Outcome
<1>1. CASE OpenHandle(d) /\ opened'[d] = "ok"
  <2>1. State(d) = "unopened" /\ State(d)' = "open"
    BY <1>1 DEF OpenHandle, State, EmbeddedInv, TypeOK, LifeInv, Starting, Move
  <2>2. \A e \in DBs \ {d} : State(e)' = State(e)
    <3>1. \A e \in DBs \ {d} :
              opened'[e] = opened[e] /\ worker'[e] = worker[e]
      BY <1>1 DEF OpenHandle, EmbeddedInv, TypeOK, Move
    <3> QED BY <3>1 DEF State
  <2>3. \E r \in BOOLEAN : record' = [record EXCEPT ![d] = r]
    BY <1>1 DEF OpenHandle, EmbeddedInv, TypeOK, LifeInv, Starting
  <2>4. Contract!Open(d)
    BY <1>0, <1>9, <2>1, <2>2, <2>3 DEF Contract!Open, callVars
  <2> QED BY <2>4 DEF Contract!Next
<1>2. CASE Migrate(d)
  BY <1>2, <1>9, Unseen DEF Migrate, State, callVars
<1>3. CASE \/ Open(d) \/ LockOSThread(d) \/ OnceDo(d) \/ InitDone(d)
           \/ Version(d) \/ OpenFailed(d)
           \/ OpenHandle(d) /\ opened'[d] # "ok"
  <2>1. opened[d] = "none" /\ opened'[d] # "ok"
    BY <1>3 DEF Open, LockOSThread, OnceDo, InitDone, Version, OpenHandle,
       OpenFailed, GiveUp, Move, EmbeddedInv, TypeOK, LifeInv, Starting
  <2>2. \A e \in DBs \ {d} : opened'[e] = opened[e] /\ worker'[e] = worker[e]
    <3> USE DEF Move, EmbeddedInv, TypeOK
    <3>1. CASE Open(d) \/ LockOSThread(d)
      BY <3>1 DEF Open, LockOSThread
    <3>2. CASE OnceDo(d) \/ InitDone(d)
      BY <3>2 DEF OnceDo, InitDone
    <3>3. CASE Version(d)
      BY <3>3 DEF Version, GiveUp
    <3>4. CASE OpenFailed(d)
      BY <3>4 DEF OpenFailed, GiveUp
    <3>5. CASE OpenHandle(d)
      BY <3>5 DEF OpenHandle
    <3> QED BY <1>3, <3>1, <3>2, <3>3, <3>4, <3>5
  <2>3. \A e \in DBs : State(e)' = State(e)
    BY <2>1, <2>2 DEF State
  <2>4. UNCHANGED record
    BY <1>3 DEF Open, LockOSThread, OnceDo, InitDone, Version, OpenHandle,
       OpenFailed, EmbeddedInv, TypeOK
  <2> QED BY <1>0, <1>9, <2>3, <2>4, Unseen DEF callVars
<1> QED BY <1>1, <1>2, <1>3 DEF Start

\* A call is entered, or turned away for its arguments.
LEMMA InvokeRefines ==
    ASSUME EmbeddedInv, NEW c \in Calls, NEW o \in Ops, NEW d \in DBs,
           Invoke(c, o, d)
    PROVE  Contract!Next
<1>1. State(d) # "unopened"
  BY DEF Invoke, State
<1>2. Phase(c) = "new" /\ Outcome(c) = "none"
  BY FailingWaits DEF EmbeddedInv, CallInv, Invoke, Phase, Outcome
<1>7. /\ ~Failing(c)'
      /\ \A e \in Calls \ {c} : Failing(e)' = Failing(e)
  BY DEF EmbeddedInv, TypeOK, JobInv, Invoke, dbVars, Failing, Working
<1>3. /\ UNCHANGED record
      /\ op' = [op EXCEPT ![c] = o]
      /\ db' = [db EXCEPT ![c] = d]
      /\ \A e \in DBs : State(e)' = State(e)
      /\ \A e \in Calls \ {c} : Phase(e)' = Phase(e) /\ Outcome(e)' = Outcome(e)
  BY <1>7 DEF EmbeddedInv, TypeOK, Invoke, dbVars, State, Phase, Outcome,
     Advance
<1>4. o \in Contract!Methods
  BY DEF Contract!Methods, Ops, Checked, Buffered
<1>5. CASE Advance(c, "lock") /\ UNCHANGED result
  <2>1. Phase(c)' = "running" /\ Outcome(c)' = "none"
    BY <1>5, <1>7 DEF EmbeddedInv, TypeOK, CallInv, Invoke, Phase, Outcome,
       Advance
  <2>2. Contract!Start(c, o, d)
    BY <1>1, <1>2, <1>3, <2>1 DEF Contract!Start, Contract!Begin
  <2> QED BY <1>4, <2>2 DEF Contract!Next
<1>6. CASE /\ o # "close"
           /\ Advance(c, "done")
           /\ result' = [result EXCEPT ![c] = "input"]
  <2>1. Phase(c)' = "returned" /\ Outcome(c)' = "input"
    BY <1>6, <1>7 DEF EmbeddedInv, TypeOK, CallInv, Invoke, Phase, Outcome,
       Advance
  <2>2. Contract!Reject(c, o, d)
    BY <1>1, <1>2, <1>3, <1>6, <2>1 DEF Contract!Reject, Contract!Begin
  <2> QED BY <1>4, <2>2 DEF Contract!Next
<1> QED BY <1>5, <1>6 DEF Invoke

\* DB.mu, the channels, and calls that come too late.
LEMMA CallerRefines ==
    ASSUME EmbeddedInv, NEW c \in Calls, Step(c)
    PROVE  [Contract!Next]_Contract!vars
<1>0. \A e \in Calls : Failing(e)' = Failing(e)
  <2>1. CASE Send(c)
    <3>1. job' = [job EXCEPT ![db[c]] = c] /\ UNCHANGED db
      BY <2>1 DEF Send
    <3>2. worker[db[c]] # "error" /\ worker'[db[c]] # "error"
      BY <2>1 DEF Send, Move, Job, EmbeddedInv, TypeOK
    <3>3. \A x \in DBs \ {db[c]} : worker'[x] = worker[x] /\ job'[x] = job[x]
      BY <2>1, <3>1 DEF Send, Move, EmbeddedInv, TypeOK
    <3> QED BY <3>1, <3>2, <3>3 DEF Failing, EmbeddedInv, TypeOK
  <2>2. CASE Lock(c) \/ Receive(c) \/ Unlock(c)
    BY <2>2 DEF Lock, Receive, Unlock, Failing, dbVars
  <2> QED BY <2>1, <2>2 DEF Step
<1>1. CASE Lock(c) /\ closed[db[c]]
  <2>1. db[c] \in DBs /\ State(db[c]) = "shut"
    BY <1>1 DEF EmbeddedInv, TypeOK, CallInv, State, LifeInv
  <2>2. UNCHANGED <<record, op, db>> /\ \A e \in DBs : State(e)' = State(e)
    BY <1>1 DEF EmbeddedInv, TypeOK, CallInv, Lock, State, dbVars
  <2>3. Phase(c) = "running" /\ Phase(c)' = "answered"
    BY <1>0, <1>1, FailingWaits DEF EmbeddedInv, TypeOK, CallInv, Lock, Phase,
       Outcome, Advance
  <2>4. Outcome(c)' = IF op[c] = "close" THEN "ok" ELSE "closed"
    BY <1>0, <1>1, FailingWaits DEF EmbeddedInv, TypeOK, CallInv, Lock, Outcome
  <2>5. \A e \in Calls \ {c} : Phase(e)' = Phase(e) /\ Outcome(e)' = Outcome(e)
    BY <1>0, <1>1 DEF EmbeddedInv, TypeOK, CallInv, Lock, Phase, Outcome,
       Advance
  <2>6. Contract!Answer(c, IF op[c] = "close" THEN "ok" ELSE "closed")
    BY <2>2, <2>3, <2>4, <2>5, Answered
  <2>7. Contract!TooLate(c)
    BY <2>1, <2>2, <2>6 DEF Contract!TooLate
  <2> QED BY <2>7 DEF Contract!Next
<1>2. CASE Lock(c) /\ ~closed[db[c]]
  BY <1>0, <1>2, FailingWaits, Unseen DEF EmbeddedInv, TypeOK, CallInv, Lock,
     State, Phase, Outcome, Advance, dbVars
<1>3. CASE Send(c)
  <2>1. \A e \in DBs : State(e)' = State(e)
    BY <1>3 DEF EmbeddedInv, TypeOK, CallInv, Send, State, Move, Job, Ops
  <2>2. \A e \in Calls : Phase(e)' = Phase(e) /\ Outcome(e)' = Outcome(e)
    BY <1>0, <1>3 DEF EmbeddedInv, TypeOK, CallInv, Send, Phase, Outcome, Advance
  <2> QED BY <1>3, <2>1, <2>2, Unseen DEF EmbeddedInv, TypeOK, CallInv, Send
<1>4. CASE Receive(c)
  <2>1. \A e \in Calls : Phase(e)' = Phase(e) /\ Outcome(e)' = Outcome(e)
    BY <1>0, <1>4, FailingWaits DEF EmbeddedInv, TypeOK, CallInv, Receive, Phase,
       Outcome, Advance, Answers
  <2> QED
    BY <1>4, <2>1, Unseen DEF EmbeddedInv, TypeOK, CallInv, Receive, State,
       dbVars
<1>5. CASE Unlock(c)
  <2>1. Phase(c) = "answered" /\ Phase(c)' = "returned"
    BY <1>5, FailingWaits DEF EmbeddedInv, TypeOK, CallInv, Unlock, Phase,
       Outcome, Advance
  <2>2. /\ UNCHANGED <<record, op, db>>
        /\ \A e \in DBs : State(e)' = State(e)
        /\ \A e \in Calls : Outcome(e)' = Outcome(e)
        /\ \A e \in Calls \ {c} : Phase(e)' = Phase(e)
    BY <1>0, <1>5 DEF EmbeddedInv, TypeOK, CallInv, Unlock, State, Phase,
       Outcome, Advance, dbVars
  <2>3. Contract!Return(c)
    BY <2>1, <2>2 DEF Contract!Return
  <2> QED BY <2>3 DEF Contract!Next
<1> QED BY <1>1, <1>2, <1>3, <1>4, <1>5 DEF Step

\* An answer of the worker is one to the call whose job it has, and moves
\* nobody else.
LEMMA ReplyAnswers ==
    ASSUME EmbeddedInv, NEW d \in DBs, worker[d] \in Working \ {"error"},
           NEW p, Move(d, p), NEW r \in Answers \ {"empty"}, Reply(d, r),
           UNCHANGED <<op, db, pc, result>>
    PROVE  Contract!Answer(job[d], r)
<1>1. PICK c \in Calls :
          /\ c = job[d]
          /\ Phase(c) = "running"
          /\ pc[c] = "wait"
          /\ done[c] = "empty"
  BY JobIsRunning DEF EmbeddedInv, JobInv
<1>2. done' = [done EXCEPT ![c] = r] /\ job' = [job EXCEPT ![d] = NoCall]
  BY <1>1 DEF Reply
<1>3. Phase(c)' = "answered" /\ Outcome(c)' = r
  BY <1>1, <1>2 DEF EmbeddedInv, TypeOK, Phase, Outcome, Answers
<1>4. \A e \in Calls \ {c} : Phase(e)' = Phase(e) /\ Outcome(e)' = Outcome(e)
  <2>1. \A e \in Calls \ {c} : Failing(e)' = Failing(e)
    BY <1>1, <1>2, OthersFail
  <2> QED BY <1>1, <1>2, <2>1 DEF EmbeddedInv, TypeOK, Phase, Outcome
<1>5. r # "none"
  BY DEF Answers
<1>6. Contract!Answer(c, r)
  BY <1>1, <1>3, <1>4, <1>5, Answered
<1> QED BY <1>1, <1>6

\* A library call that fails answers the call whose job it belongs to, at once.
LEMMA FailureAnswers ==
    ASSUME EmbeddedInv, NEW d \in DBs, worker[d] \in Working \ {"error"},
           Move(d, "error"), UNCHANGED <<op, db, pc, result, done, job>>
    PROVE  Contract!Answer(job[d], "abi")
<1>1. PICK c \in Calls :
          /\ c = job[d]
          /\ db[c] = d
          /\ Phase(c) = "running"
          /\ pc[c] = "wait"
          /\ done[c] = "empty"
  BY JobIsRunning DEF EmbeddedInv, JobInv
<1>2. Failing(c)'
  BY <1>1 DEF Failing, Move, EmbeddedInv, TypeOK
<1>3. Phase(c)' = "answered" /\ Outcome(c)' = "abi"
  BY <1>1, <1>2 DEF Phase, Outcome
<1>4. \A e \in Calls \ {c} : Phase(e)' = Phase(e) /\ Outcome(e)' = Outcome(e)
  BY <1>1, OthersFail DEF Phase, Outcome
<1>5. Contract!Answer(c, "abi")
  BY <1>1, <1>3, <1>4, Answered
<1> QED BY <1>1, <1>5

\* The worker's jobs.
LEMMA WorkRefines ==
    ASSUME EmbeddedInv, NEW d \in DBs, Work(d)
    PROVE  [Contract!Next]_Contract!vars
<1> DEFINE c == job[d]
<1>1. worker[d] \in Working /\ UNCHANGED <<opened, op, db, pc, result>>
  BY DEF Work, Exists, Act, Buffer, LastError, CloseHandle, Stop, Working, callVars
<1>2. c \in Calls /\ db[c] = d /\ State(d) = "open"
  BY <1>1, JobIsRunning
<1>3. ASSUME worker[d] # "error", NEW p, Move(d, p),
             NEW r \in Answers \ {"empty"}, Reply(d, r)
      PROVE  Contract!Answer(c, r)
  BY <1>1, <1>3, ReplyAnswers
<1>4. ASSUME NEW p \in Working \cup {"loop"}, Move(d, p)
      PROVE  \A e \in DBs : State(e)' = State(e)
  BY <1>1, <1>4 DEF State, Move, EmbeddedInv, TypeOK, LifeInv, Serving, Working
<1>5. ASSUME worker[d] # "error", NEW p \in Working \ {"error"}, Move(d, p),
             UNCHANGED <<record, done, job>>
      PROVE  UNCHANGED Contract!vars
  <2>1. \A e \in Calls : Failing(e)' = Failing(e)
    BY <1>1, <1>2, <1>5, OthersFail DEF Failing, Move, EmbeddedInv, TypeOK
  <2> QED BY <1>1, <1>4, <1>5, <2>1, Unseen DEF Phase, Outcome
<1>6. ASSUME \A e \in DBs : State(e)' = State(e), op[c] # "close",
             Contract!Answer(c, "abi"),
             \E r \in BOOLEAN : /\ op[c] \notin Mutating => r = record[d]
                                /\ record' = [record EXCEPT ![d] = r]
      PROVE  Contract!Next
  <2>1. Contract!Perform(c)
    BY <1>2, <1>6 DEF Contract!Perform, Mutating
  <2> QED BY <1>2, <2>1 DEF Contract!Next
<1>7. ASSUME \A e \in DBs : State(e)' = State(e), op[c] # "close",
             Contract!Answer(c, "ok"),
             op[c] \in Checked => record[d],
             record' = [record EXCEPT ![d] = IF op[c] = "put" THEN TRUE
                           ELSE IF op[c] = "remove" THEN FALSE ELSE @]
      PROVE  Contract!Next
  <2>1. Contract!Perform(c)
    BY <1>2, <1>7 DEF Contract!Perform, Checked
  <2> QED BY <1>2, <2>1 DEF Contract!Next
<1>14. ASSUME UNCHANGED record
       PROVE  \E r \in BOOLEAN : /\ op[c] \notin Mutating => r = record[d]
                                 /\ record' = [record EXCEPT ![d] = r]
  <2>1. record[d] \in BOOLEAN /\ record' = [record EXCEPT ![d] = record[d]]
    BY <1>14 DEF EmbeddedInv, TypeOK
  <2> QED BY <2>1
<1>8. CASE Exists(d)
  <2>1. op[c] \in Checked /\ op[c] # "close" /\ worker[d] = "exists"
    BY <1>8 DEF EmbeddedInv, JobInv, Exists, Working, Checked
  <2>2. UNCHANGED record
    BY <1>8 DEF Exists
  <2>3. CASE /\ ~record[d] /\ Move(d, "loop")
             /\ Reply(d, IF op[c] = "get" THEN "absent" ELSE "notFound")
    <3>1. Contract!Answer(c, IF op[c] = "get" THEN "absent" ELSE "notFound")
      BY <1>3, <2>1, <2>3 DEF Answers
    <3>2. Contract!Perform(c)
      BY <1>2, <1>4, <2>1, <2>2, <2>3, <3>1 DEF Contract!Perform, Checked
    <3> QED BY <1>2, <3>2 DEF Contract!Next
  <2>4. CASE Move(d, "act") /\ UNCHANGED <<done, job>>
    BY <1>5, <2>1, <2>2, <2>4 DEF Working
  <2>5. CASE Move(d, "error") /\ UNCHANGED <<done, job>>
    <3>1. Contract!Answer(c, "abi")
      BY <1>1, <2>1, <2>5, FailureAnswers
    <3>2. \A e \in DBs : State(e)' = State(e)
      BY <1>4, <2>5 DEF Working
    <3> QED BY <1>6, <1>14, <2>1, <2>2, <3>1, <3>2
  <2> QED BY <1>8, <2>3, <2>4, <2>5 DEF Exists
<1>9. CASE Act(d)
  <2>1. /\ op[c] \in Ops \ {"close"} /\ (op[c] \in Checked => record[d])
        /\ worker[d] = "act"
    BY <1>2, <1>9 DEF EmbeddedInv, TypeOK, JobInv, CallInv, ActsOnExisting, Act,
       Working
  <2>2. CASE /\ Move(d, "error") /\ UNCHANGED <<done, job>>
             /\ \E r \in BOOLEAN : /\ op[c] \notin Mutating => r = record[d]
                                   /\ record' = [record EXCEPT ![d] = r]
    <3>1. Contract!Answer(c, "abi")
      BY <1>1, <2>1, <2>2, FailureAnswers
    <3>2. \A e \in DBs : State(e)' = State(e)
      BY <1>4, <2>2 DEF Working
    <3> QED BY <1>6, <2>1, <2>2, <3>1, <3>2
  <2>3. CASE Move(d, "buffer") /\ UNCHANGED <<record, done, job>>
    BY <1>5, <2>1, <2>3 DEF Working
  <2>4. CASE /\ op[c] \notin Buffered /\ Move(d, "loop")
             /\ record' = [record EXCEPT ![d] = op[c] # "remove"]
             /\ Reply(d, "ok")
    <3>1. record' = [record EXCEPT ![d] = IF op[c] = "put" THEN TRUE
                        ELSE IF op[c] = "remove" THEN FALSE ELSE @]
      BY <2>1, <2>4 DEF EmbeddedInv, TypeOK, Ops, Checked, Buffered
    <3>2. Contract!Answer(c, "ok") /\ \A e \in DBs : State(e)' = State(e)
      BY <1>3, <1>4, <2>1, <2>4 DEF Answers
    <3> QED BY <1>7, <2>1, <3>1, <3>2
  <2> QED BY <1>9, <2>2, <2>3, <2>4 DEF Act
<1>10. CASE Buffer(d)
  <2>1. op[c] \in Buffered /\ (op[c] \in Checked => record[d])
    BY <1>10 DEF EmbeddedInv, JobInv, ActsOnExisting, Buffer, Working
  <2>2. /\ UNCHANGED record /\ worker[d] = "buffer" /\ Move(d, "loop")
        /\ Reply(d, "ok") \/ Reply(d, "abi")
    BY <1>10 DEF Buffer, Refused, Copied
  <2>3. op[c] # "close" /\ op[c] # "put" /\ op[c] # "remove"
    BY <2>1 DEF Buffered
  <2>4. record' = [record EXCEPT ![d] = IF op[c] = "put" THEN TRUE
                      ELSE IF op[c] = "remove" THEN FALSE ELSE @]
    BY <2>2, <2>3 DEF EmbeddedInv, TypeOK
  <2>5. \A e \in DBs : State(e)' = State(e)
    BY <1>4, <2>2
  <2>6. Contract!Answer(c, "ok") \/ Contract!Answer(c, "abi")
    BY <1>3, <2>2 DEF Answers
  <2> QED BY <1>6, <1>7, <1>14, <2>1, <2>2, <2>3, <2>4, <2>5, <2>6
<1>11. CASE LastError(d)
  <2>1. PICK x \in Calls : x = c
    BY <1>2
  <2>2. /\ worker[d] = "error" /\ Move(d, "loop") /\ UNCHANGED record
        /\ done' = [done EXCEPT ![x] = "abi"] /\ job' = [job EXCEPT ![d] = NoCall]
    BY <1>11, <2>1 DEF LastError, Reply
  <2>3. Phase(x)' = Phase(x) /\ Outcome(x)' = Outcome(x)
    <3>1. Failing(x) /\ done[x] = "empty"
      BY <1>2, <2>1, <2>2, FailingWaits DEF Failing
    <3>2. done'[x] = "abi"
      BY <2>2 DEF EmbeddedInv, TypeOK
    <3>3. Outcome(x) = "abi" /\ Outcome(x)' = "abi"
      BY <3>1, <3>2 DEF Outcome
    <3> QED BY <1>1, <3>3 DEF Phase
  <2>4. \A e \in Calls \ {x} : Phase(e)' = Phase(e) /\ Outcome(e)' = Outcome(e)
    <3>1. \A e \in Calls \ {x} : Failing(e)' = Failing(e) /\ done'[e] = done[e]
      BY <1>1, <2>1, <2>2, OthersFail DEF EmbeddedInv, TypeOK
    <3> QED BY <1>1, <3>1 DEF Phase, Outcome
  <2>5. \A e \in Calls : Phase(e)' = Phase(e) /\ Outcome(e)' = Outcome(e)
    BY <2>3, <2>4
  <2>6. \A e \in DBs : State(e)' = State(e)
    BY <1>4, <2>2
  <2>7. UNCHANGED Contract!vars
    BY <1>1, <2>2, <2>5, <2>6, Unseen
  <2> QED BY <2>7
<1>12. CASE CloseHandle(d)
  BY <1>5, <1>12 DEF CloseHandle, callVars, Working
<1>13. CASE Stop(d)
  <2>1. op[c] = "close" /\ opened[d] = "ok"
    BY <1>13 DEF EmbeddedInv, JobInv, LifeInv, Stop, Working, Serving
  <2>2. State(d)' = "shut" /\ \A e \in DBs \ {d} : State(e)' = State(e)
    BY <1>13, <2>1 DEF EmbeddedInv, TypeOK, Stop, State, Move
  <2>3. UNCHANGED record /\ Contract!Answer(c, "ok")
    <3>1. worker[d] # "error" /\ Move(d, "dead") /\ Reply(d, "ok")
      BY <1>13 DEF Stop
    <3> QED BY <1>3, <1>13, <3>1 DEF Stop, Answers
  <2>4. Contract!Shut(c)
    BY <1>2, <2>1, <2>2, <2>3 DEF Contract!Shut
  <2> QED BY <1>2, <2>4 DEF Contract!Next
<1> QED BY <1>8, <1>9, <1>10, <1>11, <1>12, <1>13 DEF Work

\* The methods of DB are atomic, and Close is the last of them, whatever the
\* worker, its channel and DB.mu do in between (db.go:142-191).
THEOREM EmbeddedImplementsContract == Spec => ImplementsContract
<1>1. EmbeddedInv /\ [Next]_vars => [Contract!Next]_Contract!vars
  <2> SUFFICES ASSUME EmbeddedInv, [Next]_vars PROVE [Contract!Next]_Contract!vars
    OBVIOUS
  <2>1. CASE UNCHANGED vars
    BY <2>1, Unseen DEF vars, dbVars, callVars, State, Phase, Outcome, Failing
  <2> QED
    BY <2>1, OpeningRefines, InvokeRefines, CallerRefines, WorkRefines DEF Next
<1> QED BY <1>1, ContractInit, EmbeddedInvariant, PTL
        DEF Spec, ImplementsContract, Contract!Spec

=============================================================================
