------------------------------ MODULE Sessions ------------------------------
(***************************************************************************)
(* Database sessions.  Every use case, every transaction of a worker and   *)
(* the health probe run blocks `async with container.uow()`.  A block      *)
(* takes a connection from the pool of its process at its first statement, *)
(* locks the rows it writes when they are flushed, and gives both back at  *)
(* the commit or when the block is left; calls to the AI, to Google and to *)
(* Telegram are made between the blocks.  The model keeps that and drops   *)
(* what is read and written: the scripts below are the use cases reduced   *)
(* to the order of their statements.                                       *)
(*                                                                         *)
(* All tasks are about the same lead, proposal, follow-up and jobs, the    *)
(* worst case for locks.  Inserts of rows nobody else can see wait for     *)
(* nothing and are not shown, unless they are all a transaction does.      *)
(***************************************************************************)
EXTENDS Integers, FiniteSets, Sequences

CONSTANTS Tasks,      \* the updates, probes, polls and job runs under way
          Mixes,      \* what the tasks may be running: a set of [Tasks -> Kinds]
          Nobody,     \* the holder of a free lock
          PoolSize,   \* connections of one process
          MaxCrashes  \* bound: processes that die

VARIABLES
  kind,    \* [Tasks -> Kinds]: the script a task runs
  at,      \* [Tasks -> Nat]: its next step
  leaving, \* the tasks in __aexit__ by an exception or an early return
  pooled,  \* the tasks that hold a connection
  holder,  \* [Locks -> Tasks \cup {Nobody}]: row locks and keys inserted, uncommitted
  queued,  \* the idempotency keys committed
  crashes

vars == <<kind, at, leaving, pooled, holder, queued, crashes>>

-----------------------------------------------------------------------------
(* Scripts.                                                                *)

Rows  == {"job", "other_job", "follow_up", "lead", "proposal"}
Keys  == {"publish"}
Locks == Rows \cup Keys

Step(do, on) == [do |-> do, on |-> on]

Query   == Step("query", "")    \* a SELECT; what it finds may end the use case
Insert  == Step("insert", "")
Commit  == Step("commit", "")   \* and the end of the block
Leave   == Step("leave", "")    \* the end of a block without a commit
Call    == Step("call", "")     \* a call that may raise
Try     == Step("try", "")      \* a call whose exceptions are caught
Catch   == Step("catch", "")    \* where the exceptions of the steps before go
Lock(r) == Step("lock", r)      \* an UPDATE of the row
Take(r) == Step("take", r)      \* SELECT ... FOR UPDATE SKIP LOCKED
LookUp(k) == Step("lookup", k)
Key(k)    == Step("key", k)

(* A flush writes the changed objects class by class, by name: follow-up,  *)
(* lead, proposal, in every use case.                                      *)
Intake   == <<Insert, Commit, Try, Query, Lock("lead"), Commit>>
Qualify  == <<Query, Lock("lead"), Commit>>

\* Mutant: the writer called before the first transaction is committed.
GenerateInOneBlock == <<Query, Try, Lock("proposal"), Commit>>

Generate == <<Query, Commit, Try, Query, Lock("proposal"), Commit>>
Publish  == <<Query, LookUp("publish"), Key("publish"), Commit>>

\* Mutant: the proposal's change flushed on its own, before the lead's.
MarkSentInTwoFlushes == <<Query, Lock("proposal"), Lock("lead"), Commit>>

MarkSent == <<Query, Lock("lead"), Lock("proposal"), Commit>>
Answer   == <<Query, Lock("follow_up"), Lock("lead"), Lock("proposal"), Commit>>
Probe    == <<Query, Leave>>

(* A worker reclaims, then picks; then, for each job, the handler, the     *)
(* outcome of the job and, when it failed for good, the alert.             *)
Poll       == <<Lock("job"), Lock("other_job"), Commit, Take("job"), Commit>>
Remind     == <<Query, Leave, Call, Query, Lock("follow_up"), Commit,
                Catch, Lock("job"), Commit, Try>>
PutInGDocs == <<Query, Leave, Call, Insert, Commit, Try,
                Catch, Lock("job"), Commit, Try>>

Script == [intake        |-> Intake,
           qualify       |-> Qualify,
           generate      |-> Generate,
           publish       |-> Publish,
           mark_sent     |-> MarkSent,
           answer        |-> Answer,
           probe         |-> Probe,
           poll          |-> Poll,
           remind        |-> Remind,
           put_in_gdocs  |-> PutInGDocs]

Kinds == DOMAIN Script

ASSUME SessionsAssumption ==
  /\ Mixes \subseteq [Tasks -> Kinds]
  /\ Nobody \notin Tasks
  /\ PoolSize \in Nat \ {0}
  /\ MaxCrashes \in Nat

-----------------------------------------------------------------------------

(* The bot runs its updates, and the API its probes, in one process; a     *)
(* worker is a process of its own.                                         *)
Process(t) == IF kind[t] \in {"poll", "remind", "put_in_gdocs"} THEN t
              ELSE IF kind[t] = "probe" THEN "api" ELSE "bot"

Ended(t)    == at[t] > Len(Script[kind[t]]) /\ t \notin leaving
Upcoming(t) == Script[kind[t]][at[t]]
Goes(t)     == at[t] <= Len(Script[kind[t]]) /\ t \notin leaving
Does(t, do) == Goes(t) /\ Upcoming(t).do = do

Statements == {"query", "insert", "lock", "take", "lookup", "key"}
AtStatement(t) == Goes(t) /\ Upcoming(t).do \in Statements

Colleagues(t) == {u \in pooled : Process(u) = Process(t)}
Held(t)       == {r \in Locks : holder[r] = t}
Freed(T)      == [r \in Locks |-> IF holder[r] \in T THEN Nobody ELSE holder[r]]

(* Where an exception goes: a worker's _run_one catches it, the dispatcher *)
(* of the bot, the probe and the worker's loop end there.                  *)
Caught(t) ==
  LET s == Script[kind[t]]
      catches == {i \in at[t] .. Len(s) : s[i].do = "catch"}
  IN  IF catches = {} THEN Len(s) + 1 ELSE CHOOSE i \in catches : TRUE

Init ==
  /\ kind \in Mixes
  /\ at = [t \in Tasks |-> 1]
  /\ leaving = {}
  /\ pooled = {}
  /\ holder = [r \in Locks |-> Nobody]
  /\ queued = {}
  /\ crashes = 0

Advance(t) == at' = [at EXCEPT ![t] = @ + 1] /\ UNCHANGED leaving

(* An exception, or a return, from inside a block.                         *)
Quit(t) ==
  /\ at' = [at EXCEPT ![t] = Caught(t)]
  /\ leaving' = leaving \cup {t}

-----------------------------------------------------------------------------
(* Steps of a task.                                                        *)

(* The first statement of a block: the session asks the pool.              *)
CheckOut(t) ==
  /\ AtStatement(t) /\ t \notin pooled
  /\ Cardinality(Colleagues(t)) < PoolSize
  /\ pooled' = pooled \cup {t}
  /\ UNCHANGED <<kind, at, leaving, holder, queued, crashes>>

Connected(t, do) == t \in pooled /\ Does(t, do)

DoQuery(t) ==
  /\ Connected(t, "query")
  /\ Advance(t) \/ Quit(t)
  /\ UNCHANGED <<kind, pooled, holder, queued, crashes>>

DoInsert(t) ==
  /\ Connected(t, "insert")
  /\ Advance(t)
  /\ UNCHANGED <<kind, pooled, holder, queued, crashes>>

DoLock(t) ==
  /\ Connected(t, "lock")
  /\ holder[Upcoming(t).on] \in {Nobody, t}
  /\ holder' = [holder EXCEPT ![Upcoming(t).on] = t]
  /\ Advance(t)
  /\ UNCHANGED <<kind, pooled, queued, crashes>>

(* Nothing may be due; a row another worker holds is skipped.              *)
DoTake(t) ==
  /\ Connected(t, "take")
  /\ \/ UNCHANGED holder
     \/ /\ holder[Upcoming(t).on] = Nobody
        /\ holder' = [holder EXCEPT ![Upcoming(t).on] = t]
  /\ Advance(t)
  /\ UNCHANGED <<kind, pooled, queued, crashes>>

(* A key found in a committed row makes the INSERT unnecessary.            *)
DoLookUp(t) ==
  /\ Connected(t, "lookup")
  /\ at' = [at EXCEPT ![t] = @ + (IF Upcoming(t).on \in queued THEN 2 ELSE 1)]
  /\ UNCHANGED <<kind, leaving, pooled, holder, queued, crashes>>

(* The unique index: an INSERT waits for the transaction that inserted the *)
(* same key, and is refused once that has committed.                       *)
DoKey(t) ==
  /\ Connected(t, "key")
  /\ holder[Upcoming(t).on] = Nobody
  /\ IF Upcoming(t).on \in queued
     THEN Quit(t) /\ UNCHANGED holder
     ELSE Advance(t) /\ holder' = [holder EXCEPT ![Upcoming(t).on] = t]
  /\ UNCHANGED <<kind, pooled, queued, crashes>>

DoCommit(t) ==
  /\ Connected(t, "commit")
  /\ queued' = queued \cup (Held(t) \cap Keys)
  /\ holder' = Freed({t})
  /\ pooled' = pooled \ {t}
  /\ Advance(t)
  /\ UNCHANGED <<kind, crashes>>

\* Mutant: the session closed only where an exception leaves the block.
LeaveOpen(t) ==
  /\ \/ /\ t \in leaving
        /\ leaving' = leaving \ {t}
        /\ holder' = Freed({t})
        /\ pooled' = pooled \ {t}
        /\ UNCHANGED at
     \/ Does(t, "leave") /\ Advance(t) /\ UNCHANGED <<holder, pooled>>
  /\ UNCHANGED <<kind, queued, crashes>>

\* Mutant: the connection returned as it is, what was flushed not undone.
CloseOnly(t) ==
  /\ \/ t \in leaving /\ leaving' = leaving \ {t} /\ UNCHANGED at
     \/ Does(t, "leave") /\ Advance(t)
  /\ pooled' = pooled \ {t}
  /\ UNCHANGED <<kind, holder, queued, crashes>>

(* __aexit__: roll back after an exception, and close in any case.         *)
DoLeave(t) ==
  /\ \/ t \in leaving /\ leaving' = leaving \ {t} /\ UNCHANGED at
     \/ Does(t, "leave") /\ Advance(t)
  /\ holder' = Freed({t})
  /\ pooled' = pooled \ {t}
  /\ UNCHANGED <<kind, queued, crashes>>

(* The call returns, or raises.                                            *)
DoCall(t) ==
  /\ \/ /\ Does(t, "call") \/ Does(t, "try")
        /\ Advance(t)
     \/ /\ Does(t, "call")
        /\ at' = [at EXCEPT ![t] = Caught(t)]
        /\ UNCHANGED leaving
  /\ UNCHANGED <<kind, pooled, holder, queued, crashes>>

Arrive(t) ==
  /\ Does(t, "catch")
  /\ Advance(t)
  /\ UNCHANGED <<kind, pooled, holder, queued, crashes>>

Work(t) == \/ CheckOut(t)
           \/ DoQuery(t) \/ DoInsert(t) \/ DoLock(t) \/ DoTake(t)
           \/ DoLookUp(t) \/ DoKey(t) \/ DoCommit(t)
           \/ DoLeave(t) \/ DoCall(t) \/ Arrive(t)

-----------------------------------------------------------------------------
(* Faults.                                                                 *)

(* A statement or the wait for a connection fails.  The locks stay until   *)
(* the rollback, unless the connection was lost.                           *)
Raise(t) ==
  /\ AtStatement(t) \/ Does(t, "commit")
  /\ Quit(t)
  /\ holder' \in {holder, Freed({t})}
  /\ UNCHANGED <<kind, pooled, queued, crashes>>

(* A process dies; the database rolls back what it had open.               *)
Crash(p) ==
  LET dead == {t \in Tasks : Process(t) = p}
  IN  /\ crashes < MaxCrashes
      /\ \E t \in dead : ~Ended(t)
      /\ at' = [t \in Tasks |-> IF t \in dead THEN Len(Script[kind[t]]) + 1 ELSE at[t]]
      /\ leaving' = leaving \ dead
      /\ pooled' = pooled \ dead
      /\ holder' = Freed(dead)
      /\ crashes' = crashes + 1
      /\ UNCHANGED <<kind, queued>>

Next == \/ \E t \in Tasks : Work(t) \/ Raise(t)
        \/ \E p \in {Process(t) : t \in Tasks} : Crash(p)

Spec == Init /\ [][Next]_vars

(* An event loop gets round to every task, the database to every statement *)
(* and a call ends, by its own timeout if need be.                         *)
FairSpec == Spec /\ \A t \in Tasks : WF_vars(Work(t))

-----------------------------------------------------------------------------
(* Properties.                                                             *)

TypeOK ==
  /\ kind \in Mixes
  /\ at \in [Tasks -> Nat]
  /\ \A t \in Tasks : at[t] \in 1 .. Len(Script[kind[t]]) + 1
  /\ leaving \subseteq Tasks
  /\ pooled \subseteq Tasks
  /\ holder \in [Locks -> pooled \cup {Nobody}]
  /\ queued \subseteq Keys
  /\ crashes \in 0 .. MaxCrashes

(* While a task waits for the AI, for Google or for Telegram, and once it  *)
(* has ended, it holds no connection and no lock, whichever way it left    *)
(* its blocks: `async with container.uow()` closes the session on every    *)
(* path, and the use cases call out between two blocks.                    *)
OutsideHoldsNothing ==
  \A t \in Tasks :
    Ended(t) \/ Does(t, "call") \/ Does(t, "try") => t \notin pooled /\ Held(t) = {}

(* Who could end the wait of a task that cannot go on.                     *)
WaitsFor(t) ==
  IF t \in pooled THEN {holder[Upcoming(t).on]} ELSE Colleagues(t)

Waits(t) ==
  /\ AtStatement(t)
  /\ IF t \in pooled
     THEN Upcoming(t).do \in {"lock", "key"} /\ holder[Upcoming(t).on] \notin {Nobody, t}
     ELSE Cardinality(Colleagues(t)) >= PoolSize

(* No group of tasks waits for its own members only, for locks and for     *)
(* connections together: the use cases flush in one order, and no task     *)
(* asks for a connection while it holds one.                               *)
NoDeadlock ==
  \A D \in (SUBSET Tasks) \ {{}} : \E t \in D : ~Waits(t) \/ ~(WaitsFor(t) \subseteq D)

(* Every update the bot takes, every probe and every job run comes to its  *)
(* end, also when there are more of them than connections.                 *)
EveryTaskEnds == <>(\A t \in Tasks : Ended(t))

=============================================================================
