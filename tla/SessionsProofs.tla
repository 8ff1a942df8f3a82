--------------------------- MODULE SessionsProofs ---------------------------
(***************************************************************************)
(* Theorems about Sessions, for any number of tasks, whatever they run,    *)
(* and any number of connections.                                          *)
(*                                                                         *)
(* Everything rests on the shape of the scripts (Orderly): a statement is  *)
(* followed by another, by a commit or by the end of the block, and a lock *)
(* by a commit or by a lock of a higher rank.  A group of tasks that waits *)
(* for itself only would contain one that waits for the highest of their   *)
(* locks, and its holder would wait for a higher one.                      *)
(***************************************************************************)
EXTENDS Sessions, TLAPS, FiniteSetTheorems

-----------------------------------------------------------------------------
(* The scripts.                                                            *)

InBlock == Statements \cup {"commit", "leave"}
Locking == {"lock", "take", "key"}

Rank == [r \in Locks |-> CASE r \in {"job", "follow_up", "publish"} -> 1
                           [] r \in {"other_job", "lead"} -> 2
                           [] OTHER -> 3]

Orderly(s) ==
  /\ Len(s) \in Nat
  /\ \A i \in 1 .. Len(s) :
       /\ s[i].do \in Statements => i + 1 \in 1 .. Len(s) /\ s[i + 1].do \in InBlock
       /\ s[i].do = "lookup" => i + 2 \in 1 .. Len(s) /\ s[i + 2].do \in InBlock
       /\ s[i].do \in Locking =>
            /\ s[i].on \in Locks
            /\ \/ s[i + 1].do = "commit"
               \/ s[i + 1].do \in Locking /\ Rank[s[i].on] < Rank[s[i + 1].on]

LEMMA StepFields ==
  /\ Query.do = "query" /\ Insert.do = "insert" /\ Commit.do = "commit" /\ Leave.do = "leave"
  /\ Call.do = "call" /\ Try.do = "try" /\ Catch.do = "catch"
  /\ \A r : /\ Lock(r).do = "lock" /\ Lock(r).on = r
            /\ Take(r).do = "take" /\ Take(r).on = r
            /\ Key(r).do = "key" /\ Key(r).on = r
            /\ LookUp(r).do = "lookup"
  BY DEF Query, Insert, Commit, Leave, Call, Try, Catch, Lock, Take, Key, LookUp, Step

LEMMA LockNames ==
  /\ "job" \in Locks /\ "other_job" \in Locks /\ "follow_up" \in Locks
  /\ "lead" \in Locks /\ "proposal" \in Locks /\ "publish" \in Locks
  BY DEF Locks, Rows, Keys

LEMMA LockRanks ==
  /\ Rank["job"] < Rank["other_job"]
  /\ Rank["follow_up"] < Rank["lead"]
  /\ Rank["lead"] < Rank["proposal"]
  /\ \A r \in Locks : Rank[r] \in 1 .. 3
  BY DEF Rank, Locks, Rows, Keys

LEMMA OrderlyIntake == Orderly(Intake)
<1>0. PICK s : s = Intake
  OBVIOUS
<1>1. /\ Len(s) = 6
      /\ s[1].do = "insert"
      /\ s[2].do = "commit"
      /\ s[3].do = "try"
      /\ s[4].do = "query"
      /\ s[5].do = "lock" /\ s[5].on = "lead"
      /\ s[6].do = "commit"
  BY <1>0, StepFields DEF Intake
<1>2. \A i \in 1 .. 6 : i = 1 \/ i = 2 \/ i = 3 \/ i = 4 \/ i = 5 \/ i = 6
  OBVIOUS
<1>3. \A i \in 1 .. 6 : s[i].do \in Statements => i + 1 \in 1 .. 6 /\ s[i + 1].do \in InBlock
  BY <1>1, <1>2 DEF Statements, InBlock
<1>4. \A i \in 1 .. 6 : s[i].do # "lookup"
  BY <1>1, <1>2
<1>5. \A i \in 1 .. 6 : s[i].do \in Locking => i = 5
  BY <1>1, <1>2 DEF Locking
<1>6. /\ s[5].on \in Locks
  BY <1>1, LockNames
<1>8. \A i \in 1 .. 6 : s[i].do \in Locking =>
        \/ s[i + 1].do = "commit"
        \/ s[i + 1].do \in Locking /\ Rank[s[i].on] < Rank[s[i + 1].on]
  BY <1>1, <1>5 DEF Locking
<1>9. \A i \in 1 .. 6 : s[i].do \in Locking => s[i].on \in Locks
  BY <1>5, <1>6
<1>10. QED
  BY <1>0, <1>1, <1>3, <1>4, <1>8, <1>9 DEF Orderly

LEMMA OrderlyQualify == Orderly(Qualify)
<1>0. PICK s : s = Qualify
  OBVIOUS
<1>1. /\ Len(s) = 3
      /\ s[1].do = "query"
      /\ s[2].do = "lock" /\ s[2].on = "lead"
      /\ s[3].do = "commit"
  BY <1>0, StepFields DEF Qualify
<1>2. \A i \in 1 .. 3 : i = 1 \/ i = 2 \/ i = 3
  OBVIOUS
<1>3. \A i \in 1 .. 3 : s[i].do \in Statements => i + 1 \in 1 .. 3 /\ s[i + 1].do \in InBlock
  BY <1>1, <1>2 DEF Statements, InBlock
<1>4. \A i \in 1 .. 3 : s[i].do # "lookup"
  BY <1>1, <1>2
<1>5. \A i \in 1 .. 3 : s[i].do \in Locking => i = 2
  BY <1>1, <1>2 DEF Locking
<1>6. /\ s[2].on \in Locks
  BY <1>1, LockNames
<1>8. \A i \in 1 .. 3 : s[i].do \in Locking =>
        \/ s[i + 1].do = "commit"
        \/ s[i + 1].do \in Locking /\ Rank[s[i].on] < Rank[s[i + 1].on]
  BY <1>1, <1>5 DEF Locking
<1>9. \A i \in 1 .. 3 : s[i].do \in Locking => s[i].on \in Locks
  BY <1>5, <1>6
<1>10. QED
  BY <1>0, <1>1, <1>3, <1>4, <1>8, <1>9 DEF Orderly

LEMMA OrderlyGenerate == Orderly(Generate)
<1>0. PICK s : s = Generate
  OBVIOUS
<1>1. /\ Len(s) = 6
      /\ s[1].do = "query"
      /\ s[2].do = "commit"
      /\ s[3].do = "try"
      /\ s[4].do = "query"
      /\ s[5].do = "lock" /\ s[5].on = "proposal"
      /\ s[6].do = "commit"
  BY <1>0, StepFields DEF Generate
<1>2. \A i \in 1 .. 6 : i = 1 \/ i = 2 \/ i = 3 \/ i = 4 \/ i = 5 \/ i = 6
  OBVIOUS
<1>3. \A i \in 1 .. 6 : s[i].do \in Statements => i + 1 \in 1 .. 6 /\ s[i + 1].do \in InBlock
  BY <1>1, <1>2 DEF Statements, InBlock
<1>4. \A i \in 1 .. 6 : s[i].do # "lookup"
  BY <1>1, <1>2
<1>5. \A i \in 1 .. 6 : s[i].do \in Locking => i = 5
  BY <1>1, <1>2 DEF Locking
<1>6. /\ s[5].on \in Locks
  BY <1>1, LockNames
<1>8. \A i \in 1 .. 6 : s[i].do \in Locking =>
        \/ s[i + 1].do = "commit"
        \/ s[i + 1].do \in Locking /\ Rank[s[i].on] < Rank[s[i + 1].on]
  BY <1>1, <1>5 DEF Locking
<1>9. \A i \in 1 .. 6 : s[i].do \in Locking => s[i].on \in Locks
  BY <1>5, <1>6
<1>10. QED
  BY <1>0, <1>1, <1>3, <1>4, <1>8, <1>9 DEF Orderly

LEMMA OrderlyPublish == Orderly(Publish)
<1>0. PICK s : s = Publish
  OBVIOUS
<1>1. /\ Len(s) = 4
      /\ s[1].do = "query"
      /\ s[2].do = "lookup"
      /\ s[3].do = "key" /\ s[3].on = "publish"
      /\ s[4].do = "commit"
  BY <1>0, StepFields DEF Publish
<1>2. \A i \in 1 .. 4 : i = 1 \/ i = 2 \/ i = 3 \/ i = 4
  OBVIOUS
<1>3. \A i \in 1 .. 4 : s[i].do \in Statements => i + 1 \in 1 .. 4 /\ s[i + 1].do \in InBlock
  BY <1>1, <1>2 DEF Statements, InBlock
<1>4. \A i \in 1 .. 4 : s[i].do = "lookup" => i + 2 \in 1 .. 4 /\ s[i + 2].do \in InBlock
  BY <1>1, <1>2 DEF Statements, InBlock
<1>5. \A i \in 1 .. 4 : s[i].do \in Locking => i = 3
  BY <1>1, <1>2 DEF Locking
<1>6. /\ s[3].on \in Locks
  BY <1>1, LockNames
<1>8. \A i \in 1 .. 4 : s[i].do \in Locking =>
        \/ s[i + 1].do = "commit"
        \/ s[i + 1].do \in Locking /\ Rank[s[i].on] < Rank[s[i + 1].on]
  BY <1>1, <1>5 DEF Locking
<1>9. \A i \in 1 .. 4 : s[i].do \in Locking => s[i].on \in Locks
  BY <1>5, <1>6
<1>10. QED
  BY <1>0, <1>1, <1>3, <1>4, <1>8, <1>9 DEF Orderly

LEMMA OrderlyMarkSent == Orderly(MarkSent)
<1>0. PICK s : s = MarkSent
  OBVIOUS
<1>1. /\ Len(s) = 4
      /\ s[1].do = "query"
      /\ s[2].do = "lock" /\ s[2].on = "lead"
      /\ s[3].do = "lock" /\ s[3].on = "proposal"
      /\ s[4].do = "commit"
  BY <1>0, StepFields DEF MarkSent
<1>2. \A i \in 1 .. 4 : i = 1 \/ i = 2 \/ i = 3 \/ i = 4
  OBVIOUS
<1>3. \A i \in 1 .. 4 : s[i].do \in Statements => i + 1 \in 1 .. 4 /\ s[i + 1].do \in InBlock
  BY <1>1, <1>2 DEF Statements, InBlock
<1>4. \A i \in 1 .. 4 : s[i].do # "lookup"
  BY <1>1, <1>2
<1>5. \A i \in 1 .. 4 : s[i].do \in Locking => i = 2 \/ i = 3
  BY <1>1, <1>2 DEF Locking
<1>6. /\ s[2].on \in Locks
      /\ s[3].on \in Locks
  BY <1>1, LockNames
<1>7. /\ Rank[s[2].on] < Rank[s[3].on]
  BY <1>1, LockRanks
<1>8. \A i \in 1 .. 4 : s[i].do \in Locking =>
        \/ s[i + 1].do = "commit"
        \/ s[i + 1].do \in Locking /\ Rank[s[i].on] < Rank[s[i + 1].on]
  BY <1>1, <1>5, <1>7 DEF Locking
<1>9. \A i \in 1 .. 4 : s[i].do \in Locking => s[i].on \in Locks
  BY <1>5, <1>6
<1>10. QED
  BY <1>0, <1>1, <1>3, <1>4, <1>8, <1>9 DEF Orderly

LEMMA OrderlyAnswer == Orderly(Answer)
<1>0. PICK s : s = Answer
  OBVIOUS
<1>1. /\ Len(s) = 5
      /\ s[1].do = "query"
      /\ s[2].do = "lock" /\ s[2].on = "follow_up"
      /\ s[3].do = "lock" /\ s[3].on = "lead"
      /\ s[4].do = "lock" /\ s[4].on = "proposal"
      /\ s[5].do = "commit"
  BY <1>0, StepFields DEF Answer
<1>2. \A i \in 1 .. 5 : i = 1 \/ i = 2 \/ i = 3 \/ i = 4 \/ i = 5
  OBVIOUS
<1>3. \A i \in 1 .. 5 : s[i].do \in Statements => i + 1 \in 1 .. 5 /\ s[i + 1].do \in InBlock
  BY <1>1, <1>2 DEF Statements, InBlock
<1>4. \A i \in 1 .. 5 : s[i].do # "lookup"
  BY <1>1, <1>2
<1>5. \A i \in 1 .. 5 : s[i].do \in Locking => i = 2 \/ i = 3 \/ i = 4
  BY <1>1, <1>2 DEF Locking
<1>6. /\ s[2].on \in Locks
      /\ s[3].on \in Locks
      /\ s[4].on \in Locks
  BY <1>1, LockNames
<1>7. /\ Rank[s[2].on] < Rank[s[3].on]
      /\ Rank[s[3].on] < Rank[s[4].on]
  BY <1>1, LockRanks
<1>8. \A i \in 1 .. 5 : s[i].do \in Locking =>
        \/ s[i + 1].do = "commit"
        \/ s[i + 1].do \in Locking /\ Rank[s[i].on] < Rank[s[i + 1].on]
  BY <1>1, <1>5, <1>7 DEF Locking
<1>9. \A i \in 1 .. 5 : s[i].do \in Locking => s[i].on \in Locks
  BY <1>5, <1>6
<1>10. QED
  BY <1>0, <1>1, <1>3, <1>4, <1>8, <1>9 DEF Orderly

LEMMA OrderlyProbe == Orderly(Probe)
<1>0. PICK s : s = Probe
  OBVIOUS
<1>1. /\ Len(s) = 2
      /\ s[1].do = "query"
      /\ s[2].do = "leave"
  BY <1>0, StepFields DEF Probe
<1>2. \A i \in 1 .. 2 : i = 1 \/ i = 2
  OBVIOUS
<1>3. \A i \in 1 .. 2 : s[i].do \in Statements => i + 1 \in 1 .. 2 /\ s[i + 1].do \in InBlock
  BY <1>1, <1>2 DEF Statements, InBlock
<1>4. \A i \in 1 .. 2 : s[i].do # "lookup"
  BY <1>1, <1>2
<1>5. \A i \in 1 .. 2 : s[i].do \notin Locking
  BY <1>1, <1>2 DEF Locking
<1>6. QED
  BY <1>0, <1>1, <1>3, <1>4, <1>5 DEF Orderly

LEMMA OrderlyPoll == Orderly(Poll)
<1>0. PICK s : s = Poll
  OBVIOUS
<1>1. /\ Len(s) = 5
      /\ s[1].do = "lock" /\ s[1].on = "job"
      /\ s[2].do = "lock" /\ s[2].on = "other_job"
      /\ s[3].do = "commit"
      /\ s[4].do = "take" /\ s[4].on = "job"
      /\ s[5].do = "commit"
  BY <1>0, StepFields DEF Poll
<1>2. \A i \in 1 .. 5 : i = 1 \/ i = 2 \/ i = 3 \/ i = 4 \/ i = 5
  OBVIOUS
<1>3. \A i \in 1 .. 5 : s[i].do \in Statements => i + 1 \in 1 .. 5 /\ s[i + 1].do \in InBlock
  BY <1>1, <1>2 DEF Statements, InBlock
<1>4. \A i \in 1 .. 5 : s[i].do # "lookup"
  BY <1>1, <1>2
<1>5. \A i \in 1 .. 5 : s[i].do \in Locking => i = 1 \/ i = 2 \/ i = 4
  BY <1>1, <1>2 DEF Locking
<1>6. /\ s[1].on \in Locks
      /\ s[2].on \in Locks
      /\ s[4].on \in Locks
  BY <1>1, LockNames
<1>7. /\ Rank[s[1].on] < Rank[s[2].on]
  BY <1>1, LockRanks
<1>8. \A i \in 1 .. 5 : s[i].do \in Locking =>
        \/ s[i + 1].do = "commit"
        \/ s[i + 1].do \in Locking /\ Rank[s[i].on] < Rank[s[i + 1].on]
  BY <1>1, <1>5, <1>7 DEF Locking
<1>9. \A i \in 1 .. 5 : s[i].do \in Locking => s[i].on \in Locks
  BY <1>5, <1>6
<1>10. QED
  BY <1>0, <1>1, <1>3, <1>4, <1>8, <1>9 DEF Orderly

LEMMA OrderlyRemind == Orderly(Remind)
<1>0. PICK s : s = Remind
  OBVIOUS
<1>1. /\ Len(s) = 10
      /\ s[1].do = "query"
      /\ s[2].do = "leave"
      /\ s[3].do = "call"
      /\ s[4].do = "query"
      /\ s[5].do = "lock" /\ s[5].on = "follow_up"
      /\ s[6].do = "commit"
      /\ s[7].do = "catch"
      /\ s[8].do = "lock" /\ s[8].on = "job"
      /\ s[9].do = "commit"
      /\ s[10].do = "try"
  BY <1>0, StepFields DEF Remind
<1>2. \A i \in 1 .. 10 : i = 1 \/ i = 2 \/ i = 3 \/ i = 4 \/ i = 5 \/ i = 6 \/ i = 7 \/ i = 8 \/ i = 9 \/ i = 10
  OBVIOUS
<1>3. \A i \in 1 .. 10 : s[i].do \in Statements => i + 1 \in 1 .. 10 /\ s[i + 1].do \in InBlock
  BY <1>1, <1>2 DEF Statements, InBlock
<1>4. \A i \in 1 .. 10 : s[i].do # "lookup"
  BY <1>1, <1>2
<1>5. \A i \in 1 .. 10 : s[i].do \in Locking => i = 5 \/ i = 8
  BY <1>1, <1>2 DEF Locking
<1>6. /\ s[5].on \in Locks
      /\ s[8].on \in Locks
  BY <1>1, LockNames
<1>8. \A i \in 1 .. 10 : s[i].do \in Locking =>
        \/ s[i + 1].do = "commit"
        \/ s[i + 1].do \in Locking /\ Rank[s[i].on] < Rank[s[i + 1].on]
  BY <1>1, <1>5 DEF Locking
<1>9. \A i \in 1 .. 10 : s[i].do \in Locking => s[i].on \in Locks
  BY <1>5, <1>6
<1>10. QED
  BY <1>0, <1>1, <1>3, <1>4, <1>8, <1>9 DEF Orderly

LEMMA OrderlyPutInGDocs == Orderly(PutInGDocs)
<1>0. PICK s : s = PutInGDocs
  OBVIOUS
<1>1. /\ Len(s) = 10
      /\ s[1].do = "query"
      /\ s[2].do = "leave"
      /\ s[3].do = "call"
      /\ s[4].do = "insert"
      /\ s[5].do = "commit"
      /\ s[6].do = "try"
      /\ s[7].do = "catch"
      /\ s[8].do = "lock" /\ s[8].on = "job"
      /\ s[9].do = "commit"
      /\ s[10].do = "try"
  BY <1>0, StepFields DEF PutInGDocs
<1>2. \A i \in 1 .. 10 : i = 1 \/ i = 2 \/ i = 3 \/ i = 4 \/ i = 5 \/ i = 6 \/ i = 7 \/ i = 8 \/ i = 9 \/ i = 10
  OBVIOUS
<1>3. \A i \in 1 .. 10 : s[i].do \in Statements => i + 1 \in 1 .. 10 /\ s[i + 1].do \in InBlock
  BY <1>1, <1>2 DEF Statements, InBlock
<1>4. \A i \in 1 .. 10 : s[i].do # "lookup"
  BY <1>1, <1>2
<1>5. \A i \in 1 .. 10 : s[i].do \in Locking => i = 8
  BY <1>1, <1>2 DEF Locking
<1>6. /\ s[8].on \in Locks
  BY <1>1, LockNames
<1>8. \A i \in 1 .. 10 : s[i].do \in Locking =>
        \/ s[i + 1].do = "commit"
        \/ s[i + 1].do \in Locking /\ Rank[s[i].on] < Rank[s[i + 1].on]
  BY <1>1, <1>5 DEF Locking
<1>9. \A i \in 1 .. 10 : s[i].do \in Locking => s[i].on \in Locks
  BY <1>5, <1>6
<1>10. QED
  BY <1>0, <1>1, <1>3, <1>4, <1>8, <1>9 DEF Orderly

LEMMA ScriptsOrderly == \A k \in Kinds : Orderly(Script[k])
  BY OrderlyIntake, OrderlyQualify, OrderlyGenerate, OrderlyPublish, OrderlyMarkSent, OrderlyAnswer, OrderlyProbe, OrderlyPoll, OrderlyRemind, OrderlyPutInGDocs DEF Kinds, Script

-----------------------------------------------------------------------------
(* Positions.                                                              *)

LEMMA OnTrack ==
  ASSUME TypeOK, NEW t \in Tasks
  PROVE  /\ Orderly(Script[kind[t]])
         /\ at[t] \in Nat /\ Len(Script[kind[t]]) \in Nat
         /\ Goes(t) => at[t] \in 1 .. Len(Script[kind[t]])
<1>1. kind[t] \in Kinds
  BY SessionsAssumption DEF TypeOK
<1>2. Orderly(Script[kind[t]])
  BY <1>1, ScriptsOrderly
<1>3. QED
  BY <1>2 DEF Orderly, TypeOK, Goes

LEMMA CaughtOnTrack ==
  ASSUME TypeOK, NEW t \in Tasks
  PROVE  Caught(t) \in 1 .. Len(Script[kind[t]]) + 1
<1>1. PICK s : s = Script[kind[t]]
  OBVIOUS
<1>2. PICK C : C = {i \in at[t] .. Len(s) : s[i].do = "catch"}
  OBVIOUS
<1>3. at[t] \in 1 .. Len(s) + 1 /\ Len(s) \in Nat
  BY <1>1, OnTrack DEF TypeOK
<1>4. Caught(t) = IF C = {} THEN Len(s) + 1 ELSE CHOOSE i \in C : TRUE
  BY <1>1, <1>2 DEF Caught
<1>5. C # {} => (CHOOSE i \in C : TRUE) \in C
  OBVIOUS
<1>6. C \subseteq 1 .. Len(s)
  BY <1>2, <1>3
<1>7. CASE C = {}
  BY <1>1, <1>3, <1>4, <1>7
<1>8. CASE C # {}
  <2>1. PICK c : c = CHOOSE i \in C : TRUE
    OBVIOUS
  <2>2. c \in 1 .. Len(s) /\ Caught(t) = c
    BY <1>4, <1>5, <1>6, <1>8, <2>1
  <2>3. QED
    BY <1>1, <1>3, <2>2
<1>9. QED
  BY <1>7, <1>8

(* The step after a statement, and what a lock is followed by.             *)
LEMMA NextStep ==
  ASSUME TypeOK, NEW t \in Tasks, Goes(t), Upcoming(t).do \in Statements
  PROVE  /\ at[t] + 1 \in 1 .. Len(Script[kind[t]])
         /\ Script[kind[t]][at[t] + 1].do \in InBlock
         /\ Upcoming(t).do = "lookup" =>
              /\ at[t] + 2 \in 1 .. Len(Script[kind[t]])
              /\ Script[kind[t]][at[t] + 2].do \in InBlock
         /\ Upcoming(t).do \in Locking =>
              /\ Upcoming(t).on \in Locks
              /\ \/ Script[kind[t]][at[t] + 1].do = "commit"
                 \/ /\ Script[kind[t]][at[t] + 1].do \in Locking
                    /\ Script[kind[t]][at[t] + 1].on \in Locks
                    /\ Rank[Upcoming(t).on] < Rank[Script[kind[t]][at[t] + 1].on]
  BY OnTrack DEF Orderly, Upcoming

-----------------------------------------------------------------------------
(* Types.                                                                  *)

LEMMA TypeInit == Init => TypeOK
<1> SUFFICES ASSUME Init PROVE TypeOK
  OBVIOUS
<1>1. \A t \in Tasks : Len(Script[kind[t]]) \in Nat
  BY SessionsAssumption, ScriptsOrderly DEF Init, Orderly
<1>2. \A t \in Tasks : at[t] \in 1 .. Len(Script[kind[t]]) + 1
  BY <1>1 DEF Init
<1>3. QED
  BY <1>2, SessionsAssumption DEF Init, TypeOK

(* A step that moves one task within its script and writes nothing else    *)
(* wrong.                                                                  *)
LEMMA TypedMove ==
  ASSUME TypeOK, NEW t \in Tasks, NEW i \in 1 .. Len(Script[kind[t]]) + 1,
         at' = [at EXCEPT ![t] = i], kind' = kind,
         leaving' \subseteq Tasks, pooled' \subseteq Tasks,
         holder' \in [Locks -> pooled' \cup {Nobody}],
         queued' \subseteq Keys, crashes' \in 0 .. MaxCrashes
  PROVE  TypeOK'
<1>1. Len(Script[kind[t]]) \in Nat
  BY OnTrack
<1>2. at' \in [Tasks -> Nat]
  BY <1>1 DEF TypeOK
<1>3. \A u \in Tasks : at'[u] \in 1 .. Len(Script[kind'[u]]) + 1
  BY DEF TypeOK
<1>4. QED
  BY <1>2, <1>3 DEF TypeOK

(* What a task's step does to its position: forward, or out of its block.  *)
LEMMA TypeWork ==
  ASSUME TypeOK, NEW t \in Tasks, Work(t) \/ Raise(t)
  PROVE  TypeOK'
<1> USE DEF TypeOK
<1>1. /\ t # Nobody
      /\ at[t] \in Nat
      /\ Goes(t) => at[t] + 1 \in 1 .. Len(Script[kind[t]]) + 1
      /\ at[t] \in 1 .. Len(Script[kind[t]]) + 1
  BY OnTrack, SessionsAssumption
<1>2. Caught(t) \in 1 .. Len(Script[kind[t]]) + 1
  BY CaughtOnTrack
<1>3. Freed({t}) \in [Locks -> (pooled \ {t}) \cup {Nobody}]
  BY DEF Freed
<1>3a. Freed({t}) \in [Locks -> pooled \cup {Nobody}]
  BY DEF Freed
<1>4. CASE CheckOut(t)
  <2>1. pooled' \subseteq Tasks /\ holder' \in [Locks -> pooled' \cup {Nobody}]
    BY <1>4 DEF CheckOut
  <2>2. QED
    BY <1>4, <2>1 DEF CheckOut
<1>5. CASE DoQuery(t)
  BY <1>5, <1>1, <1>2, TypedMove DEF DoQuery, Connected, Does, Advance, Quit
<1>6. CASE DoInsert(t)
  BY <1>6, <1>1, TypedMove DEF DoInsert, Connected, Does, Advance
<1>7. CASE DoLock(t)
  BY <1>7, <1>1, TypedMove DEF DoLock, Connected, Does, Advance
<1>8. CASE DoTake(t)
  BY <1>8, <1>1, TypedMove DEF DoTake, Connected, Does, Advance
<1>9. CASE DoLookUp(t)
  <2>1. at[t] + 1 \in 1 .. Len(Script[kind[t]]) + 1 /\ at[t] + 2 \in 1 .. Len(Script[kind[t]]) + 1
    BY <1>9, <1>1, NextStep, OnTrack DEF DoLookUp, Connected, Does, Statements
  <2>2. QED
    BY <1>9, <2>1, TypedMove DEF DoLookUp
<1>10. CASE DoKey(t)
  BY <1>10, <1>1, <1>2, TypedMove DEF DoKey, Connected, Does, Advance, Quit
<1>11. CASE DoCommit(t)
  BY <1>11, <1>1, <1>3, TypedMove DEF DoCommit, Connected, Does, Advance
<1>12. CASE DoLeave(t)
  <2>1. CASE t \in leaving /\ leaving' = leaving \ {t} /\ UNCHANGED at
    <3>1. at' = [at EXCEPT ![t] = at[t]]
      BY <2>1
    <3>2. QED
      BY <3>1, <2>1, <1>12, <1>1, <1>3, TypedMove DEF DoLeave
  <2>2. CASE Does(t, "leave") /\ Advance(t)
    BY <2>2, <1>12, <1>1, <1>3, TypedMove DEF DoLeave, Does, Advance
  <2>3. QED
    BY <1>12, <2>1, <2>2 DEF DoLeave
<1>13. CASE DoCall(t)
  BY <1>13, <1>1, <1>2, TypedMove DEF DoCall, Does, Advance
<1>14. CASE Arrive(t)
  BY <1>14, <1>1, TypedMove DEF Arrive, Does, Advance
<1>15. CASE Raise(t)
  BY <1>15, <1>1, <1>2, <1>3a, TypedMove DEF Raise, Quit
<1>16. QED
  BY <1>4, <1>5, <1>6, <1>7, <1>8, <1>9, <1>10, <1>11, <1>12, <1>13, <1>14, <1>15 DEF Work

LEMMA TypeCrash ==
  ASSUME TypeOK, NEW p, Crash(p)
  PROVE  TypeOK'
<1>1. PICK dead : dead = {t \in Tasks : Process(t) = p}
  OBVIOUS
<1>2. holder' \in [Locks -> pooled' \cup {Nobody}]
  BY <1>1 DEF Crash, Freed, TypeOK
<1>3. at' \in [Tasks -> Nat] /\ \A t \in Tasks : at'[t] \in 1 .. Len(Script[kind[t]]) + 1
  BY <1>1, OnTrack DEF Crash, TypeOK
<1>4. leaving' \subseteq Tasks /\ pooled' \subseteq Tasks /\ queued' = queued /\ kind' = kind
  BY <1>1 DEF Crash, TypeOK
<1>5. crashes' \in 0 .. MaxCrashes
  BY SessionsAssumption DEF Crash, TypeOK
<1>6. QED
  BY <1>2, <1>3, <1>4, <1>5 DEF TypeOK

LEMMA TypeStep == TypeOK /\ [Next]_vars => TypeOK'
<1> SUFFICES ASSUME TypeOK, [Next]_vars PROVE TypeOK'
  OBVIOUS
<1>1. CASE UNCHANGED vars
  BY <1>1 DEF vars, TypeOK
<1>2. QED
  BY <1>1, TypeWork, TypeCrash DEF Next

THEOREM TypeCorrect == Spec => []TypeOK
  BY TypeInit, TypeStep, PTL DEF Spec

-----------------------------------------------------------------------------
(* Where a task that holds something is.                                   *)

(* With a connection a task is inside a block; with a lock, about to       *)
(* commit or to take a higher lock.                                        *)
Placed(t) ==
  t \notin leaving =>
    /\ t \in pooled => at[t] <= Len(Script[kind[t]]) /\ Upcoming(t).do \in InBlock
    /\ \A r \in Locks : holder[r] = t =>
         \/ Upcoming(t).do = "commit"
         \/ Upcoming(t).do \in Locking /\ Rank[r] < Rank[Upcoming(t).on]

AllPlaced == \A t \in Tasks : Placed(t)

LEMMA PlacedInit == Init => AllPlaced
  BY SessionsAssumption DEF Init, AllPlaced, Placed

(* A step of one task leaves the others where they are.                    *)
LEMMA OthersStay ==
  ASSUME TypeOK, NEW t \in Tasks, Work(t) \/ Raise(t), NEW u \in Tasks, u # t
  PROVE  /\ kind' = kind
         /\ at'[u] = at[u]
         /\ u \in leaving' <=> u \in leaving
         /\ u \in pooled' <=> u \in pooled
         /\ \A r \in Locks : holder'[r] = u <=> holder[r] = u
<1> USE DEF TypeOK
<1>0. u # Nobody
  BY SessionsAssumption
<1>1. \A r \in Locks : Freed({t})[r] = u <=> holder[r] = u
  BY <1>0 DEF Freed
<1>2. CASE CheckOut(t)
  BY <1>2 DEF CheckOut
<1>3. CASE DoQuery(t) \/ DoInsert(t) \/ DoLookUp(t) \/ DoCall(t) \/ Arrive(t)
  BY <1>3 DEF DoQuery, DoInsert, DoLookUp, DoCall, Arrive, Advance, Quit
<1>4. CASE DoLock(t) \/ DoTake(t) \/ DoKey(t)
  BY <1>4, <1>0 DEF DoLock, DoTake, DoKey, Advance, Quit
<1>5. CASE DoCommit(t) \/ DoLeave(t)
  BY <1>5, <1>1 DEF DoCommit, DoLeave, Advance
<1>6. CASE Raise(t)
  BY <1>6, <1>1 DEF Raise, Quit
<1>7. QED
  BY <1>2, <1>3, <1>4, <1>5, <1>6 DEF Work

LEMMA OthersPlaced ==
  ASSUME TypeOK, NEW t \in Tasks, Work(t) \/ Raise(t), NEW u \in Tasks, u # t, Placed(u)
  PROVE  Placed(u)'
  BY OthersStay DEF Placed, Upcoming

(* A task that has given everything back is placed wherever it is.         *)
LEMMA EmptyHanded ==
  ASSUME NEW t \in Tasks, t \notin pooled', \A r \in Locks : holder'[r] # t
  PROVE  Placed(t)'
  BY DEF Placed

LEMMA OwnPlaced ==
  ASSUME TypeOK, NEW t \in Tasks, Work(t) \/ Raise(t), Placed(t)
  PROVE  Placed(t)'
<1>0. /\ t # Nobody
      /\ at[t] \in Nat /\ Len(Script[kind[t]]) \in Nat
      /\ Goes(t) => at[t] \in 1 .. Len(Script[kind[t]])
      /\ at \in [Tasks -> Nat]
  BY OnTrack, SessionsAssumption DEF TypeOK
<1>1. t \in leaving' => Placed(t)'
  BY DEF Placed
<1>2. t \notin pooled => \A r \in Locks : holder[r] # t
  BY <1>0 DEF TypeOK
<1>3. CASE CheckOut(t)
  <2>1. Goes(t) /\ Upcoming(t).do \in Statements /\ \A r \in Locks : holder[r] # t
    BY <1>3, <1>2 DEF CheckOut, AtStatement
  <2>2. Upcoming(t)' = Upcoming(t) /\ holder' = holder /\ at' = at /\ kind' = kind
    BY <1>3 DEF CheckOut, Upcoming
  <2>3. QED
    BY <2>1, <2>2, <1>0 DEF Placed, InBlock
(* The statements: what follows is in the block, and locks are followed as *)
(* Orderly says.                                                           *)
<1>4. CASE DoQuery(t) \/ DoInsert(t) \/ DoLock(t) \/ DoTake(t) \/ DoLookUp(t) \/ DoKey(t)
  <2>1. Goes(t) /\ Upcoming(t).do \in Statements /\ kind' = kind
    BY <1>4 DEF DoQuery, DoInsert, DoLock, DoTake, DoLookUp, DoKey, Connected, Does, Statements
  <2>2. CASE t \in leaving'
    BY <1>1, <2>2
  <2>3. CASE t \notin leaving' /\ Upcoming(t).do \in {"query", "insert", "lookup"}
    <3>1. \A r \in Locks : holder[r] # t
      BY <2>1, <2>3 DEF Placed, Goes, Locking
    <3>2. holder' = holder
      BY <1>4, <2>3 DEF DoQuery, DoInsert, DoLock, DoTake, DoLookUp, DoKey, Connected, Does
    <3>3. \/ at'[t] = at[t] + 1
          \/ at'[t] = at[t] + 2 /\ Upcoming(t).do = "lookup"
      BY <1>4, <1>0, <2>3 DEF DoQuery, DoInsert, DoLock, DoTake, DoLookUp, DoKey, Connected, Does,
                              Advance, Quit
    <3>4. at'[t] <= Len(Script[kind[t]]) /\ Script[kind[t]][at'[t]].do \in InBlock
      BY <3>3, <2>1, <1>0, NextStep
    <3>5. QED
      BY <3>1, <3>2, <3>4, <2>1 DEF Placed, Upcoming
  <2>4. CASE t \notin leaving' /\ Upcoming(t).do \in Locking
    <3>1. at'[t] = at[t] + 1
      BY <1>4, <1>0, <2>4 DEF DoQuery, DoInsert, DoLock, DoTake, DoLookUp, DoKey, Connected, Does,
                              Advance, Quit, Locking
    <3>2. \A r \in Locks : holder'[r] = t => holder[r] = t \/ r = Upcoming(t).on
      BY <1>4, <2>4 DEF DoQuery, DoInsert, DoLock, DoTake, DoLookUp, DoKey, Connected, Does,
                        Locking, TypeOK
    <3>3. PICK now : now = Upcoming(t)
      OBVIOUS
    <3>4. PICK next : next = Script[kind[t]][at[t] + 1]
      OBVIOUS
    <3>5. /\ at'[t] <= Len(Script[kind[t]]) /\ next.do \in InBlock
          /\ now.on \in Locks
          /\ \/ next.do = "commit"
             \/ next.do \in Locking /\ next.on \in Locks /\ Rank[now.on] < Rank[next.on]
      BY <3>1, <3>3, <3>4, <2>1, <2>4, <1>0, NextStep
    <3>6. \A r \in Locks : holder[r] = t => Rank[r] < Rank[now.on]
      BY <2>1, <2>4, <3>3 DEF Placed, Goes, Locking
    <3>7. \A r \in Locks : holder'[r] = t =>
            next.do = "commit" \/ (next.do \in Locking /\ Rank[r] < Rank[next.on])
      <4>1. CASE next.do = "commit"
        BY <4>1
      <4>2. CASE next.do # "commit"
        <5>1. next.do \in Locking /\ next.on \in Locks /\ Rank[now.on] < Rank[next.on]
          BY <3>5, <4>2
        <5>2. \A r \in Locks : holder'[r] = t => r = now.on \/ Rank[r] < Rank[now.on]
          BY <3>2, <3>3, <3>6
        <5>3. \A r \in Locks : Rank[r] \in Int
          BY LockRanks
        <5>4. QED
          BY <5>1, <5>2, <5>3, <3>5
      <4>3. QED
        BY <4>1, <4>2
    <3>8. Upcoming(t)' = next
      BY <3>1, <3>4, <2>1 DEF Upcoming
    <3>9. QED
      BY <3>5, <3>7, <3>8, <2>1 DEF Placed
  <2>5. QED
    BY <2>1, <2>2, <2>3, <2>4 DEF Statements, Locking
<1>5. CASE DoCommit(t) \/ DoLeave(t)
  <2>1. t \notin pooled' /\ \A r \in Locks : holder'[r] # t
    BY <1>5, <1>0 DEF DoCommit, DoLeave, Freed, TypeOK
  <2>2. QED
    BY <2>1, EmptyHanded
<1>6. CASE DoCall(t) \/ Arrive(t)
  <2>1. t \notin leaving /\ Upcoming(t).do \notin InBlock
    BY <1>6 DEF DoCall, Arrive, Does, Goes, InBlock, Statements
  <2>2. t \notin pooled /\ \A r \in Locks : holder[r] # t
    BY <2>1, <1>2 DEF Placed
  <2>3. QED
    BY <2>2, <1>6, EmptyHanded DEF DoCall, Arrive
<1>7. CASE Raise(t)
  BY <1>1, <1>7 DEF Raise, Quit
<1>8. QED
  BY <1>3, <1>4, <1>5, <1>6, <1>7 DEF Work

LEMMA CrashPlaced ==
  ASSUME TypeOK, AllPlaced, NEW p, Crash(p), NEW u \in Tasks
  PROVE  Placed(u)'
<1>1. PICK dead : dead = {t \in Tasks : Process(t) = p}
  OBVIOUS
<1>2. u # Nobody
  BY SessionsAssumption
<1>3. CASE u \in dead
  <2>1. u \notin pooled' /\ \A r \in Locks : holder'[r] # u
    BY <1>1, <1>2, <1>3 DEF Crash, Freed, TypeOK
  <2>2. QED
    BY <2>1, EmptyHanded
<1>4. CASE u \notin dead
  <2>1. /\ kind' = kind /\ at'[u] = at[u]
        /\ u \in leaving' <=> u \in leaving
        /\ u \in pooled' <=> u \in pooled
    BY <1>1, <1>4 DEF Crash
  <2>2. \A r \in Locks : holder'[r] = u => holder[r] = u
    BY <1>1, <1>2 DEF Crash, Freed, TypeOK
  <2>3. QED
    BY <2>1, <2>2 DEF AllPlaced, Placed, Upcoming
<1>5. QED
  BY <1>3, <1>4

LEMMA PlacedStep == TypeOK /\ AllPlaced /\ [Next]_vars => AllPlaced'
<1> SUFFICES ASSUME TypeOK, AllPlaced, [Next]_vars, NEW u \in Tasks PROVE Placed(u)'
  BY DEF AllPlaced
<1>1. CASE UNCHANGED vars
  BY <1>1 DEF vars, AllPlaced, Placed, Upcoming
<1>2. ASSUME NEW t \in Tasks, Work(t) \/ Raise(t)
      PROVE  Placed(u)'
  <2>1. CASE u = t
    BY <1>2, <2>1, OwnPlaced DEF AllPlaced
  <2>2. CASE u # t
    BY <1>2, <2>2, OthersPlaced DEF AllPlaced
  <2>3. QED
    BY <2>1, <2>2
<1>3. QED
  BY <1>1, <1>2, CrashPlaced DEF Next

LEMMA PlacedHolds == Spec => []AllPlaced
  BY PlacedInit, PlacedStep, TypeCorrect, PTL DEF Spec

-----------------------------------------------------------------------------
(* The theorems.                                                           *)

(* No task sits on a connection or a lock during a call to the AI, to      *)
(* Google or to Telegram, or after its end, however it got there.          *)
THEOREM NothingHeldOutside == Spec => []OutsideHoldsNothing
<1>1. TypeOK /\ AllPlaced => OutsideHoldsNothing
  <2> SUFFICES ASSUME TypeOK, AllPlaced, NEW t \in Tasks,
                      Ended(t) \/ Does(t, "call") \/ Does(t, "try")
               PROVE  t \notin pooled /\ Held(t) = {}
    BY DEF OutsideHoldsNothing
  <2>1. t \notin pooled
    BY OnTrack DEF AllPlaced, Placed, Ended, Does, Goes, InBlock, Statements
  <2>2. \A r \in Locks : holder[r] # t
    BY <2>1, SessionsAssumption DEF TypeOK
  <2>3. QED
    BY <2>1, <2>2 DEF Held
<1>2. QED
  BY <1>1, TypeCorrect, PlacedHolds, PTL

(* A task that waits for a lock, in a group that waits for itself: the     *)
(* holder is in the group, has a connection, and waits for a higher lock.  *)
LEMMA Climb ==
  ASSUME TypeOK, AllPlaced,
         NEW D \in SUBSET Tasks, \A t \in D : Waits(t) /\ WaitsFor(t) \subseteq D,
         NEW u \in D \cap pooled
  PROVE  \E v \in D \cap pooled : /\ Rank[Upcoming(u).on] \in 1 .. 3
                                  /\ Rank[Upcoming(v).on] \in 1 .. 3
                                  /\ Rank[Upcoming(u).on] < Rank[Upcoming(v).on]
<1>1. \A w \in D \cap pooled :
        /\ Goes(w) /\ Upcoming(w).do \in {"lock", "key"}
        /\ holder[Upcoming(w).on] \notin {Nobody, w} /\ holder[Upcoming(w).on] \in D
        /\ Upcoming(w).on \in Locks
  <2> SUFFICES ASSUME NEW w \in D \cap pooled
               PROVE  /\ Goes(w) /\ Upcoming(w).do \in {"lock", "key"}
                      /\ holder[Upcoming(w).on] \notin {Nobody, w} /\ holder[Upcoming(w).on] \in D
                      /\ Upcoming(w).on \in Locks
    OBVIOUS
  <2>1. /\ Goes(w) /\ Upcoming(w).do \in {"lock", "key"}
        /\ holder[Upcoming(w).on] \notin {Nobody, w} /\ holder[Upcoming(w).on] \in D
    BY DEF Waits, WaitsFor, AtStatement
  <2>2. Upcoming(w).do \in Statements /\ Upcoming(w).do \in Locking
    BY <2>1 DEF Statements, Locking
  <2>3. QED
    BY <2>1, <2>2, NextStep
<1>2. PICK q : q = Upcoming(u).on
  OBVIOUS
<1>3. PICK v : v = holder[q]
  OBVIOUS
<1>4. q \in Locks /\ v \in D \cap pooled
  BY <1>1, <1>2, <1>3 DEF TypeOK
<1>5. Goes(v) /\ Upcoming(v).do \in {"lock", "key"} /\ Upcoming(v).on \in Locks
  BY <1>1, <1>4
<1>6. Rank[q] < Rank[Upcoming(v).on]
  BY <1>3, <1>4, <1>5 DEF AllPlaced, Placed, Goes
<1>7. QED
  BY <1>2, <1>4, <1>5, <1>6, LockRanks

(* Tasks that wait for locks and for connections never wait in a circle,   *)
(* however many there are and however few connections: the use cases lock  *)
(* in one order and open one block at a time.                              *)
THEOREM DeadlockFree == Spec => []NoDeadlock
<1>1. TypeOK /\ AllPlaced => NoDeadlock
  <2> SUFFICES ASSUME TypeOK, AllPlaced, NEW D \in SUBSET Tasks, D # {},
                      \A t \in D : Waits(t) /\ WaitsFor(t) \subseteq D
               PROVE  FALSE
    BY DEF NoDeadlock
  <2>1. D \cap pooled # {}
    <3>1. PICK t \in D : TRUE
      OBVIOUS
    <3>2. CASE t \in pooled
      BY <3>1, <3>2
    <3>3. CASE t \notin pooled
      <4>1. Cardinality(Colleagues(t)) >= PoolSize /\ Colleagues(t) \subseteq D
        BY <3>1, <3>3 DEF Waits, WaitsFor
      <4>2. Colleagues(t) # {}
        BY <4>1, SessionsAssumption, FS_EmptySet
      <4>3. QED
        BY <4>1, <4>2 DEF Colleagues
    <3>4. QED
      BY <3>2, <3>3
  <2>2. \A u \in D \cap pooled :
          \E v \in D \cap pooled : /\ Rank[Upcoming(u).on] \in 1 .. 3
                                   /\ Rank[Upcoming(v).on] \in 1 .. 3
                                   /\ Rank[Upcoming(u).on] < Rank[Upcoming(v).on]
    BY Climb
  <2>3. PICK h : h = [u \in D \cap pooled |-> Rank[Upcoming(u).on]]
    OBVIOUS
  <2>4. \A u \in D \cap pooled :
          \E v \in D \cap pooled : h[u] \in 1 .. 3 /\ h[v] \in 1 .. 3 /\ h[u] < h[v]
    BY <2>2, <2>3
  <2>5. PICK u1 \in D \cap pooled : h[u1] \in 1 .. 3
    BY <2>1, <2>4
  <2>6. PICK u2 \in D \cap pooled : h[u2] \in 2 .. 3
    BY <2>4, <2>5
  <2>7. PICK u3 \in D \cap pooled : h[u3] = 3
    BY <2>4, <2>6
  <2>8. QED
    BY <2>4, <2>7
<1>2. QED
  BY <1>1, TypeCorrect, PlacedHolds, PTL
=============================================================================
