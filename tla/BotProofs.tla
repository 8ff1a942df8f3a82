----------------------------- MODULE BotProofs ------------------------------
(***************************************************************************)
(* Theorems about Bot, for any number of updates, messages, leads and      *)
(* proposals, and any bounds on losses and on strangers.                   *)
(***************************************************************************)
EXTENDS Bot, TLAPS, FiniteSetTheorems, SequenceTheorems

-----------------------------------------------------------------------------
(* Types, and what the names in updates and buttons are names of.          *)

Update == {Nothing} \cup
            [kind : Kinds, id : Messages \cup Leads \cup Proposals, allowed : BOOLEAN]

AButton == [kind : Kinds \ {"text"}, id : Leads \cup Proposals]

LeadStatus == {"none", "new", "qualifying", "qualified", "proposal_sent", "answered"}

ARow == [lead : Leads \cup {None}, text : BOOLEAN,
         status : {"none", "draft", "sent", "answered"}]

\* An update is waiting when its place in the queue is behind the fetched ones.
Waits(u) == \E i \in fetched + 1 .. Len(queue) : queue[i] = u

QueueTyped ==
  /\ queue \in Seq(Updates)
  /\ fetched \in 0 .. Len(queue)
  /\ \A u \in Updates : step[u] = "waiting" <=> Waits(u)

UpdatesTyped ==
  /\ update \in [Updates -> Update]
  /\ step \in [Updates -> Steps]
  /\ made \in [Updates -> Leads \cup Proposals \cup {None}]

RowsTyped ==
  /\ lead \in [Leads -> LeadStatus]
  /\ cameFrom \in [Leads -> Messages \cup {None}]
  /\ proposal \in [Proposals -> ARow]
  /\ followUp \in [Proposals -> {"none", "pending", "sent"}]
  /\ job \in [{"publish", "remind"} -> [Proposals -> {"none", "open", "done", "failed"}]]

ShownTyped == buttons \subseteq AButton /\ due \subseteq AButton

BoundsTyped ==
  /\ written \subseteq Messages
  /\ strange \in 0 .. MaxStrange
  /\ losses \in 0 .. MaxLosses
  /\ crashes \in 0 .. losses

Request == [kind : Kinds, id : Messages \cup Leads \cup Proposals]

LostTyped == lost \subseteq Request

LEMMA TypeParts ==
  TypeOK <=> QueueTyped /\ UpdatesTyped /\ RowsTyped /\ ShownTyped /\ BoundsTyped /\ LostTyped
<1>1. buttons \cup due \subseteq AButton <=> ShownTyped
  BY DEF ShownTyped
<1> QED
  BY <1>1 DEF TypeOK, QueueTyped, UpdatesTyped, RowsTyped, ShownTyped, BoundsTyped, LostTyped,
         Request, Update, AButton, LeadStatus, ARow, Waits

\* No update is twice in the queue, and the record of one that is in it is in use.
QueueInv ==
  /\ \A i, j \in 1 .. Len(queue) : queue[i] = queue[j] => i = j
  /\ \A i \in 1 .. Len(queue) : step[queue[i]] # "free"

\* What the id of an update or a button names.
Named(kind, id) ==
  /\ kind = "text" => id \in Messages
  /\ kind \in {"confirm", "propose"} => id \in Leads
  /\ kind \in {"publish", "mark_sent", "outcome"} => id \in Proposals

NamesInv ==
  /\ \A u \in Updates : Named(update[u].kind, update[u].id)
  /\ \A b \in buttons : Named(b.kind, b.id)

\* What the row is that a handler made.
MadeRow(u) ==
  /\ step[u] = "extract" => update[u].kind = "text"
  /\ step[u] = "write" => update[u].kind = "propose"
  /\ step[u] \in {"extract", "reply"} /\ update[u].kind = "text" => made[u] \in Leads
  /\ step[u] \in {"write", "reply"} /\ update[u].kind = "propose" => made[u] \in Proposals

MadeInv == \A u \in Updates : MadeRow(u)

BotInv == TypeOK /\ QueueInv /\ NamesInv /\ MadeInv

-----------------------------------------------------------------------------
(* What a step of a handler does to its update.                            *)

Busy  == {"start", "extract", "write", "insert", "reply", "raised"}
After == {"free", "extract", "write", "insert", "reply", "raised", "done"}

\* The handler of u goes on to `next', or ends: then an update that is no longer
\* in the queue is forgotten.
Moves(u, next) ==
  /\ step[u] \in Busy
  /\ next \in After
  /\ step' = [step EXCEPT ![u] = next]
  /\ next = "free" => u \notin Range(queue)
  /\ \A v \in Updates \ {u} : update'[v] = update[v] /\ made'[v] = made[v]
  /\ update' \in [Updates -> Update] /\ DOMAIN made' = Updates
  /\ update'[u] = IF next = "free" THEN Nothing ELSE update[u]
  /\ UNCHANGED <<queue, fetched, written, strange, crashes>>

\* A step that keeps the updates' records goes on.
LEMMA GotoMoves ==
  ASSUME UpdatesTyped, NEW u \in Updates, NEW next \in After \ {"free"}, step[u] \in Busy,
         Goto(u, next), UNCHANGED <<queue, fetched, written, strange, crashes>>,
         DOMAIN made' = Updates, \A v \in Updates \ {u} : made'[v] = made[v]
  PROVE  Moves(u, next)
  BY DEF Goto, Moves, UpdatesTyped

LEMMA EndMoves ==
  ASSUME UpdatesTyped, NEW u \in Updates, step[u] \in Busy,
         End(u), UNCHANGED <<queue, fetched, written, strange, crashes>>
  PROVE  /\ \E next \in {"free", "done"} : Moves(u, next)
         /\ made' \in [Updates -> Leads \cup Proposals \cup {None}]
<1>1. CASE u \in Range(queue)
  <2>1. Goto(u, "done") /\ made' = made
    BY <1>1 DEF End
  <2>2. Moves(u, "done")
    BY <2>1, GotoMoves DEF After, UpdatesTyped
  <2> QED
    BY <2>1, <2>2 DEF UpdatesTyped
<1>2. CASE u \notin Range(queue)
  <2>1. step' = [step EXCEPT ![u] = "free"] /\ Forget({u})
    BY <1>2 DEF End
  <2>2. /\ update' = [v \in Updates |-> IF v = u THEN Nothing ELSE update[v]]
        /\ made' = [v \in Updates |-> IF v = u THEN None ELSE made[v]]
    BY <2>1 DEF Forget
  <2>3. Nothing \in Update
    BY DEF Update
  <2>4. Moves(u, "free")
    BY <1>2, <2>1, <2>2, <2>3 DEF Moves, After, UpdatesTyped
  <2> QED
    BY <2>2, <2>4 DEF UpdatesTyped
<1> QED
  BY <1>1, <1>2

\* The steps of a handler that end it, write no row, and those that write one.
Ending(u)  == (\E kind \in Kinds : Refuse(u, kind)) \/ Escape(u) \/ Reply(u) \/ ReplyFails(u)
Passing(u) ==
  \/ \E kind \in Kinds : TransactionFails(u, kind)
  \/ LookUpJob(u) \/ InsertRefused(u) \/ StillWaiting(u)
Writing(u) ==
  \/ CreateLead(u) \/ ExtractLead(u) \/ QualifyLead(u) \/ CreateProposal(u) \/ WriteText(u)
  \/ InsertJob(u) \/ MarkSent(u) \/ RecordResult(u)

LEMMA HandleKinds ==
  ASSUME NEW u, Handle(u) PROVE Ending(u) \/ Passing(u) \/ Writing(u)
<1>1. {"text", "confirm", "propose", "publish", "mark_sent", "outcome"} = Kinds
  BY DEF Kinds
<1>2. CASE OnText(u)
  BY <1>1, <1>2 DEF OnText, Ending, Passing, Writing
<1>3. CASE OnConfirm(u)
  BY <1>1, <1>3 DEF OnConfirm, CannotQualify, Ending, Passing, Writing
<1>4. CASE OnPropose(u)
  BY <1>1, <1>4 DEF OnPropose, NotQualified, Ending, Passing, Writing
<1>5. CASE OnPublish(u)
  BY <1>1, <1>5 DEF OnPublish, NotReady, Ending, Passing, Writing
<1>6. CASE OnMarkSent(u)
  BY <1>1, <1>6 DEF OnMarkSent, NotInDraft, Ending, Passing, Writing
<1>7. CASE OnOutcome(u)
  BY <1>1, <1>7 DEF OnOutcome, NotSent, Ending, Passing, Writing
<1> QED
  BY <1>2, <1>3, <1>4, <1>5, <1>6, <1>7 DEF Handle, Ending

LEMMA EndingMoves ==
  ASSUME UpdatesTyped, NEW u \in Updates, Ending(u)
  PROVE  /\ \E next \in {"free", "done"} : Moves(u, next)
         /\ made' \in [Updates -> Leads \cup Proposals \cup {None}]
         /\ step[u] \in {"start", "reply", "raised"}
<1>1. /\ step[u] \in {"start", "reply", "raised"} /\ End(u)
      /\ UNCHANGED <<queue, fetched, written, strange, crashes>>
  <2>1. CASE Reply(u) \/ ReplyFails(u)
    BY <2>1 DEF Reply, ReplyFails, bounds, history
  <2>2. CASE Escape(u)
    BY <2>2 DEF Escape, bounds, history
  <2>3. ASSUME NEW kind \in Kinds, Refuse(u, kind)
        PROVE  /\ step[u] \in {"start", "reply", "raised"} /\ End(u)
               /\ UNCHANGED <<queue, fetched, written, strange, crashes>>
    BY <2>3 DEF Refuse, At, bounds, history
  <2> QED
    BY <2>1, <2>2, <2>3 DEF Ending
<1> QED
  BY <1>1, EndMoves DEF Busy

LEMMA PassingMoves ==
  ASSUME UpdatesTyped, NEW u \in Updates, Passing(u)
  PROVE  /\ \E next \in {"insert", "reply", "raised"} :
              /\ Moves(u, next)
              /\ next = "reply" => update[u].kind \in {"publish", "outcome"}
         /\ made' = made
         /\ UNCHANGED <<rows, buttons>>
<1> DEFINE Goes(next) == /\ Goto(u, next)
                         /\ next = "reply" => update[u].kind \in {"publish", "outcome"}
<1>1. /\ made' = made
      /\ UNCHANGED <<rows, buttons>>
      /\ UNCHANGED <<queue, fetched, written, strange, crashes>>
      /\ step[u] \in Busy
  BY DEF Passing, TransactionFails, LookUpJob, InsertRefused, StillWaiting, Step, At, bounds,
         history, Busy
<1>2. \E next \in {"insert", "reply", "raised"} : Goes(next)
  <2>1. CASE \E kind \in Kinds : TransactionFails(u, kind)
    BY <2>1 DEF TransactionFails
  <2>2. CASE LookUpJob(u)
    <3>1. CASE job["publish"][Told(u)] = "none"
      BY <2>2, <3>1 DEF LookUpJob, Step, At
    <3>2. CASE job["publish"][Told(u)] # "none"
      BY <2>2, <3>2 DEF LookUpJob, Step, At
    <3> QED
      BY <3>1, <3>2
  <2>3. CASE InsertRefused(u)
    BY <2>3 DEF InsertRefused, Step
  <2>4. CASE StillWaiting(u)
    BY <2>4 DEF StillWaiting, Step, At
  <2> QED
    BY <2>1, <2>2, <2>3, <2>4 DEF Passing
<1>3. DOMAIN made' = Updates /\ \A v \in Updates \ {u} : made'[v] = made[v]
  BY <1>1 DEF UpdatesTyped
<1>4. \A next \in {"insert", "reply", "raised"} : next \in After \ {"free"}
  BY DEF After
<1> QED
  BY <1>1, <1>2, <1>3, <1>4, GotoMoves

\* Where a handler that writes a row goes on, and what row it made.
LEMMA WritingMoves ==
  ASSUME UpdatesTyped, MadeInv, NEW u \in Updates, Writing(u)
  PROVE  /\ \E next \in {"extract", "write", "reply"} :
              /\ Moves(u, next)
              /\ next = "extract" => update[u].kind = "text"
              /\ next = "write" => update[u].kind = "propose"
         /\ made' \in [Updates -> Leads \cup Proposals \cup {None}]
         /\ update[u].kind = "text" => made'[u] \in Leads
         /\ update[u].kind = "propose" => made'[u] \in Proposals
         /\ UNCHANGED <<buttons, due, lost, losses>>
<1> DEFINE Goes(next) == /\ Goto(u, next)
                         /\ next = "extract" => update[u].kind = "text"
                         /\ next = "write" => update[u].kind = "propose"
<1>1. /\ step[u] \in Busy
      /\ UNCHANGED <<buttons, due, lost, losses>>
      /\ UNCHANGED <<queue, fetched, written, strange, crashes>>
  BY DEF Writing, CreateLead, ExtractLead, QualifyLead, CreateProposal, WriteText, InsertJob,
         MarkSent, RecordResult, Commit, At, bounds, history, Busy
<1>2. \E next \in {"extract", "write", "reply"} : Goes(next)
  BY DEF Writing, CreateLead, ExtractLead, QualifyLead, CreateProposal, WriteText, InsertJob,
         MarkSent, RecordResult, Commit, At
<1>3. /\ made' \in [Updates -> Leads \cup Proposals \cup {None}]
      /\ \A v \in Updates \ {u} : made'[v] = made[v]
      /\ update[u].kind = "text" => made'[u] \in Leads
      /\ update[u].kind = "propose" => made'[u] \in Proposals
  <2>1. made \in [Updates -> Leads \cup Proposals \cup {None}] /\ MadeRow(u)
    BY DEF UpdatesTyped, MadeInv
  <2>2. CASE CreateLead(u)
    <3>1. update[u].kind = "text" /\ \E l \in Leads : made' = [made EXCEPT ![u] = l]
      BY <2>2 DEF CreateLead, Commit, At
    <3> QED
      BY <2>1, <3>1
  <2>3. CASE CreateProposal(u)
    <3>1. update[u].kind = "propose" /\ \E p \in Proposals : made' = [made EXCEPT ![u] = p]
      BY <2>3 DEF CreateProposal, Commit, At
    <3> QED
      BY <2>1, <3>1
  <2>4. CASE ExtractLead(u) \/ WriteText(u)
    BY <2>1, <2>4 DEF ExtractLead, WriteText, Commit, At, MadeRow
  <2>5. CASE QualifyLead(u) \/ InsertJob(u) \/ MarkSent(u) \/ RecordResult(u)
    BY <2>1, <2>5 DEF QualifyLead, InsertJob, MarkSent, RecordResult, Commit, At
  <2> QED
    BY <2>2, <2>3, <2>4, <2>5 DEF Writing
<1>4. \A next \in {"extract", "write", "reply"} : next \in After \ {"free"}
  BY DEF After
<1>5. DOMAIN made' = Updates
  BY <1>3
<1> QED
  BY <1>1, <1>2, <1>3, <1>4, <1>5, GotoMoves

\* So a handler's step moves its own update only.
LEMMA HandleMoves ==
  ASSUME UpdatesTyped, MadeInv, NEW u \in Updates, Ending(u) \/ Passing(u) \/ Writing(u)
  PROVE  /\ \E next \in After : Moves(u, next)
         /\ made' \in [Updates -> Leads \cup Proposals \cup {None}]
<1>1. \A next \in {"free", "done", "insert", "reply", "raised", "extract", "write"} : next \in After
  BY DEF After
<1>2. CASE Ending(u)
  BY <1>1, <1>2, EndingMoves
<1>3. CASE Passing(u)
  BY <1>1, <1>3, PassingMoves DEF UpdatesTyped
<1>4. CASE Writing(u)
  BY <1>1, <1>4, WritingMoves
<1> QED
  BY <1>2, <1>3, <1>4

-----------------------------------------------------------------------------
(* The queue and the handlers' places.                                     *)

QueueOK == QueueTyped /\ QueueInv

LEMMA QueueElement ==
  ASSUME QueueTyped, NEW i \in 1 .. Len(queue) PROVE queue[i] \in Updates
  BY DEF QueueTyped

LEMMA InRange ==
  ASSUME QueueTyped, NEW u
  PROVE  u \in Range(queue) <=> \E i \in 1 .. Len(queue) : queue[i] = u
<1>1. DOMAIN queue = 1 .. Len(queue)
  BY DEF QueueTyped
<1> QED
  BY <1>1 DEF Range

LEMMA HandleQueue ==
  ASSUME UpdatesTyped, QueueOK, NEW u \in Updates, NEW next \in After, Moves(u, next)
  PROVE  QueueOK'
<1>1. UNCHANGED <<queue, fetched>> /\ step' = [step EXCEPT ![u] = next] /\ step[u] \in Busy
  BY DEF Moves
<1>2. \A v \in Updates : Waits(v)' <=> Waits(v)
  BY <1>1 DEF Waits
<1>3. step'[u] = next /\ \A v \in Updates \ {u} : step'[v] = step[v]
  BY <1>1 DEF UpdatesTyped
<1>4. \A v \in Updates : step'[v] = "waiting" <=> Waits(v)
  <2>1. step[u] # "waiting" /\ next # "waiting"
    BY <1>1 DEF Busy, After
  <2> QED
    BY <1>3, <2>1 DEF QueueOK, QueueTyped
<1>5. QueueTyped'
  BY <1>1, <1>2, <1>4 DEF QueueOK, QueueTyped
<1>6. ASSUME NEW i \in 1 .. Len(queue) PROVE step'[queue[i]] # "free"
  <2>1. queue[i] \in Updates /\ step[queue[i]] # "free"
    BY <1>6, QueueElement DEF QueueOK, QueueInv
  <2>2. CASE queue[i] = u
    <3>1. u \in Range(queue)
      BY <1>6, <2>2, InRange DEF QueueOK
    <3> QED
      BY <1>3, <2>2, <3>1 DEF Moves
  <2> QED
    BY <1>3, <2>1, <2>2
<1>7. QueueInv'
  BY <1>1, <1>6 DEF QueueOK, QueueInv
<1> QED
  BY <1>5, <1>7 DEF QueueOK

\* What the operator's or a stranger's update is, and which record it takes.
LEMMA Arrival ==
  ASSUME NEW kind, NEW id, NEW allowed, Arrive(kind, id, allowed)
  PROVE  \E u \in Updates :
           /\ step[u] = "free"
           /\ update' = [update EXCEPT ![u] = [kind |-> kind, id |-> id, allowed |-> allowed]]
           /\ step' = [step EXCEPT ![u] = "waiting"]
           /\ queue' = Append(queue, u)
           /\ fetched' = fetched
  BY DEF Arrive

LEMMA ArriveQueue ==
  ASSUME UpdatesTyped, QueueOK, NEW u \in Updates, step[u] = "free",
         step' = [step EXCEPT ![u] = "waiting"], queue' = Append(queue, u), fetched' = fetched
  PROVE  QueueOK'
<1> DEFINE n == Len(queue)
<1>1. queue \in Seq(Updates) /\ n \in Nat /\ fetched \in 0 .. n
  BY DEF QueueOK, QueueTyped
<1>2. /\ queue' \in Seq(Updates) /\ Len(queue') = n + 1
      /\ \A i \in 1 .. n : queue'[i] = queue[i]
      /\ queue'[n + 1] = u
  BY <1>1, AppendProperties
<1>3. \A i \in 1 .. n : queue[i] # u /\ queue[i] \in Updates
  BY QueueElement DEF QueueOK, QueueInv
<1>4. step'[u] = "waiting" /\ \A v \in Updates \ {u} : step'[v] = step[v]
  BY DEF UpdatesTyped
<1> HIDE DEF n
<1>5. 1 .. n + 1 = (1 .. n) \cup {n + 1} /\ n + 1 \notin 1 .. n
  BY <1>1
<1>6. fetched + 1 .. n + 1 = (fetched + 1 .. n) \cup {n + 1} /\ fetched + 1 .. n \subseteq 1 .. n
  BY <1>1
<1>7. ASSUME NEW v \in Updates PROVE step'[v] = "waiting" <=> Waits(v)'
  <2>1. Waits(v)' <=> \E i \in (fetched + 1 .. n) \cup {n + 1} : queue'[i] = v
    BY <1>2, <1>6 DEF Waits
  <2>2. CASE v = u
    BY <1>2, <1>4, <2>1, <2>2
  <2>3. CASE v # u
    <3>1. Waits(v)' <=> \E i \in fetched + 1 .. n : queue[i] = v
      BY <1>2, <1>6, <2>1, <2>3
    <3>2. step[v] = "waiting" <=> \E i \in fetched + 1 .. n : queue[i] = v
      BY DEF n, QueueOK, QueueTyped, Waits
    <3> QED
      BY <1>4, <2>3, <3>1, <3>2
  <2> QED
    BY <2>2, <2>3
<1>8. fetched' \in 0 .. Len(queue')
  BY <1>1, <1>2
<1>9. QueueTyped'
  BY <1>2, <1>7, <1>8 DEF QueueTyped
<1>10. ASSUME NEW i \in 1 .. n + 1, NEW j \in 1 .. n + 1, queue'[i] = queue'[j] PROVE i = j
  BY <1>2, <1>3, <1>5, <1>10 DEF n, QueueOK, QueueInv
<1>11. ASSUME NEW i \in 1 .. n + 1 PROVE step'[queue'[i]] # "free"
  <2>1. CASE i = n + 1
    BY <1>2, <1>4, <2>1
  <2>2. CASE i \in 1 .. n
    <3>1. step[queue[i]] # "free"
      BY <2>2 DEF n, QueueOK, QueueInv
    <3> QED
      BY <1>2, <1>3, <1>4, <2>2, <3>1
  <2> QED
    BY <1>5, <2>1, <2>2
<1>12. QueueInv'
  BY <1>2, <1>10, <1>11 DEF QueueInv
<1> QED
  BY <1>9, <1>12 DEF QueueOK

\* The updates that a poll forgets, and those it starts.
Gone == {u \in {queue[i] : i \in 1 .. fetched} : step[u] = "done"}
Rest == SubSeq(queue, fetched + 1, Len(queue))

LEMMA RestOfQueue ==
  ASSUME QueueTyped
  PROVE  /\ Rest \in Seq(Updates)
         /\ Len(Rest) = Len(queue) - fetched /\ Len(queue) \in Nat /\ fetched \in Nat
         /\ \A i \in 1 .. Len(Rest) : Rest[i] = queue[fetched + i]
                                      /\ fetched + i \in fetched + 1 .. Len(queue)
                                      /\ fetched + i \in 1 .. Len(queue)
         /\ \A i \in fetched + 1 .. Len(queue) : i - fetched \in 1 .. Len(Rest)
                                                 /\ Rest[i - fetched] = queue[i]
<1>1. queue \in Seq(Updates) /\ Len(queue) \in Nat /\ fetched \in 0 .. Len(queue)
  BY DEF QueueTyped
<1>2. \A i \in fetched + 1 .. Len(queue) : queue[i] \in Updates
  BY <1>1
<1>3. /\ Rest \in Seq(Updates)
      /\ Len(Rest) = IF fetched + 1 <= Len(queue) THEN Len(queue) - (fetched + 1) + 1 ELSE 0
      /\ \A i \in 1 .. Len(queue) - (fetched + 1) + 1 : Rest[i] = queue[fetched + 1 + i - 1]
  BY <1>1, <1>2, SubSeqProperties DEF Rest
<1>4. Len(Rest) = Len(queue) - fetched
  BY <1>1, <1>3
<1>5. ASSUME NEW i \in 1 .. Len(Rest)
      PROVE  /\ Rest[i] = queue[fetched + i] /\ fetched + i \in fetched + 1 .. Len(queue)
             /\ fetched + i \in 1 .. Len(queue)
  <2>1. i \in 1 .. Len(queue) - (fetched + 1) + 1 /\ fetched + 1 + i - 1 = fetched + i
    BY <1>1, <1>4
  <2> QED
    BY <1>1, <1>3, <1>4, <2>1
<1>6. ASSUME NEW i \in fetched + 1 .. Len(queue)
      PROVE  i - fetched \in 1 .. Len(Rest) /\ Rest[i - fetched] = queue[i]
  <2>1. i - fetched \in 1 .. Len(Rest) /\ fetched + (i - fetched) = i
    BY <1>1, <1>4
  <2> QED
    BY <1>5, <2>1
<1> QED
  BY <1>1, <1>3, <1>4, <1>5, <1>6

\* What is behind the fetched ones is what waits.
LEMMA WaitingRest ==
  ASSUME QueueTyped, NEW u \in Updates
  PROVE  /\ step[u] = "waiting" <=> u \in Range(Rest)
         /\ step[u] = "waiting" <=> \E i \in 1 .. Len(Rest) : Rest[i] = u
<1>1. DOMAIN Rest = 1 .. Len(Rest)
  BY RestOfQueue
<1>2. step[u] = "waiting" <=> \E i \in fetched + 1 .. Len(queue) : queue[i] = u
  BY DEF QueueTyped, Waits
<1>3. (\E i \in fetched + 1 .. Len(queue) : queue[i] = u) <=> \E i \in 1 .. Len(Rest) : Rest[i] = u
  BY RestOfQueue
<1> QED
  BY <1>1, <1>2, <1>3 DEF Range

LEMMA PollSteps ==
  ASSUME Poll
  PROVE  \E answered \in BOOLEAN :
           /\ queue' = Rest
           /\ fetched' = IF answered THEN Len(Rest) ELSE 0
           /\ step' = [u \in Updates |->
                IF u \in Gone THEN "free"
                ELSE IF answered /\ u \in Range(Rest) THEN "start" ELSE step[u]]
           /\ Forget(Gone)
           /\ UNCHANGED <<rows, buttons, history, bounds>>
  BY DEF Poll, Rest, Gone

LEMMA PollQueue ==
  ASSUME UpdatesTyped, QueueOK, Poll
  PROVE  QueueOK'
<1>1. PICK answered \in BOOLEAN :
         /\ queue' = Rest
         /\ fetched' = IF answered THEN Len(Rest) ELSE 0
         /\ step' = [u \in Updates |->
              IF u \in Gone THEN "free"
              ELSE IF answered /\ u \in Range(Rest) THEN "start" ELSE step[u]]
  BY PollSteps
<1>2. /\ Rest \in Seq(Updates) /\ Len(Rest) \in Nat
      /\ \A i \in 1 .. Len(Rest) : Rest[i] \in Updates /\ step[Rest[i]] = "waiting"
  BY RestOfQueue, WaitingRest DEF QueueOK
<1>3. \A u \in Gone : step[u] # "waiting"
  BY DEF Gone
<1>4. \A i \in 1 .. Len(Rest) : step'[Rest[i]] # "free"
  BY <1>1, <1>2, <1>3
<1>5. \A i, j \in 1 .. Len(Rest) : Rest[i] = Rest[j] => i = j
  <2> SUFFICES ASSUME NEW i \in 1 .. Len(Rest), NEW j \in 1 .. Len(Rest), Rest[i] = Rest[j]
               PROVE  i = j
    OBVIOUS
  <2>1. fetched + i = fetched + j
    BY RestOfQueue DEF QueueOK, QueueInv
  <2> QED
    BY <2>1, RestOfQueue DEF QueueOK
<1>6. ASSUME NEW u \in Updates PROVE step'[u] = "waiting" <=> Waits(u)'
  <2>1. Waits(u)' <=> \E i \in fetched' + 1 .. Len(Rest) : Rest[i] = u
    BY <1>1 DEF Waits
  <2>2. CASE answered
    <3>1. ~Waits(u)'
      BY <1>1, <1>2, <2>1, <2>2
    <3>2. step'[u] # "waiting"
      BY <1>1, <2>2, WaitingRest DEF QueueOK
    <3> QED
      BY <3>1, <3>2
  <2>3. CASE ~answered
    <3>1. Waits(u)' <=> \E i \in 1 .. Len(Rest) : Rest[i] = u
      BY <1>1, <2>1, <2>3
    <3>2. step'[u] = "waiting" <=> step[u] = "waiting"
      BY <1>1, <1>3, <2>3
    <3> QED
      BY <3>1, <3>2, WaitingRest DEF QueueOK
  <2> QED
    BY <2>2, <2>3
<1>7. fetched' \in 0 .. Len(queue')
  BY <1>1, <1>2
<1>8. QueueTyped'
  BY <1>1, <1>2, <1>6, <1>7 DEF QueueTyped
<1>9. QueueInv'
  BY <1>1, <1>4, <1>5 DEF QueueInv
<1> QED
  BY <1>8, <1>9 DEF QueueOK

LEMMA CrashQueue ==
  ASSUME UpdatesTyped, QueueOK, Crash
  PROVE  QueueOK'
<1>1. /\ queue' = queue /\ fetched' = 0
      /\ step' = [u \in Updates |-> IF u \in Range(queue) THEN "waiting" ELSE "free"]
  BY DEF Crash
<1>2. queue \in Seq(Updates) /\ Len(queue) \in Nat
  BY DEF QueueOK, QueueTyped
<1>3. \A u : u \in Range(queue) <=> \E i \in 1 .. Len(queue) : queue[i] = u
  BY InRange DEF QueueOK
<1>4. \A u \in Updates : step'[u] = "waiting" <=> u \in Range(queue)
  BY <1>1
<1>5. \A u \in Updates : Waits(u)' <=> u \in Range(queue)
  BY <1>1, <1>2, <1>3 DEF Waits
<1>6. \A i \in 1 .. Len(queue) : step'[queue[i]] = "waiting"
  BY <1>3, <1>4, QueueElement DEF QueueOK
<1> QED
  BY <1>1, <1>2, <1>4, <1>5, <1>6 DEF QueueOK, QueueTyped, QueueInv

-----------------------------------------------------------------------------
(* Buttons: those shown, those owed, and those that never came.            *)

\* A reply is owed by a handler that has made its row; its button names a row
\* of the right table.
LEMMA OwedNamed ==
  ASSUME NamesInv, MadeInv, NEW u \in Updates, NEW b \in Owed(u)
  PROVE  /\ b \in AButton /\ Named(b.kind, b.id)
         /\ step[u] \in {"extract", "write", "reply"}
<1>1. step[u] \in {"extract", "write", "reply"}
  BY DEF Owed
<1>2. Named(update[u].kind, update[u].id) /\ MadeRow(u)
  BY DEF NamesInv, MadeInv
<1>3. CASE update[u].kind = "text"
  <2>1. Owed(u) = {Button("confirm", made[u])}
    BY <1>1, <1>3 DEF Owed
  <2>2. made[u] \in Leads
    BY <1>1, <1>2, <1>3 DEF MadeRow
  <2> QED
    BY <1>1, <2>1, <2>2 DEF Button, AButton, Kinds, Named
<1>4. CASE update[u].kind = "confirm"
  <2>1. Owed(u) = {Button("propose", Told(u))}
    BY <1>1, <1>4 DEF Owed
  <2>2. Told(u) \in Leads
    BY <1>2, <1>4 DEF Named, Told
  <2> QED
    BY <1>1, <2>1, <2>2 DEF Button, AButton, Kinds, Named
<1>5. CASE update[u].kind = "propose"
  <2>1. Owed(u) = {Button("publish", made[u])}
    BY <1>1, <1>5 DEF Owed
  <2>2. made[u] \in Proposals
    BY <1>1, <1>2, <1>5 DEF MadeRow
  <2> QED
    BY <1>1, <2>1, <2>2 DEF Button, AButton, Kinds, Named
<1>6. update[u].kind \in {"text", "confirm", "propose"}
  BY <1>1 DEF Owed
<1> QED
  BY <1>3, <1>4, <1>5, <1>6

\* A step of a handler that writes no row shows the button it owes, or the
\* button is missed, or it goes on owing it.
LEMMA QuietShown ==
  ASSUME NEW u \in Updates, Ending(u) \/ Passing(u)
  PROVE  /\ UNCHANGED rows
         /\ buttons \subseteq buttons' /\ buttons' \subseteq buttons \cup Owed(u)
         /\ due \subseteq due' /\ due' \subseteq due \cup Owed(u)
         /\ Owed(u) \subseteq buttons' \cup due'
         /\ lost' \subseteq lost \cup Unserved({u})
         /\ losses' = losses \/ Loss
<1>1. CASE Reply(u)
  BY <1>1 DEF Reply, bounds, history
<1>2. CASE ReplyFails(u)
  <2>1. losses' = losses \/ Loss
    BY <1>2 DEF ReplyFails
  <2> QED
    BY <1>2, <2>1 DEF ReplyFails
<1>3. CASE \E kind \in Kinds : TransactionFails(u, kind)
  BY <1>3 DEF TransactionFails
<1>4. CASE \/ \E kind \in Kinds : Refuse(u, kind)
           \/ Escape(u) \/ LookUpJob(u) \/ InsertRefused(u) \/ StillWaiting(u)
  <2>1. UNCHANGED <<rows, buttons, due, lost, losses>>
    BY <1>4 DEF Refuse, Escape, LookUpJob, InsertRefused, StillWaiting, Step, bounds, history
  <2>2. step[u] \notin {"extract", "write", "reply"}
    BY <1>4 DEF Refuse, Escape, LookUpJob, InsertRefused, StillWaiting, Step, At
  <2>3. Owed(u) = {}
    BY <2>2 DEF Owed
  <2> QED
    BY <2>1, <2>3
<1> QED
  BY <1>1, <1>2, <1>3, <1>4 DEF Ending, Passing

\* What is lost is a request of the operator: a message, or a row's button.
LEMMA UnservedTyped ==
  ASSUME UpdatesTyped, LostTyped, NEW us \in SUBSET Updates,
         lost' \subseteq lost \cup Unserved(us)
  PROVE  LostTyped'
<1>1. ASSUME NEW u \in us, update[u].allowed PROVE Button(update[u].kind, Told(u)) \in Request
  <2>1. update[u] \in Update /\ update[u] # Nothing
    BY <1>1 DEF UpdatesTyped, Nothing
  <2> QED
    BY <2>1 DEF Update, Request, Button, Told
<1>2. Unserved(us) \subseteq Request
  BY <1>1 DEF Unserved
<1> QED
  BY <1>2 DEF LostTyped

\* What the worker's steps change.
Working(p) == Work(p) \/ \E type \in {"publish", "remind"} : JobFails(type, p)

LEMMA WorkerFrame ==
  ASSUME NEW p \in Proposals, Working(p)
  PROVE  /\ UNCHANGED <<telegram, handler, lead, cameFrom, proposal, history, written, strange>>
         /\ buttons \subseteq buttons'
         /\ buttons' \subseteq buttons \cup {Button("mark_sent", p), Button("outcome", p)}
         /\ losses' = losses \/ Loss
<1>1. CASE SendLink(p)
  <2>1. losses' = losses \/ Loss
    BY <1>1 DEF SendLink
  <2> QED
    BY <1>1, <2>1 DEF SendLink
<1>2. CASE SendReminder(p) \/ RecordReminder(p)
  BY <1>2 DEF SendReminder, RecordReminder, rows, bounds
<1>3. ASSUME NEW type \in {"publish", "remind"}, JobFails(type, p)
      PROVE  /\ UNCHANGED <<telegram, handler, lead, cameFrom, proposal, history, written, strange>>
             /\ buttons' = buttons /\ Loss
  BY <1>3 DEF JobFails
<1> QED
  BY <1>1, <1>2, <1>3 DEF Working, Work

\* What the operator's and the strangers' updates change.
Coming(kind, id, allowed) ==
  /\ Arrive(kind, id, allowed)
  /\ buttons' = buttons
  /\ \/ kind = "text" /\ id \in Messages \ written /\ written' = written \cup {id}
     \/ Button(kind, id) \in buttons /\ written' = written

LEMMA ComingSteps ==
  ASSUME ShownTyped, NEW allowed \in BOOLEAN,
         \/ \E m \in Messages : Write(m, allowed)
         \/ \E b \in buttons : Click(b, allowed)
  PROVE  \E kind, id : Coming(kind, id, allowed)
<1>1. ASSUME NEW m \in Messages, Write(m, allowed) PROVE Coming("text", m, allowed)
  BY <1>1 DEF Write, Coming
<1>2. ASSUME NEW b \in buttons, Click(b, allowed) PROVE Coming(b.kind, b.id, allowed)
  <2>1. Button(b.kind, b.id) = b
    BY DEF ShownTyped, AButton, Button
  <2> QED
    BY <1>2, <2>1 DEF Click, Coming
<1> QED
  BY <1>1, <1>2

\* Every step is one of these.
LEMMA StepKinds ==
  ASSUME ShownTyped, [Next]_vars
  PROVE  \/ \E allowed \in BOOLEAN : \E kind, id : Coming(kind, id, allowed)
         \/ Poll
         \/ Crash
         \/ \E u \in Updates : Ending(u) \/ Passing(u)
         \/ \E u \in Updates : Writing(u)
         \/ \E p \in Proposals : Working(p)
         \/ UNCHANGED vars
  BY ComingSteps, HandleKinds DEF Next, Working

-----------------------------------------------------------------------------
(* The invariant, kind of step by kind of step.                            *)

LEMMA SameRows ==
  ASSUME RowsTyped, UNCHANGED rows PROVE RowsTyped'
  BY DEF RowsTyped, rows

LEMMA WritingRows ==
  ASSUME UpdatesTyped, RowsTyped, NamesInv, MadeInv, NEW u \in Updates, Writing(u)
  PROVE  RowsTyped'
<1>0. Named(update[u].kind, Told(u)) /\ MadeRow(u)
  BY DEF NamesInv, MadeInv, Told
<1>1. CASE CreateLead(u)
  <2>1. PICK l \in Leads : lead' = [lead EXCEPT ![l] = "new"]
                           /\ cameFrom' = [cameFrom EXCEPT ![l] = Told(u)]
    BY <1>1 DEF CreateLead
  <2>2. Told(u) \in Messages
    BY <1>0, <1>1 DEF CreateLead, Commit, At, Named
  <2>3. UNCHANGED <<proposal, followUp, job>>
    BY <1>1 DEF CreateLead
  <2> QED
    BY <2>1, <2>2, <2>3 DEF RowsTyped, LeadStatus
<1>2. CASE ExtractLead(u)
  <2>1. made[u] \in Leads
    BY <1>0, <1>2 DEF ExtractLead, Commit, At, MadeRow
  <2>2. PICK status \in {"qualifying", lead[made[u]]} : lead' = [lead EXCEPT ![made[u]] = status]
    BY <1>2 DEF ExtractLead
  <2>3. status \in LeadStatus
    BY <2>1 DEF RowsTyped, LeadStatus
  <2>4. UNCHANGED <<cameFrom, proposal, followUp, job>>
    BY <1>2 DEF ExtractLead
  <2> QED
    BY <2>2, <2>3, <2>4 DEF RowsTyped
<1>3. CASE QualifyLead(u)
  <2>1. /\ lead' = [lead EXCEPT ![Told(u)] = "qualified"]
        /\ UNCHANGED <<cameFrom, proposal, followUp, job>>
    BY <1>3 DEF QualifyLead
  <2> QED
    BY <2>1 DEF RowsTyped, LeadStatus
<1>4. CASE CreateProposal(u)
  <2>1. PICK p \in Proposals : proposal' = [proposal EXCEPT ![p] =
            [lead |-> Told(u), status |-> "draft", text |-> FALSE]]
    BY <1>4 DEF CreateProposal
  <2>2. Told(u) \in Leads
    BY <1>0, <1>4 DEF CreateProposal, Commit, At, Named
  <2>3. [lead |-> Told(u), status |-> "draft", text |-> FALSE] \in ARow
    BY <2>2 DEF ARow
  <2>4. UNCHANGED <<lead, cameFrom, followUp, job>>
    BY <1>4 DEF CreateProposal
  <2> QED
    BY <2>1, <2>3, <2>4 DEF RowsTyped
<1>5. CASE WriteText(u)
  <2>1. PICK text \in BOOLEAN : proposal' = [proposal EXCEPT ![made[u]].text = text]
    BY <1>5 DEF WriteText
  <2>2. made[u] \in Proposals
    BY <1>0, <1>5 DEF WriteText, Commit, At, MadeRow
  <2>3. [proposal[made[u]] EXCEPT !.text = text] \in ARow
    BY <2>2 DEF RowsTyped, ARow
  <2>4. proposal' = [proposal EXCEPT ![made[u]] = [proposal[made[u]] EXCEPT !.text = text]]
    BY <2>1
  <2>5. UNCHANGED <<lead, cameFrom, followUp, job>>
    BY <1>5 DEF WriteText
  <2> QED
    BY <2>3, <2>4, <2>5 DEF RowsTyped
<1>6. CASE InsertJob(u)
  <2>1. /\ job' = [job EXCEPT !["publish"][Told(u)] = "open"]
        /\ UNCHANGED <<lead, cameFrom, proposal, followUp>>
    BY <1>6 DEF InsertJob
  <2> QED
    BY <2>1 DEF RowsTyped
<1>7. CASE MarkSent(u)
  <2>1. /\ lead' = [lead EXCEPT ![proposal[Told(u)].lead] = "proposal_sent"]
        /\ proposal' = [proposal EXCEPT ![Told(u)] = [proposal[Told(u)] EXCEPT !.status = "sent"]]
        /\ followUp' = [followUp EXCEPT ![Told(u)] = "pending"]
        /\ job' = [job EXCEPT !["remind"][Told(u)] = "open"]
        /\ cameFrom' = cameFrom
    BY <1>7 DEF MarkSent
  <2>2. Told(u) \in Proposals
    BY <1>0, <1>7 DEF MarkSent, Commit, At, Named
  <2>3. [proposal[Told(u)] EXCEPT !.status = "sent"] \in ARow
    BY <2>2 DEF RowsTyped, ARow
  <2>4. job' \in [{"publish", "remind"} -> [Proposals -> {"none", "open", "done", "failed"}]]
    BY <2>1 DEF RowsTyped
  <2> QED
    BY <2>1, <2>3, <2>4 DEF RowsTyped, LeadStatus
<1>8. CASE RecordResult(u)
  <2>1. /\ lead' = [lead EXCEPT ![proposal[Told(u)].lead] = "answered"]
        /\ proposal' = [proposal EXCEPT ![Told(u)] = [proposal[Told(u)] EXCEPT !.status = "answered"]]
        /\ UNCHANGED <<cameFrom, followUp, job>>
    BY <1>8 DEF RecordResult
  <2>2. Told(u) \in Proposals
    BY <1>0, <1>8 DEF RecordResult, Commit, At, Named
  <2>3. [proposal[Told(u)] EXCEPT !.status = "answered"] \in ARow
    BY <2>2 DEF RowsTyped, ARow
  <2> QED
    BY <2>1, <2>3 DEF RowsTyped, LeadStatus
<1> QED
  BY <1>1, <1>2, <1>3, <1>4, <1>5, <1>6, <1>7, <1>8 DEF Writing

LEMMA WorkingRows ==
  ASSUME RowsTyped, NEW p \in Proposals, Working(p)
  PROVE  RowsTyped'
<1>1. UNCHANGED <<lead, cameFrom, proposal>>
  BY WorkerFrame
<1>2. job' \in [{"publish", "remind"} -> [Proposals -> {"none", "open", "done", "failed"}]]
  <2>1. CASE job' = job
    BY <2>1 DEF RowsTyped
  <2>2. ASSUME NEW type \in {"publish", "remind"}, NEW s \in {"done", "failed"},
               job' = [job EXCEPT ![type][p] = s]
        PROVE  job' \in [{"publish", "remind"} -> [Proposals -> {"none", "open", "done", "failed"}]]
    BY <2>2 DEF RowsTyped
  <2>3. CASE Work(p)
    <3>1. CASE SendLink(p)
      BY <2>2, <3>1 DEF SendLink
    <3>2. CASE SendReminder(p)
      BY <2>1, <3>2 DEF SendReminder, rows
    <3>3. CASE RecordReminder(p)
      BY <2>2, <3>3 DEF RecordReminder
    <3> QED
      BY <2>3, <3>1, <3>2, <3>3 DEF Work
  <2>4. ASSUME NEW type \in {"publish", "remind"}, JobFails(type, p)
        PROVE  job' \in [{"publish", "remind"} -> [Proposals -> {"none", "open", "done", "failed"}]]
    BY <2>2, <2>4 DEF JobFails
  <2> QED
    BY <2>3, <2>4 DEF Working
<1>3. followUp' \in [Proposals -> {"none", "pending", "sent"}]
  <2>1. followUp' = followUp \/ followUp' = [followUp EXCEPT ![p] = "sent"]
    BY DEF Working, Work, SendLink, SendReminder, RecordReminder, JobFails, rows
  <2> QED
    BY <2>1 DEF RowsTyped
<1> QED
  BY <1>1, <1>2, <1>3 DEF RowsTyped

\* A handler that goes on, or ends, keeps what its id names and what it made.
LEMMA MovedRow ==
  ASSUME UpdatesTyped, NamesInv, MadeInv, NEW u \in Updates, NEW next \in After, Moves(u, next),
         next = "extract" => update[u].kind = "text",
         next = "write" => update[u].kind = "propose",
         next \in {"extract", "write", "reply"} =>
           /\ update[u].kind = "text" => made'[u] \in Leads
           /\ update[u].kind = "propose" => made'[u] \in Proposals
  PROVE  /\ MadeInv'
         /\ \A v \in Updates : Named(update'[v].kind, update'[v].id)
<1>1. /\ step'[u] = next
      /\ \A v \in Updates \ {u} : step'[v] = step[v] /\ update'[v] = update[v] /\ made'[v] = made[v]
      /\ update'[u] = IF next = "free" THEN Nothing ELSE update[u]
  BY DEF Moves, UpdatesTyped
<1>2. MadeRow(u)'
  BY <1>1 DEF MadeRow, Nothing
<1>3. ASSUME NEW v \in Updates \ {u} PROVE MadeRow(v)'
  BY <1>1 DEF MadeInv, MadeRow
<1>4. Named(update'[u].kind, update'[u].id)
  BY <1>1 DEF NamesInv, Named, Nothing
<1> QED
  BY <1>1, <1>2, <1>3, <1>4 DEF MadeInv, NamesInv

LEMMA HandlerRows ==
  ASSUME UpdatesTyped, NamesInv, MadeInv, NEW u \in Updates,
         Ending(u) \/ Passing(u) \/ Writing(u)
  PROVE  /\ MadeInv'
         /\ \A v \in Updates : Named(update'[v].kind, update'[v].id)
<1>1. CASE Ending(u)
  BY <1>1, EndingMoves, MovedRow DEF After
<1>2. CASE Passing(u)
  <2>1. PICK next \in {"insert", "reply", "raised"} :
           /\ Moves(u, next)
           /\ next = "reply" => update[u].kind \in {"publish", "outcome"}
    BY <1>2, PassingMoves
  <2>2. next \in After
    BY DEF After
  <2> QED
    BY <2>1, <2>2, MovedRow
<1>3. CASE Writing(u)
  <2>1. PICK next \in {"extract", "write", "reply"} :
           /\ Moves(u, next)
           /\ next = "extract" => update[u].kind = "text"
           /\ next = "write" => update[u].kind = "propose"
    BY <1>3, WritingMoves
  <2>2. next \in After
    BY DEF After
  <2>3. /\ update[u].kind = "text" => made'[u] \in Leads
        /\ update[u].kind = "propose" => made'[u] \in Proposals
    BY <1>3, WritingMoves
  <2> QED
    BY <2>1, <2>2, <2>3, MovedRow
<1> QED
  BY <1>1, <1>2, <1>3

\* Forgetting updates that are not at work.
LEMMA Forgotten ==
  ASSUME UpdatesTyped, NamesInv, MadeInv, NEW gone, Forget(gone),
         step' \in [Updates -> Steps],
         \A u \in Updates : \/ step'[u] \in {"free", "waiting", "start"}
                            \/ step'[u] = step[u] /\ u \notin gone
  PROVE  /\ UpdatesTyped' /\ MadeInv'
         /\ \A u \in Updates : Named(update'[u].kind, update'[u].id)
<1>1. /\ update' = [u \in Updates |-> IF u \in gone THEN Nothing ELSE update[u]]
      /\ made' = [u \in Updates |-> IF u \in gone THEN None ELSE made[u]]
  BY DEF Forget
<1>2. Nothing \in Update
  BY DEF Update
<1>3. UpdatesTyped'
  BY <1>1, <1>2 DEF UpdatesTyped
<1>4. ASSUME NEW u \in Updates PROVE MadeRow(u)'
  <2>1. CASE step'[u] \in {"free", "waiting", "start"}
    BY <2>1 DEF MadeRow
  <2>2. CASE step'[u] = step[u] /\ u \notin gone
    BY <1>1, <2>2 DEF MadeInv, MadeRow
  <2> QED
    BY <2>1, <2>2
<1>5. ASSUME NEW u \in Updates PROVE Named(update'[u].kind, update'[u].id)
  BY <1>1 DEF NamesInv, Named, Nothing
<1> QED
  BY <1>3, <1>4, <1>5 DEF MadeInv

\* The parts of the invariant after a step.
LEMMA PartsAfter ==
  BotInv' <=> /\ QueueTyped' /\ QueueInv' /\ UpdatesTyped' /\ RowsTyped' /\ ShownTyped'
              /\ BoundsTyped' /\ LostTyped' /\ NamesInv' /\ MadeInv'
<1>1. TypeOK' <=> /\ QueueTyped' /\ UpdatesTyped' /\ RowsTyped' /\ ShownTyped'
                  /\ BoundsTyped' /\ LostTyped'
  BY TypeParts, PTL
<1> QED
  BY <1>1 DEF BotInv

LEMMA BotInit == Init => BotInv
<1> SUFFICES ASSUME Init PROVE BotInv
  OBVIOUS
<1>1. queue = <<>> /\ Len(queue) = 0 /\ fetched = 0
  BY DEF Init
<1>2. \A u \in Updates : step[u] = "free" /\ update[u] = Nothing
  BY DEF Init
<1>3. QueueTyped /\ QueueInv
  BY <1>1, <1>2 DEF QueueTyped, QueueInv, Waits
<1>4. UpdatesTyped
  BY DEF Init, UpdatesTyped, Update, Steps
<1>5. RowsTyped
  <2>1. [lead |-> None, status |-> "none", text |-> FALSE] \in ARow
    BY DEF ARow
  <2> QED
    BY <2>1 DEF Init, RowsTyped, LeadStatus
<1>6. ShownTyped /\ BoundsTyped /\ LostTyped
  <2>1. strange \in 0 .. MaxStrange /\ losses \in 0 .. MaxLosses /\ crashes \in 0 .. losses
    BY BotAssumption DEF Init
  <2>2. buttons = {} /\ due = {} /\ lost = {} /\ written = {}
    BY DEF Init
  <2> QED
    BY <2>1, <2>2 DEF ShownTyped, BoundsTyped, LostTyped
<1>7. NamesInv /\ MadeInv
  BY <1>2 DEF Init, NamesInv, Named, Nothing, MadeInv, MadeRow
<1> QED
  BY <1>3, <1>4, <1>5, <1>6, <1>7, TypeParts DEF BotInv

\* An update comes: its record is free, and it names what its button names.
LEMMA ComingInv ==
  ASSUME BotInv, NEW kind, NEW id, NEW allowed \in BOOLEAN, Coming(kind, id, allowed)
  PROVE  BotInv'
<1>1. QueueTyped /\ QueueInv /\ UpdatesTyped /\ RowsTyped /\ ShownTyped /\ BoundsTyped
      /\ LostTyped /\ NamesInv /\ MadeInv
  BY TypeParts DEF BotInv
<1>2. PICK u \in Updates :
         /\ step[u] = "free"
         /\ update' = [update EXCEPT ![u] = [kind |-> kind, id |-> id, allowed |-> allowed]]
         /\ step' = [step EXCEPT ![u] = "waiting"]
         /\ queue' = Append(queue, u)
         /\ fetched' = fetched
  BY Arrival DEF Coming
<1>3. /\ UNCHANGED <<made, rows, due, losses, crashes, buttons>>
      /\ lost' \subseteq lost
      /\ allowed \/ strange < MaxStrange
      /\ strange' = IF allowed THEN strange ELSE strange + 1
  BY DEF Coming, Arrive
<1>4. Named(kind, id) /\ [kind |-> kind, id |-> id, allowed |-> allowed] \in Update
  <2>1. CASE kind = "text" /\ id \in Messages
    BY <2>1 DEF Named, Update, Kinds
  <2>2. CASE Button(kind, id) \in buttons
    <3>1. Button(kind, id) \in AButton /\ Named(Button(kind, id).kind, Button(kind, id).id)
      BY <1>1, <2>2 DEF ShownTyped, NamesInv
    <3>2. Button(kind, id).kind = kind /\ Button(kind, id).id = id
      BY DEF Button
    <3>3. kind \in Kinds /\ id \in Leads \cup Proposals /\ Named(kind, id)
      BY <3>1, <3>2 DEF AButton
    <3> QED
      BY <3>3 DEF Update
  <2> QED
    BY <2>1, <2>2 DEF Coming
<1>5. QueueTyped' /\ QueueInv'
  BY <1>1, <1>2, ArriveQueue DEF QueueOK
<1>6. UpdatesTyped'
  BY <1>1, <1>2, <1>3, <1>4 DEF UpdatesTyped, Steps
<1>7. RowsTyped' /\ ShownTyped' /\ LostTyped'
  BY <1>1, <1>3, SameRows DEF ShownTyped, LostTyped
<1>8. BoundsTyped'
  <2>1. written' \subseteq Messages
    BY <1>1 DEF Coming, BoundsTyped
  <2>2. strange' \in 0 .. MaxStrange
    BY <1>1, <1>3, BotAssumption DEF BoundsTyped
  <2> QED
    BY <1>1, <1>3, <2>1, <2>2 DEF BoundsTyped
<1>9. NamesInv' /\ MadeInv'
  <2>1. \A v \in Updates \ {u} : update'[v] = update[v] /\ step'[v] = step[v]
    BY <1>1, <1>2 DEF UpdatesTyped
  <2>2. /\ update'[u] = [kind |-> kind, id |-> id, allowed |-> allowed]
        /\ step'[u] = "waiting"
    BY <1>1, <1>2 DEF UpdatesTyped
  <2>3. MadeRow(u)' /\ Named(update'[u].kind, update'[u].id)
    BY <1>4, <2>2 DEF MadeRow
  <2>4. \A v \in Updates \ {u} : MadeRow(v)' /\ Named(update'[v].kind, update'[v].id)
    BY <1>1, <1>3, <2>1 DEF MadeInv, MadeRow, NamesInv
  <2> QED
    BY <1>1, <1>3, <2>3, <2>4 DEF NamesInv, MadeInv
<1> QED
  BY <1>5, <1>6, <1>7, <1>8, <1>9, PartsAfter

\* What is lost when the bot dies is all that its handlers owed.
LEMMA CrashInv ==
  ASSUME BotInv, Crash
  PROVE  BotInv'
<1>1. QueueTyped /\ QueueInv /\ UpdatesTyped /\ RowsTyped /\ ShownTyped /\ BoundsTyped
      /\ LostTyped /\ NamesInv /\ MadeInv
  BY TypeParts DEF BotInv
<1>2. /\ step' = [u \in Updates |-> IF u \in Range(queue) THEN "waiting" ELSE "free"]
      /\ Forget(Updates \ Range(queue))
      /\ due' = due \cup UNION {Owed(u) : u \in Updates}
      /\ losses < MaxLosses /\ losses' = losses + 1 /\ crashes' = crashes + 1
      /\ lost' = lost \cup Unserved(Updates \ Range(queue))
      /\ UNCHANGED <<rows, buttons, written, strange>>
  BY DEF Crash, Loss
<1>3. QueueTyped' /\ QueueInv'
  BY <1>1, CrashQueue DEF QueueOK
<1>4. /\ step' \in [Updates -> Steps]
      /\ \A u \in Updates : step'[u] \in {"free", "waiting", "start"}
  BY <1>2 DEF Steps
<1>5. /\ UpdatesTyped' /\ MadeInv'
      /\ \A u \in Updates : Named(update'[u].kind, update'[u].id)
  BY <1>1, <1>2, <1>4, Forgotten
<1>6. ShownTyped'
  <2>1. \A b \in UNION {Owed(u) : u \in Updates} : b \in AButton
    BY <1>1, OwedNamed
  <2> QED
    BY <1>1, <1>2, <2>1 DEF ShownTyped
<1>7. BoundsTyped'
  BY <1>1, <1>2, BotAssumption DEF BoundsTyped
<1>8. RowsTyped' /\ NamesInv'
  BY <1>1, <1>2, <1>5, SameRows DEF NamesInv
<1>9. LostTyped'
  BY <1>1, <1>2, UnservedTyped
<1> QED
  BY <1>3, <1>5, <1>6, <1>7, <1>8, <1>9, PartsAfter

LEMMA PollInv ==
  ASSUME BotInv, Poll
  PROVE  BotInv'
<1>1. QueueTyped /\ QueueInv /\ UpdatesTyped /\ RowsTyped /\ ShownTyped /\ BoundsTyped
      /\ LostTyped /\ NamesInv /\ MadeInv
  BY TypeParts DEF BotInv
<1>2. PICK answered \in BOOLEAN :
         /\ step' = [u \in Updates |->
              IF u \in Gone THEN "free"
              ELSE IF answered /\ u \in Range(Rest) THEN "start" ELSE step[u]]
         /\ Forget(Gone)
         /\ UNCHANGED <<rows, buttons, history, bounds>>
  BY PollSteps
<1>3. QueueTyped' /\ QueueInv'
  BY <1>1, PollQueue DEF QueueOK
<1>4. /\ step' \in [Updates -> Steps]
      /\ \A u \in Updates : \/ step'[u] \in {"free", "waiting", "start"}
                            \/ step'[u] = step[u] /\ u \notin Gone
  BY <1>1, <1>2 DEF UpdatesTyped, Steps
<1>5. /\ UpdatesTyped' /\ MadeInv'
      /\ \A u \in Updates : Named(update'[u].kind, update'[u].id)
  BY <1>1, <1>2, <1>4, Forgotten
<1>6. RowsTyped' /\ ShownTyped' /\ BoundsTyped' /\ LostTyped' /\ NamesInv'
  BY <1>1, <1>2, <1>5, SameRows DEF ShownTyped, BoundsTyped, LostTyped, bounds, history, NamesInv
<1> QED
  BY <1>3, <1>5, <1>6, PartsAfter

LEMMA HandlerInv ==
  ASSUME BotInv, NEW u \in Updates, Ending(u) \/ Passing(u) \/ Writing(u)
  PROVE  BotInv'
<1>1. QueueTyped /\ QueueInv /\ UpdatesTyped /\ RowsTyped /\ ShownTyped /\ BoundsTyped
      /\ LostTyped /\ NamesInv /\ MadeInv
  BY TypeParts DEF BotInv
<1>3. PICK next \in After : Moves(u, next)
  BY <1>1, HandleMoves
<1>4. made' \in [Updates -> Leads \cup Proposals \cup {None}]
  BY <1>1, HandleMoves
<1>5. QueueTyped' /\ QueueInv'
  BY <1>1, <1>3, HandleQueue DEF QueueOK
<1>6. UpdatesTyped'
  BY <1>1, <1>3, <1>4 DEF UpdatesTyped, Moves, After, Steps
<1>7. /\ MadeInv' /\ \A v \in Updates : Named(update'[v].kind, update'[v].id)
  BY <1>1, HandlerRows
<1>8. UNCHANGED <<written, strange, crashes>>
  BY <1>3 DEF Moves
<1>9. CASE Ending(u) \/ Passing(u)
  <2>1. /\ UNCHANGED rows
        /\ buttons' \subseteq buttons \cup Owed(u) /\ due' \subseteq due \cup Owed(u)
        /\ lost' \subseteq lost \cup Unserved({u})
        /\ losses' = losses \/ Loss
    BY <1>9, QuietShown
  <2>2. \A b \in Owed(u) : b \in AButton /\ Named(b.kind, b.id)
    BY <1>1, OwedNamed
  <2>3. ShownTyped' /\ NamesInv'
    BY <1>1, <1>7, <2>1, <2>2 DEF ShownTyped, NamesInv
  <2>4. losses' \in 0 .. MaxLosses /\ crashes' \in 0 .. losses'
    BY <1>1, <1>8, <2>1, BotAssumption DEF BoundsTyped, Loss
  <2>5. RowsTyped' /\ BoundsTyped' /\ LostTyped'
    BY <1>1, <1>8, <2>1, <2>4, SameRows, UnservedTyped DEF BoundsTyped
  <2> QED
    BY <1>5, <1>6, <1>7, <2>3, <2>5, PartsAfter
<1>10. CASE Writing(u)
  <2>1. UNCHANGED <<buttons, due, lost, losses>>
    BY <1>1, <1>10, WritingMoves
  <2>2. RowsTyped'
    BY <1>1, <1>10, WritingRows
  <2>3. ShownTyped' /\ NamesInv' /\ BoundsTyped' /\ LostTyped'
    BY <1>1, <1>7, <1>8, <2>1 DEF ShownTyped, NamesInv, BoundsTyped, LostTyped
  <2> QED
    BY <1>5, <1>6, <1>7, <2>2, <2>3, PartsAfter
<1> QED
  BY <1>9, <1>10

LEMMA WorkingInv ==
  ASSUME BotInv, NEW p \in Proposals, Working(p)
  PROVE  BotInv'
<1>1. QueueTyped /\ QueueInv /\ UpdatesTyped /\ RowsTyped /\ ShownTyped /\ BoundsTyped
      /\ LostTyped /\ NamesInv /\ MadeInv
  BY TypeParts DEF BotInv
<1>2. /\ UNCHANGED <<telegram, handler, history, written, strange>>
      /\ buttons' \subseteq buttons \cup {Button("mark_sent", p), Button("outcome", p)}
      /\ losses' = losses \/ Loss
  BY WorkerFrame
<1>3. \A b \in {Button("mark_sent", p), Button("outcome", p)} : b \in AButton /\ Named(b.kind, b.id)
  BY DEF Button, AButton, Kinds, Named
<1>4. QueueTyped' /\ QueueInv' /\ UpdatesTyped' /\ MadeInv'
  BY <1>1, <1>2 DEF telegram, handler, QueueTyped, Waits, QueueInv, UpdatesTyped, MadeInv, MadeRow
<1>5. ShownTyped' /\ LostTyped'
  BY <1>1, <1>2, <1>3 DEF ShownTyped, LostTyped, history
<1>6. NamesInv'
  BY <1>1, <1>2, <1>3 DEF NamesInv, telegram
<1>7. losses' \in 0 .. MaxLosses /\ crashes' \in 0 .. losses'
  BY <1>1, <1>2, BotAssumption DEF BoundsTyped, Loss, history
<1>8. BoundsTyped' /\ RowsTyped'
  BY <1>1, <1>2, <1>7, WorkingRows DEF BoundsTyped
<1> QED
  BY <1>4, <1>5, <1>6, <1>8, PartsAfter

LEMMA BotStep == BotInv /\ [Next]_vars => BotInv'
<1> SUFFICES ASSUME BotInv, [Next]_vars PROVE BotInv'
  OBVIOUS
<1>1. ShownTyped
  BY TypeParts DEF BotInv
<1>2. CASE UNCHANGED vars
  <2>1. QueueTyped /\ UpdatesTyped /\ RowsTyped /\ ShownTyped /\ BoundsTyped /\ LostTyped
    BY TypeParts DEF BotInv
  <2>2. QueueTyped' /\ UpdatesTyped' /\ RowsTyped' /\ ShownTyped' /\ BoundsTyped' /\ LostTyped'
    BY <1>2, <2>1, SameRows DEF vars, telegram, handler, bounds, history, QueueTyped, Waits,
       UpdatesTyped, ShownTyped, BoundsTyped, LostTyped
  <2>3. QueueInv' /\ NamesInv' /\ MadeInv'
    BY <1>2 DEF BotInv, vars, telegram, handler, QueueInv, NamesInv, MadeInv, MadeRow
  <2> QED
    BY <2>2, <2>3, PartsAfter
<1> QED
  BY <1>1, <1>2, StepKinds, ComingInv, PollInv, CrashInv, HandlerInv, WorkingInv

LEMMA BotHolds == Spec => []BotInv
  BY BotInit, BotStep, PTL DEF Spec

\* Every reachable state is well typed, and an update is waiting exactly while
\* its place in the queue is behind what getUpdates handed out: whatever
\* handlers, polls and restarts overlap.
THEOREM TypeCorrect == Spec => []TypeOK
<1>1. BotInv => TypeOK
  BY DEF BotInv
<1> QED
  BY <1>1, BotHolds, PTL

-----------------------------------------------------------------------------
(***************************************************************************)
(* One lead per message.  intake_lead asks nobody whether the message has  *)
(* a lead; what keeps it from making two is that Telegram hands an update  *)
(* out once, as long as the bot lives to confirm it.                       *)
(***************************************************************************)

LeadsOf(m) == {l \in Leads : cameFrom[l] = m}

\* The message is in update u, and its handler has not made a lead of it yet.
Untried(u, m) ==
  update[u].kind = "text" /\ update[u].id = m /\ step[u] \in {"waiting", "start"}

\* A message is in one update; it makes a lead after it was written.
MessageInv ==
  /\ \A u \in Updates : update[u].kind = "text" => update[u].id \in written
  /\ \A u, v \in Updates :
       update[u].kind = "text" /\ update[v].kind = "text" /\ update[u].id = update[v].id => u = v
  /\ \A l \in Leads : cameFrom[l] # None => cameFrom[l] \in written

\* Each time the bot died may have brought the message back to its start.
LeadsInv ==
  \A m \in Messages :
    /\ IsFiniteSet(LeadsOf(m))
    /\ Cardinality(LeadsOf(m)) <= 1 + crashes
    /\ \A u \in Updates : Untried(u, m) => Cardinality(LeadsOf(m)) <= crashes

\* A message has no more leads than before, and is not tried again.
LEMMA FewerLeads ==
  ASSUME LeadsInv, NEW m \in Messages, LeadsOf(m)' \subseteq LeadsOf(m), crashes \in Nat,
         crashes' = crashes, \A u \in Updates : Untried(u, m)' => Untried(u, m)
  PROVE  /\ IsFiniteSet(LeadsOf(m)')
         /\ Cardinality(LeadsOf(m)') <= 1 + crashes'
         /\ \A u \in Updates : Untried(u, m)' => Cardinality(LeadsOf(m)') <= crashes'
<1>1. IsFiniteSet(LeadsOf(m)) /\ Cardinality(LeadsOf(m)) <= 1 + crashes
  BY DEF LeadsInv
<1>2. PICK c \in Nat, d \in Nat : c = Cardinality(LeadsOf(m)) /\ d = Cardinality(LeadsOf(m)')
  BY <1>1, FS_Subset, FS_CardinalityType
<1>3. IsFiniteSet(LeadsOf(m)') /\ d <= c
  BY <1>1, <1>2, FS_Subset
<1>4. \A u \in Updates : Untried(u, m)' => c <= crashes
  BY <1>2 DEF LeadsInv
<1> QED
  BY <1>1, <1>2, <1>3, <1>4

\* Steps after which no more updates wait or start, and leads come from no more
\* messages than before.
LEMMA MessagesKept ==
  ASSUME MessageInv, LeadsInv, crashes \in Nat, UNCHANGED <<cameFrom, written, crashes>>,
         \A u \in Updates : update'[u] = update[u] \/ update'[u] = Nothing,
         \A u \in Updates : step'[u] \in {"waiting", "start"} => step[u] \in {"waiting", "start"}
  PROVE  MessageInv' /\ LeadsInv'
<1>1. \A u \in Updates : update'[u].kind = "text" => update'[u] = update[u]
  BY DEF Nothing
<1>2. MessageInv'
  BY <1>1 DEF MessageInv
<1>3. ASSUME NEW m \in Messages, NEW u \in Updates, Untried(u, m)' PROVE Untried(u, m)
  BY <1>1, <1>3 DEF Untried
<1>4. \A m \in Messages : LeadsOf(m)' = LeadsOf(m)
  BY DEF LeadsOf
<1>5. LeadsInv'
  BY <1>3, <1>4 DEF LeadsInv
<1> QED
  BY <1>2, <1>5

\* The operator's next message is a new one.
LEMMA MessageComing ==
  ASSUME BotInv, MessageInv, LeadsInv, NEW kind, NEW id, NEW allowed \in BOOLEAN,
         Coming(kind, id, allowed)
  PROVE  MessageInv' /\ LeadsInv'
<1>1. UpdatesTyped /\ ShownTyped /\ crashes \in Nat
  BY TypeParts DEF BotInv, BoundsTyped
<1>2. PICK u \in Updates :
         /\ update' = [update EXCEPT ![u] = [kind |-> kind, id |-> id, allowed |-> allowed]]
         /\ step' = [step EXCEPT ![u] = "waiting"]
  BY Arrival DEF Coming
<1>3. UNCHANGED <<cameFrom, crashes>>
  BY DEF Coming, Arrive, rows
<1>4. /\ update'[u].kind = kind /\ update'[u].id = id
      /\ \A v \in Updates \ {u} : update'[v] = update[v] /\ step'[v] = step[v]
  BY <1>1, <1>2 DEF UpdatesTyped
<1>5. \A m \in Messages : LeadsOf(m)' = LeadsOf(m)
  BY <1>3 DEF LeadsOf
<1>6. \A v \in Updates \ {u}, m \in Messages : Untried(v, m)' <=> Untried(v, m)
  BY <1>4 DEF Untried
<1>7. CASE kind = "text" /\ id \in Messages \ written /\ written' = written \cup {id}
  <2>1. \A v \in Updates \ {u} : update'[v].kind = "text" => update'[v].id # id
    BY <1>4, <1>7 DEF MessageInv
  <2>2. MessageInv'
    BY <1>3, <1>4, <1>7, <2>1 DEF MessageInv
  <2>3. ASSUME NEW m \in Messages, Untried(u, m)' PROVE Cardinality(LeadsOf(m)) <= crashes
    <3>1. m = id /\ m # None
      BY <1>4, <2>3, BotAssumption DEF Untried
    <3>2. LeadsOf(m) = {}
      BY <1>7, <3>1 DEF LeadsOf, MessageInv
    <3> QED
      BY <1>1, <3>2, FS_EmptySet
  <2>4. LeadsInv'
    BY <1>3, <1>5, <1>6, <2>3 DEF LeadsInv
  <2> QED
    BY <2>2, <2>4
<1>8. CASE Button(kind, id) \in buttons /\ written' = written
  <2>1. kind # "text"
    BY <1>1, <1>8 DEF ShownTyped, AButton, Button
  <2>2. MessageInv'
    BY <1>3, <1>4, <1>8, <2>1 DEF MessageInv
  <2>3. \A m \in Messages : ~Untried(u, m)'
    BY <1>4, <2>1 DEF Untried
  <2>4. LeadsInv'
    BY <1>3, <1>5, <1>6, <2>3 DEF LeadsInv
  <2> QED
    BY <2>2, <2>4
<1> QED
  BY <1>7, <1>8 DEF Coming

\* Only intake_lead's first transaction says which message a lead came from.
LEMMA CameFromFrame ==
  ASSUME NEW u \in Updates, Writing(u), ~CreateLead(u)
  PROVE  cameFrom' = cameFrom
  BY DEF Writing, ExtractLead, QualifyLead, CreateProposal, WriteText, InsertJob, MarkSent,
         RecordResult

\* The lead of a message that was being tried for the first time, or again after
\* the bot died.
LEMMA MessageMade ==
  ASSUME BotInv, MessageInv, LeadsInv, NEW u \in Updates, CreateLead(u),
         UNCHANGED <<written, crashes>>, step'[u] \notin {"waiting", "start"},
         \A v \in Updates \ {u} : step'[v] = step[v]
  PROVE  MessageInv' /\ LeadsInv'
<1>1. /\ update[u].kind = "text" /\ step[u] = "start" /\ update' = update
      /\ \E l \in Leads : cameFrom' = [cameFrom EXCEPT ![l] = update[u].id]
  BY DEF CreateLead, Commit, At, Told, Goto
<1>2. PICK l \in Leads : cameFrom' = [cameFrom EXCEPT ![l] = update[u].id]
  BY <1>1
<1>3. cameFrom'[l] = update[u].id /\ \A k \in Leads \ {l} : cameFrom'[k] = cameFrom[k]
  BY <1>2, TypeParts DEF BotInv, RowsTyped
<1>4. MessageInv'
  BY <1>1, <1>3 DEF MessageInv
<1>5. crashes \in Nat
  BY TypeParts DEF BotInv, BoundsTyped
<1>6. ASSUME NEW m \in Messages
      PROVE  /\ IsFiniteSet(LeadsOf(m)')
             /\ Cardinality(LeadsOf(m)') <= 1 + crashes'
             /\ \A v \in Updates : Untried(v, m)' => Cardinality(LeadsOf(m)') <= crashes'
  <2>1. \A v \in Updates : Untried(v, m)' => v # u /\ Untried(v, m)
    BY <1>1 DEF Untried
  <2>2. CASE m = update[u].id
    <3>1. \A v \in Updates : ~Untried(v, m)'
      BY <1>1, <2>1, <2>2 DEF Untried, MessageInv
    <3>2. IsFiniteSet(LeadsOf(m)) /\ Cardinality(LeadsOf(m)) <= crashes
      BY <1>1, <2>2 DEF LeadsInv, Untried
    <3>3. LeadsOf(m)' = LeadsOf(m) \cup {l}
      BY <1>3, <2>2 DEF LeadsOf
    <3>4. PICK c \in Nat : c = Cardinality(LeadsOf(m))
      BY <3>2, FS_CardinalityType
    <3>5. IsFiniteSet(LeadsOf(m) \cup {l}) /\ Cardinality(LeadsOf(m) \cup {l}) \in {c, c + 1}
      BY <3>2, <3>4, FS_AddElement
    <3> QED
      BY <1>5, <3>1, <3>2, <3>3, <3>4, <3>5
  <2>3. CASE m # update[u].id
    <3>1. LeadsOf(m)' \subseteq LeadsOf(m)
      BY <1>3, <2>3 DEF LeadsOf
    <3> QED
      BY <1>5, <2>1, <3>1, FewerLeads
  <2> QED
    BY <2>2, <2>3
<1>7. LeadsInv'
  BY <1>6 DEF LeadsInv
<1> QED
  BY <1>4, <1>7

LEMMA MessageHandled ==
  ASSUME BotInv, MessageInv, LeadsInv, NEW u \in Updates, Ending(u) \/ Passing(u) \/ Writing(u)
  PROVE  MessageInv' /\ LeadsInv'
<1>1. UpdatesTyped /\ MadeInv /\ crashes \in Nat
  BY TypeParts DEF BotInv, BoundsTyped
<1>2. PICK next \in After : Moves(u, next)
  BY <1>1, HandleMoves
<1>3. /\ UNCHANGED <<written, crashes>>
      /\ \A v \in Updates : update'[v] = update[v] \/ update'[v] = Nothing
      /\ step'[u] \notin {"waiting", "start"}
      /\ \A v \in Updates \ {u} : step'[v] = step[v]
  BY <1>1, <1>2 DEF Moves, After, UpdatesTyped
<1>4. CASE cameFrom' = cameFrom
  BY <1>1, <1>3, <1>4, MessagesKept
<1>5. CASE CreateLead(u)
  BY <1>3, <1>5, MessageMade
<1>6. CASE Ending(u) \/ Passing(u)
  BY <1>4, <1>6, QuietShown DEF rows
<1> QED
  BY <1>4, <1>5, <1>6, CameFromFrame

\* A restart may bring each message back, and counts for each of them.
LEMMA MessageCrash ==
  ASSUME BotInv, MessageInv, LeadsInv, Crash
  PROVE  MessageInv' /\ LeadsInv'
<1>1. /\ \A u \in Updates : update'[u] = update[u] \/ update'[u] = Nothing
      /\ UNCHANGED <<cameFrom, written>> /\ crashes' = crashes + 1
  BY DEF Crash, Forget, rows
<1>2. \A u \in Updates : update'[u].kind = "text" => update'[u] = update[u]
  BY <1>1 DEF Nothing
<1>3. MessageInv'
  BY <1>1, <1>2 DEF MessageInv
<1>4. crashes \in Nat
  BY TypeParts DEF BotInv, BoundsTyped
<1>5. ASSUME NEW m \in Messages
      PROVE  /\ IsFiniteSet(LeadsOf(m)')
             /\ Cardinality(LeadsOf(m)') <= crashes'
             /\ Cardinality(LeadsOf(m)') <= 1 + crashes'
  <2>1. LeadsOf(m)' = LeadsOf(m)
    BY <1>1 DEF LeadsOf
  <2>2. IsFiniteSet(LeadsOf(m)) /\ Cardinality(LeadsOf(m)) <= 1 + crashes
    BY DEF LeadsInv
  <2>3. PICK c \in Nat : c = Cardinality(LeadsOf(m))
    BY <2>2, FS_CardinalityType
  <2> QED
    BY <1>1, <1>4, <2>1, <2>2, <2>3
<1>6. LeadsInv'
  BY <1>5 DEF LeadsInv
<1> QED
  BY <1>3, <1>6

LEMMA MessageStep == BotInv /\ MessageInv /\ LeadsInv /\ [Next]_vars => MessageInv' /\ LeadsInv'
<1> SUFFICES ASSUME BotInv, MessageInv, LeadsInv, [Next]_vars PROVE MessageInv' /\ LeadsInv'
  OBVIOUS
<1>1. ShownTyped /\ UpdatesTyped /\ crashes \in Nat
  BY TypeParts DEF BotInv, BoundsTyped
<1>2. CASE Poll
  <2>1. PICK answered \in BOOLEAN :
           /\ step' = [u \in Updates |->
                IF u \in Gone THEN "free"
                ELSE IF answered /\ u \in Range(Rest) THEN "start" ELSE step[u]]
           /\ Forget(Gone)
           /\ UNCHANGED <<rows, buttons, history, bounds>>
    BY <1>2, PollSteps
  <2>2. \A u \in Updates : step'[u] \in {"waiting", "start"} => step[u] \in {"waiting", "start"}
    <3>1. \A u \in Updates : u \in Range(Rest) => step[u] = "waiting"
      BY WaitingRest, TypeParts DEF BotInv
    <3> QED
      BY <2>1, <3>1
  <2>3. \A u \in Updates : update'[u] = update[u] \/ update'[u] = Nothing
    BY <2>1 DEF Forget
  <2> QED
    BY <1>1, <2>1, <2>2, <2>3, MessagesKept DEF rows, bounds, history
<1>3. CASE Crash
  BY <1>3, MessageCrash
<1>4. ASSUME NEW p \in Proposals, Working(p) PROVE MessageInv' /\ LeadsInv'
  BY <1>1, <1>4, WorkerFrame, MessagesKept DEF telegram, handler, history
<1>5. CASE UNCHANGED vars
  BY <1>1, <1>5, MessagesKept DEF vars, telegram, handler, rows, bounds, history
<1> QED
  BY <1>1, <1>2, <1>3, <1>4, <1>5, StepKinds, MessageComing, MessageHandled

LEMMA MessageInit == Init => MessageInv /\ LeadsInv
<1> SUFFICES ASSUME Init PROVE MessageInv /\ LeadsInv
  OBVIOUS
<1>1. /\ \A u \in Updates : update[u].kind = "none"
      /\ \A l \in Leads : cameFrom[l] = None
      /\ crashes = 0
  BY DEF Init, Nothing
<1>2. \A m \in Messages : LeadsOf(m) = {}
  BY <1>1, BotAssumption DEF LeadsOf
<1>3. LeadsInv
  BY <1>1, <1>2, FS_EmptySet DEF LeadsInv
<1> QED
  BY <1>1, <1>3 DEF MessageInv

\* A message makes one lead, and one more for each time the bot died: intake_lead
\* does not look at channel_message_id, so this rests on the polling alone, and a
\* transaction that fails, a lost reply or an overlap makes no second lead.
THEOREM OneLeadEach == Spec => []OneLeadPerMessage
<1>1. LeadsInv => OneLeadPerMessage
  BY DEF LeadsInv, LeadsOf, OneLeadPerMessage
<1> QED
  BY <1>1, BotInit, BotStep, MessageInit, MessageStep, PTL DEF Spec

-----------------------------------------------------------------------------
(***************************************************************************)
(* The way on.  A lead is moved by a button or by its reminder.  A button  *)
(* once owed is shown or is missed, and a shown one stays; a job once      *)
(* inserted stays until it is done or has failed.                          *)
(***************************************************************************)

\* The button is there, is owed, or is known to be missing.
Kept(b) == b \in due \/ Comes(b)

\* The reminder was sent, will be sent, or has failed for good.
Pending(p) == followUp[p] = "sent" \/ job["remind"][p] \in {"open", "failed"}

WayOf(l) ==
  /\ lead[l] \in Qualifiable => Kept(Button("confirm", l))
  /\ lead[l] = "qualified" => Kept(Button("propose", l))
  /\ lead[l] = "proposal_sent" => \E p \in Proposals : proposal[p].lead = l /\ Pending(p)

WayInv ==
  /\ \A p \in Proposals : proposal[p].status = "none" => proposal[p].lead = None
  /\ \A l \in Leads : WayOf(l)

LEMMA SameOwed ==
  ASSUME NEW u, step'[u] = step[u], update'[u] = update[u], made'[u] = made[u]
  PROVE  Owed(u)' = Owed(u)
  BY DEF Owed, Told

\* What a handler that writes a row owes: what it owed, and a fresh lead's or a
\* qualified lead's button.
LEMMA WritingOwes ==
  ASSUME UpdatesTyped, MadeInv, NEW u \in Updates, Writing(u)
  PROVE  /\ Owed(u) \subseteq Owed(u)'
         /\ update[u].kind = "text" => Owed(u)' = {Button("confirm", made'[u])}
         /\ update[u].kind = "confirm" => Owed(u)' = {Button("propose", Told(u))}
<1>1. PICK next \in {"extract", "write", "reply"} : Moves(u, next)
  BY WritingMoves
<1>2. step'[u] \in {"extract", "write", "reply"} /\ update'[u] = update[u]
  BY <1>1 DEF Moves, UpdatesTyped
<1>3. /\ update[u].kind = "text" => Owed(u)' = {Button("confirm", made'[u])}
      /\ update[u].kind = "confirm" => Owed(u)' = {Button("propose", Told(u))}
      /\ update[u].kind = "propose" => Owed(u)' = {Button("publish", made'[u])}
  BY <1>2 DEF Owed, Told
<1>4. CASE ExtractLead(u)
  <2>1. update[u].kind = "text" /\ step[u] = "extract" /\ made' = made
    BY <1>4 DEF ExtractLead, Commit, At
  <2>2. Owed(u) = {Button("confirm", made[u])}
    BY <2>1 DEF Owed
  <2> QED
    BY <1>3, <2>1, <2>2
<1>5. CASE WriteText(u)
  <2>1. update[u].kind = "propose" /\ step[u] = "write" /\ made' = made
    BY <1>5 DEF WriteText, Commit, At
  <2>2. Owed(u) = {Button("publish", made[u])}
    BY <2>1 DEF Owed
  <2> QED
    BY <1>3, <2>1, <2>2
<1>6. CASE \/ CreateLead(u) \/ QualifyLead(u) \/ CreateProposal(u) \/ InsertJob(u)
           \/ MarkSent(u) \/ RecordResult(u)
  <2>1. step[u] \in {"start", "insert"}
    BY <1>6 DEF CreateLead, QualifyLead, CreateProposal, InsertJob, MarkSent, RecordResult, Commit, At
  <2>2. Owed(u) = {}
    BY <2>1 DEF Owed
  <2> QED
    BY <1>3, <2>2
<1> QED
  BY <1>4, <1>5, <1>6 DEF Writing

\* No step takes a button from an update, unless it shows it or counts it as missed.
LEMMA OwedStep ==
  ASSUME BotInv, [Next]_vars, NEW u \in Updates
  PROVE  Owed(u) \subseteq buttons' \cup due' \cup Owed(u)'
<1>1. ShownTyped /\ UpdatesTyped /\ MadeInv /\ QueueTyped
  BY TypeParts DEF BotInv
<1>2. CASE step[u] \notin {"extract", "write", "reply"}
  <2>1. Owed(u) = {}
    BY <1>2 DEF Owed
  <2> QED
    BY <2>1
<1>3. CASE step[u] \in {"extract", "write", "reply"}
  <2>1. ASSUME NEW kind, NEW id, NEW allowed, Coming(kind, id, allowed) PROVE Owed(u)' = Owed(u)
    <3>1. PICK v \in Updates :
             /\ step[v] = "free"
             /\ update' = [update EXCEPT ![v] = [kind |-> kind, id |-> id, allowed |-> allowed]]
             /\ step' = [step EXCEPT ![v] = "waiting"]
      BY <2>1, Arrival DEF Coming
    <3>2. v # u /\ made' = made
      BY <1>3, <2>1, <3>1 DEF Coming, Arrive
    <3>3. step'[u] = step[u] /\ update'[u] = update[u]
      BY <1>1, <3>1, <3>2 DEF UpdatesTyped
    <3> QED
      BY <3>2, <3>3, SameOwed
  <2>2. CASE Poll
    <3>1. PICK answered \in BOOLEAN :
             /\ step' = [v \in Updates |->
                  IF v \in Gone THEN "free"
                  ELSE IF answered /\ v \in Range(Rest) THEN "start" ELSE step[v]]
             /\ Forget(Gone)
      BY <2>2, PollSteps
    <3>2. u \notin Gone /\ u \notin Range(Rest)
      BY <1>1, <1>3, WaitingRest DEF Gone
    <3>3. step'[u] = step[u] /\ update'[u] = update[u] /\ made'[u] = made[u]
      BY <3>1, <3>2 DEF Forget
    <3> QED
      BY <3>3, SameOwed
  <2>3. CASE Crash
    BY <2>3 DEF Crash
  <2>4. ASSUME NEW v \in Updates \ {u}, Ending(v) \/ Passing(v) \/ Writing(v)
        PROVE  Owed(u)' = Owed(u)
    <3>1. \E next \in After : Moves(v, next)
      BY <1>1, <2>4, HandleMoves
    <3>2. step'[u] = step[u] /\ update'[u] = update[u] /\ made'[u] = made[u]
      BY <1>1, <3>1 DEF Moves, UpdatesTyped
    <3> QED
      BY <3>2, SameOwed
  <2>5. CASE Ending(u) \/ Passing(u)
    BY <2>5, QuietShown
  <2>6. CASE Writing(u)
    BY <1>1, <2>6, WritingOwes
  <2>7. ASSUME NEW p \in Proposals, Working(p) PROVE Owed(u)' = Owed(u)
    BY <2>7, WorkerFrame, SameOwed DEF telegram, handler
  <2>8. CASE UNCHANGED vars
    BY <2>8, SameOwed DEF vars, telegram, handler
  <2> QED
    BY <1>1, <2>1, <2>2, <2>3, <2>4, <2>5, <2>6, <2>7, <2>8, StepKinds
<1> QED
  BY <1>2, <1>3

\* Nothing takes a button off a message, and what is missed stays so.
LEMMA ShownStay ==
  ASSUME BotInv, [Next]_vars
  PROVE  buttons \subseteq buttons' /\ due \subseteq due'
<1>1. ShownTyped /\ UpdatesTyped /\ MadeInv
  BY TypeParts DEF BotInv
<1>2. ASSUME NEW kind, NEW id, NEW allowed, Coming(kind, id, allowed)
      PROVE  buttons' = buttons /\ due' = due
  BY <1>2 DEF Coming, Arrive
<1>3. CASE Poll \/ Crash
  BY <1>3 DEF Poll, Crash, history
<1>4. ASSUME NEW u \in Updates, Writing(u) PROVE buttons' = buttons /\ due' = due
  BY <1>1, <1>4, WritingMoves
<1> QED
  BY <1>1, <1>2, <1>3, <1>4, StepKinds, QuietShown, WorkerFrame DEF vars, history

\* So no button is ever forgotten.
LEMMA KeptStep ==
  ASSUME BotInv, [Next]_vars, NEW b, Kept(b)
  PROVE  Kept(b)'
<1>1. Kept(b)' <=> b \in due' \/ b \in buttons' \/ \E u \in Updates : b \in Owed(u)'
  BY DEF Kept, Comes
<1>2. CASE b \in due \/ b \in buttons
  BY <1>1, <1>2, ShownStay
<1>3. ASSUME NEW u \in Updates, b \in Owed(u) PROVE Kept(b)'
  BY <1>1, <1>3, OwedStep
<1> QED
  BY <1>2, <1>3 DEF Kept, Comes

\* A button that a handler owes after its commit is kept from then on.
LEMMA OwedIsKept ==
  ASSUME NEW u \in Updates, NEW b, b \in Owed(u)'
  PROVE  Kept(b)'
<1>1. Kept(b)' <=> b \in due' \/ b \in buttons' \/ \E v \in Updates : b \in Owed(v)'
  BY DEF Kept, Comes
<1> QED
  BY <1>1

\* The reminder of a sent proposal is pending until it has been sent.
LEMMA PendingStep ==
  ASSUME BotInv, [Next]_vars, NEW p \in Proposals, Pending(p)
  PROVE  Pending(p)'
<1>1. ShownTyped /\ RowsTyped
  BY TypeParts DEF BotInv
<1>2. CASE UNCHANGED <<followUp, job>>
  BY <1>2 DEF Pending
<1>3. ASSUME NEW u \in Updates, MarkSent(u) PROVE Pending(p)'
  <2>1. /\ followUp' = [followUp EXCEPT ![Told(u)] = "pending"]
        /\ job' = [job EXCEPT !["remind"][Told(u)] = "open"]
    BY <1>3 DEF MarkSent
  <2>2. CASE Told(u) = p
    <3>1. job'["remind"][p] = "open"
      BY <1>1, <2>1, <2>2 DEF RowsTyped
    <3> QED
      BY <3>1 DEF Pending
  <2>3. CASE Told(u) # p
    <3>1. job'["remind"][p] = job["remind"][p] /\ followUp'[p] = followUp[p]
      BY <1>1, <2>1, <2>3 DEF RowsTyped
    <3> QED
      BY <3>1 DEF Pending
  <2> QED
    BY <2>2, <2>3
<1>4. ASSUME NEW u \in Updates, InsertJob(u) PROVE Pending(p)'
  <2>1. /\ followUp' = followUp
        /\ job' = [job EXCEPT !["publish"][Told(u)] = "open"]
    BY <1>4 DEF InsertJob
  <2>2. job'["remind"][p] = job["remind"][p]
    BY <1>1, <2>1 DEF RowsTyped
  <2> QED
    BY <2>1, <2>2 DEF Pending
<1>5. ASSUME NEW u \in Updates, Writing(u), ~MarkSent(u), ~InsertJob(u)
      PROVE  UNCHANGED <<followUp, job>>
  BY <1>5 DEF Writing, CreateLead, ExtractLead, QualifyLead, CreateProposal, WriteText, RecordResult
<1>6. ASSUME NEW q \in Proposals, Working(q) PROVE Pending(p)'
  <2>1. CASE SendLink(q)
    <3>1. followUp' = followUp /\ job' = [job EXCEPT !["publish"][q] = "done"]
      BY <2>1 DEF SendLink
    <3>2. job'["remind"][p] = job["remind"][p]
      BY <1>1, <3>1 DEF RowsTyped
    <3> QED
      BY <3>1, <3>2 DEF Pending
  <2>2. CASE SendReminder(q)
    BY <1>2, <2>2 DEF SendReminder, rows
  <2>3. CASE RecordReminder(q)
    <3>1. /\ followUp' = [followUp EXCEPT ![q] = "sent"]
          /\ job' = [job EXCEPT !["remind"][q] = "done"]
      BY <2>3 DEF RecordReminder
    <3>2. CASE q = p
      <4>1. followUp'[p] = "sent"
        BY <1>1, <3>1, <3>2 DEF RowsTyped
      <4> QED
        BY <4>1 DEF Pending
    <3>3. CASE q # p
      <4>1. followUp'[p] = followUp[p] /\ job'["remind"][p] = job["remind"][p]
        BY <1>1, <3>1, <3>3 DEF RowsTyped
      <4> QED
        BY <4>1 DEF Pending
    <3> QED
      BY <3>2, <3>3
  <2>4. ASSUME NEW type \in {"publish", "remind"}, JobFails(type, q) PROVE Pending(p)'
    <3>1. followUp' = followUp /\ job' = [job EXCEPT ![type][q] = "failed"]
      BY <2>4 DEF JobFails
    <3>2. job'["remind"][p] \in {job["remind"][p], "failed"}
      BY <1>1, <3>1 DEF RowsTyped
    <3> QED
      BY <3>1, <3>2 DEF Pending
  <2> QED
    BY <1>6, <2>1, <2>2, <2>3, <2>4 DEF Working, Work
<1>7. ASSUME NEW kind, NEW id, NEW allowed, Coming(kind, id, allowed)
      PROVE  UNCHANGED <<followUp, job>>
  BY <1>7 DEF Coming, Arrive, rows
<1>8. CASE Poll \/ Crash
  BY <1>2, <1>8 DEF Poll, Crash, rows
<1>9. ASSUME NEW u \in Updates, Ending(u) \/ Passing(u) PROVE UNCHANGED <<followUp, job>>
  BY <1>9, QuietShown DEF rows
<1> QED
  BY <1>1, <1>2, <1>3, <1>4, <1>5, <1>6, <1>7, <1>8, <1>9, StepKinds DEF vars, rows

\* A lead whose status stays, keeps its way.
LEMMA SameWay ==
  ASSUME BotInv, [Next]_vars, NEW l \in Leads, WayOf(l), lead'[l] = lead[l],
         \A p \in Proposals : proposal[p].lead = l => proposal'[p].lead = l
  PROVE  WayOf(l)'
<1>1. WayOf(l)' <=>
        /\ lead'[l] \in Qualifiable => Kept(Button("confirm", l))'
        /\ lead'[l] = "qualified" => Kept(Button("propose", l))'
        /\ lead'[l] = "proposal_sent" => \E p \in Proposals : proposal'[p].lead = l /\ Pending(p)'
  BY DEF WayOf, Qualifiable, Button
<1>2. lead[l] \in Qualifiable => Kept(Button("confirm", l))'
  BY KeptStep DEF WayOf
<1>3. lead[l] = "qualified" => Kept(Button("propose", l))'
  BY KeptStep DEF WayOf
<1>4. lead[l] = "proposal_sent" => \E p \in Proposals : proposal'[p].lead = l /\ Pending(p)'
  <2> SUFFICES ASSUME lead[l] = "proposal_sent"
               PROVE  \E p \in Proposals : proposal'[p].lead = l /\ Pending(p)'
    OBVIOUS
  <2>1. PICK p \in Proposals : proposal[p].lead = l /\ Pending(p)
    BY DEF WayOf
  <2> QED
    BY <2>1, PendingStep
<1> QED
  BY <1>1, <1>2, <1>3, <1>4

\* Steps that write neither table.
LEMMA WayQuiet ==
  ASSUME BotInv, WayInv, [Next]_vars, UNCHANGED <<lead, proposal>>
  PROVE  WayInv'
<1>1. \A l \in Leads : WayOf(l)'
  BY SameWay DEF WayInv
<1> QED
  BY <1>1 DEF WayInv

\* Steps that write a lead's status, whose proposals keep their leads.
LEMMA WayOneLead ==
  ASSUME BotInv, WayInv, [Next]_vars, NEW k, NEW s, lead' = [lead EXCEPT ![k] = s],
         \A p \in Proposals : /\ proposal'[p].lead = proposal[p].lead
                              /\ proposal'[p].status = "none" => proposal[p].status = "none",
         k \in Leads => WayOf(k)'
  PROVE  WayInv'
<1>1. ASSUME NEW l \in Leads PROVE WayOf(l)'
  <2>1. CASE l = k
    BY <1>1, <2>1
  <2>2. CASE l # k
    <3>1. lead'[l] = lead[l]
      BY <2>2, TypeParts DEF BotInv, RowsTyped
    <3> QED
      BY <3>1, SameWay DEF WayInv
  <2> QED
    BY <2>1, <2>2
<1>2. \A p \in Proposals : proposal'[p].status = "none" => proposal'[p].lead = None
  BY DEF WayInv
<1> QED
  BY <1>1, <1>2 DEF WayInv

LEMMA WayWriting ==
  ASSUME BotInv, WayInv, [Next]_vars, NEW u \in Updates, Writing(u)
  PROVE  WayInv'
<1>1. UpdatesTyped /\ RowsTyped /\ MadeInv /\ Named(update[u].kind, Told(u)) /\ MadeRow(u)
  BY TypeParts DEF BotInv, NamesInv, MadeInv, Told
<1>2. lead \in [Leads -> LeadStatus] /\ proposal \in [Proposals -> ARow]
  BY <1>1 DEF RowsTyped
<1>3. /\ update[u].kind = "text" => Button("confirm", made'[u]) \in Owed(u)'
      /\ update[u].kind = "confirm" => Button("propose", Told(u)) \in Owed(u)'
  BY <1>1, WritingOwes
<1>4. CASE CreateLead(u)
  <2>1. PICK l \in Leads : lead' = [lead EXCEPT ![l] = "new"] /\ made' = [made EXCEPT ![u] = l]
    BY <1>4 DEF CreateLead
  <2>2. update[u].kind = "text" /\ proposal' = proposal /\ made'[u] = l /\ lead'[l] = "new"
    BY <1>1, <1>2, <1>4, <2>1 DEF CreateLead, Commit, At, UpdatesTyped
  <2>3. Kept(Button("confirm", l))'
    BY <1>3, <2>2, OwedIsKept
  <2>4. WayOf(l)'
    BY <2>2, <2>3 DEF WayOf, Button
  <2> QED
    BY <2>1, <2>2, <2>4, WayOneLead
<1>5. CASE ExtractLead(u)
  <2>1. PICK status \in {"qualifying", lead[made[u]]} : lead' = [lead EXCEPT ![made[u]] = status]
    BY <1>5 DEF ExtractLead
  <2>2. /\ update[u].kind = "text" /\ made[u] \in Leads
        /\ proposal' = proposal /\ made' = made /\ lead'[made[u]] = status
    BY <1>1, <1>2, <1>5, <2>1 DEF ExtractLead, Commit, At, MadeRow
  <2>3. PICK l \in Leads : l = made[u]
    BY <2>2
  <2>4. Kept(Button("confirm", l))'
    BY <1>3, <2>2, <2>3, OwedIsKept
  <2>5. WayOf(l)'
    <3>1. CASE status = lead[l]
      BY <2>2, <2>3, <3>1, SameWay DEF WayInv
    <3>2. CASE status = "qualifying"
      BY <2>2, <2>3, <2>4, <3>2 DEF WayOf, Button
    <3> QED
      BY <2>1, <2>3, <3>1, <3>2
  <2> QED
    BY <2>1, <2>2, <2>3, <2>5, WayOneLead
<1>6. CASE QualifyLead(u)
  <2>1. /\ update[u].kind = "confirm" /\ proposal' = proposal
        /\ lead' = [lead EXCEPT ![Told(u)] = "qualified"]
    BY <1>6 DEF QualifyLead, Commit, At
  <2>2. PICK l \in Leads : l = Told(u)
    BY <1>1, <2>1 DEF Named
  <2>3. Kept(Button("propose", l))'
    BY <1>3, <2>1, <2>2, OwedIsKept
  <2>4. lead'[l] = "qualified"
    BY <1>2, <2>1, <2>2
  <2>5. WayOf(l)'
    BY <2>3, <2>4 DEF WayOf, Button, Qualifiable
  <2> QED
    BY <2>1, <2>2, <2>5, WayOneLead
<1>7. CASE CreateProposal(u)
  <2>1. PICK p \in Proposals :
           /\ proposal[p].status = "none"
           /\ proposal' = [proposal EXCEPT ![p] = [lead |-> Told(u), status |-> "draft", text |-> FALSE]]
    BY <1>7 DEF CreateProposal
  <2>2. lead' = lead
    BY <1>7 DEF CreateProposal
  <2>3. proposal[p].lead = None
    BY <2>1 DEF WayInv
  <2>4. /\ \A q \in Proposals \ {p} : proposal'[q] = proposal[q]
        /\ proposal'[p].status = "draft"
    BY <1>2, <2>1
  <2>5. ASSUME NEW l \in Leads PROVE WayOf(l)'
    <3>1. l # None
      BY BotAssumption
    <3>2. \A q \in Proposals : proposal[q].lead = l => proposal'[q].lead = l
      BY <2>3, <2>4, <3>1
    <3> QED
      BY <2>2, <3>2, SameWay DEF WayInv
  <2>6. \A q \in Proposals : proposal'[q].status = "none" => proposal'[q].lead = None
    BY <2>4 DEF WayInv
  <2> QED
    BY <2>5, <2>6 DEF WayInv
<1>8. CASE WriteText(u)
  <2>1. PICK text \in BOOLEAN : proposal' = [proposal EXCEPT ![made[u]].text = text]
    BY <1>8 DEF WriteText
  <2>2. lead' = lead
    BY <1>8 DEF WriteText
  <2>3. \A p \in Proposals : /\ proposal'[p].lead = proposal[p].lead
                             /\ proposal'[p].status = proposal[p].status
    BY <1>2, <2>1 DEF ARow
  <2>4. \A l \in Leads : WayOf(l)'
    BY <2>2, <2>3, SameWay DEF WayInv
  <2> QED
    BY <2>3, <2>4 DEF WayInv
<1>9. CASE InsertJob(u)
  BY <1>9, WayQuiet DEF InsertJob
<1>10. CASE MarkSent(u)
  <2>1. /\ proposal' = [proposal EXCEPT ![Told(u)].status = "sent"]
        /\ lead' = [lead EXCEPT ![proposal[Told(u)].lead] = "proposal_sent"]
        /\ job' = [job EXCEPT !["remind"][Told(u)] = "open"]
    BY <1>10 DEF MarkSent
  <2>2. PICK p \in Proposals : p = Told(u)
    BY <1>1, <1>10 DEF MarkSent, Commit, At, Named
  <2>3. \A q \in Proposals : /\ proposal'[q].lead = proposal[q].lead
                             /\ proposal'[q].status = "none" => proposal[q].status = "none"
    BY <1>2, <2>1 DEF ARow
  <2>4. job'["remind"][p] = "open"
    BY <1>1, <2>1, <2>2 DEF RowsTyped
  <2>5. Pending(p)'
    BY <2>4 DEF Pending
  <2>6. PICK l : l = proposal[p].lead
    OBVIOUS
  <2>7. l \in Leads => WayOf(l)'
    <3>1. l \in Leads => lead'[l] = "proposal_sent"
      BY <1>2, <2>1, <2>2, <2>6
    <3>2. \E q \in Proposals : proposal'[q].lead = l /\ Pending(q)'
      BY <2>3, <2>5, <2>6
    <3> QED
      BY <3>1, <3>2 DEF WayOf, Qualifiable
  <2>8. lead' = [lead EXCEPT ![l] = "proposal_sent"]
    BY <2>1, <2>2, <2>6
  <2> QED
    BY <2>3, <2>7, <2>8, WayOneLead
<1>11. CASE RecordResult(u)
  <2>1. /\ proposal' = [proposal EXCEPT ![Told(u)].status = "answered"]
        /\ lead' = [lead EXCEPT ![proposal[Told(u)].lead] = "answered"]
    BY <1>11 DEF RecordResult
  <2>2. \A q \in Proposals : /\ proposal'[q].lead = proposal[q].lead
                             /\ proposal'[q].status = "none" => proposal[q].status = "none"
    BY <1>2, <2>1 DEF ARow
  <2>3. PICK l : l = proposal[Told(u)].lead
    OBVIOUS
  <2>4. lead' = [lead EXCEPT ![l] = "answered"]
    BY <2>1, <2>3
  <2>5. l \in Leads => WayOf(l)'
    <3>1. l \in Leads => lead'[l] = "answered"
      BY <1>2, <2>4
    <3> QED
      BY <3>1 DEF WayOf, Qualifiable
  <2> QED
    BY <2>2, <2>4, <2>5, WayOneLead
<1> QED
  BY <1>4, <1>5, <1>6, <1>7, <1>8, <1>9, <1>10, <1>11 DEF Writing

LEMMA WayStep == BotInv /\ WayInv /\ [Next]_vars => WayInv'
<1> SUFFICES ASSUME BotInv, WayInv, [Next]_vars PROVE WayInv'
  OBVIOUS
<1>1. ShownTyped
  BY TypeParts DEF BotInv
<1>2. ASSUME NEW kind, NEW id, NEW allowed, Coming(kind, id, allowed)
      PROVE  UNCHANGED <<lead, proposal>>
  BY <1>2 DEF Coming, Arrive, rows
<1>3. CASE Poll \/ Crash \/ UNCHANGED vars
  BY <1>3, WayQuiet DEF Poll, Crash, vars, rows
<1>4. ASSUME NEW u \in Updates, Ending(u) \/ Passing(u) PROVE UNCHANGED <<lead, proposal>>
  BY <1>4, QuietShown DEF rows
<1>5. ASSUME NEW p \in Proposals, Working(p) PROVE UNCHANGED <<lead, proposal>>
  BY <1>5, WorkerFrame
<1> QED
  BY <1>1, <1>2, <1>3, <1>4, <1>5, StepKinds, WayQuiet, WayWriting

LEMMA WayInit == Init => WayInv
<1> SUFFICES ASSUME Init PROVE WayInv
  OBVIOUS
<1>1. /\ \A l \in Leads : lead[l] = "none"
      /\ \A p \in Proposals : proposal[p].lead = None
  BY DEF Init
<1> QED
  BY <1>1 DEF WayInv, WayOf, Qualifiable

\* A lead is stuck only when the message with its confirm or propose button was
\* lost, or its reminder's last attempt failed: the loss of any other message, a
\* bot that dies between two commits, and two overlapping clicks leave a button.
THEOREM StuckByLoss == Spec => []StuckOnlyByLoss
<1>1. WayInv => StuckOnlyByLoss
  <2> SUFFICES ASSUME NEW l \in Leads, WayOf(l)
               PROVE  \/ Movable(l)
                      \/ lead[l] \in Qualifiable /\ Button("confirm", l) \in due
                      \/ lead[l] = "qualified" /\ Button("propose", l) \in due
                      \/ \E p \in Proposals : proposal[p].lead = l /\ job["remind"][p] = "failed"
    BY DEF WayInv, StuckOnlyByLoss
  <2>1. CASE lead[l] \in Qualifiable
    <3>1. Comes(Button("confirm", l)) => Movable(l)
      BY <2>1 DEF Movable, Qualifiable
    <3> QED
      BY <2>1, <3>1 DEF WayOf, Kept
  <2>2. CASE lead[l] = "qualified"
    <3>1. Comes(Button("propose", l)) => Movable(l)
      BY <2>2 DEF Movable, Qualifiable
    <3> QED
      BY <2>2, <3>1 DEF WayOf, Kept
  <2>3. CASE lead[l] = "proposal_sent"
    <3>1. (\E p \in Proposals : proposal[p].lead = l /\ Answerable(p)) => Movable(l)
      BY <2>3 DEF Movable, Qualifiable
    <3> QED
      BY <2>3, <3>1 DEF WayOf, Pending, Answerable
  <2>4. CASE lead[l] \notin Qualifiable /\ lead[l] # "qualified" /\ lead[l] # "proposal_sent"
    <3>1. Movable(l)
      BY <2>4 DEF Movable
    <3> QED
      BY <3>1
  <2> QED
    BY <2>1, <2>2, <2>3, <2>4
<1> QED
  BY <1>1, BotInit, BotStep, WayInit, WayStep, PTL DEF Spec
=============================================================================
