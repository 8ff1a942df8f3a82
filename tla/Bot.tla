-------------------------------- MODULE Bot ---------------------------------
(***************************************************************************)
(* The bot's conversation with the operator: updates fetched from Telegram *)
(* by long polling, a handler in a task of its own for each of them, the   *)
(* use case it calls, and the message with the next button.                *)
(*                                                                         *)
(* An update is confirmed by the request that asks for the next ones,      *)
(* whether its handler is over or not: a bot that dies loses the confirmed *)
(* ones it was handling, and gets the others once more when it is          *)
(* restarted.  Buttons are never taken off a message.                      *)
(*                                                                         *)
(* A transaction that reads, decides and commits is one step here; what    *)
(* overlapping ones do to each other is LeadWorkflow's.  The worker's      *)
(* handlers are cut down to their messages (Publication, Reminders).       *)
(***************************************************************************)
EXTENDS Integers, Sequences, FiniteSets, SequencesExt

CONSTANTS Updates,     \* bound: updates on their way or handled at the same time
          Messages,    \* bound: messages with a lead the operator writes
          Leads,       \* bound: rows of leads
          Proposals,   \* bound: rows of proposals
          None,        \* no lead, no proposal, no update
          SenderTakesButtons,  \* telegram_sender.send_message has reply_markup
          MaxStrange,  \* bound: updates of users that are not on the allowlist
          MaxLosses    \* bound: crashes, lost messages, failed transactions and jobs

ASSUME BotAssumption ==
  /\ None \notin Messages \cup Leads \cup Proposals
  /\ SenderTakesButtons \in BOOLEAN
  /\ MaxStrange \in Nat /\ MaxLosses \in Nat

VARIABLES
  queue,     \* Telegram's updates that are not confirmed, in their order
  fetched,   \* how many of them are handed to a handler
  update,    \* what each update is
  step,      \* where its handler is
  made,      \* the row its first transaction inserted
  lead,      \* leads.status, "none" before the insert
  cameFrom,  \* leads.channel_message_id
  proposal,  \* proposals: lead_id, status, and whether there is a text
  followUp,  \* follow_ups.status of the proposal's follow-up
  job,       \* the publish and the remind job of each proposal
  buttons,   \* the buttons in the operator's chat
  due,       \* history: the buttons whose message was owed and never came
  lost,      \* history: the requests whose last try ended before its first commit
  written,   \* the messages the operator has written
  strange,   \* how much of MaxStrange is used
  losses,    \* how much of MaxLosses is used
  crashes    \* history: how often the bot died

telegram == <<queue, fetched, update>>
handler  == <<step, made>>
rows     == <<lead, cameFrom, proposal, followUp, job>>
bounds   == <<written, strange, losses>>
history  == <<due, lost, crashes>>
vars     == <<telegram, handler, rows, buttons, history, bounds>>

Kinds   == {"text", "confirm", "propose", "publish", "mark_sent", "outcome"}
Nothing == [kind |-> "none", id |-> None, allowed |-> FALSE]

Init ==
  /\ queue = <<>>
  /\ fetched = 0
  /\ update = [u \in Updates |-> Nothing]
  /\ step = [u \in Updates |-> "free"]
  /\ made = [u \in Updates |-> None]
  /\ lead = [l \in Leads |-> "none"]
  /\ cameFrom = [l \in Leads |-> None]
  /\ proposal = [p \in Proposals |-> [lead |-> None, status |-> "none", text |-> FALSE]]
  /\ followUp = [p \in Proposals |-> "none"]
  /\ job = [type \in {"publish", "remind"} |-> [p \in Proposals |-> "none"]]
  /\ buttons = {}
  /\ due = {}
  /\ lost = {}
  /\ written = {}
  /\ strange = 0
  /\ losses = 0
  /\ crashes = 0

Loss == losses < MaxLosses /\ losses' = losses + 1

Button(kind, id) == [kind |-> kind, id |-> id]

-----------------------------------------------------------------------------
(***************************************************************************)
(* The operator, Telegram, and the bot's polling.                          *)
(***************************************************************************)

InFlight(kind) == {u \in Updates : update[u].kind = kind}

\* There is a row left for each update in flight, and leads for the messages that
\* may come again.
Room(kind) ==
  LET pending == Cardinality(InFlight(kind)) + 1 IN
  /\ kind = "text" => Cardinality({l \in Leads : lead[l] = "none"})
                        >= pending * (1 + MaxLosses - losses)
  /\ kind = "propose" => Cardinality({p \in Proposals : proposal[p].status = "none"}) >= pending

Arrive(kind, id, allowed) ==
  /\ \E u \in Updates :
       /\ step[u] = "free"
       /\ update' = [update EXCEPT ![u] = [kind |-> kind, id |-> id, allowed |-> allowed]]
       /\ step' = [step EXCEPT ![u] = "waiting"]
       /\ queue' = Append(queue, u)
  /\ Room(kind)
  /\ allowed \/ strange < MaxStrange
  /\ strange' = IF allowed THEN strange ELSE strange + 1
  /\ lost' = IF allowed THEN lost \ {Button(kind, id)} ELSE lost
  /\ UNCHANGED <<fetched, made, rows, due, losses, crashes>>

Write(m, allowed) ==
  /\ m \notin written
  /\ written' = written \cup {m}
  /\ Arrive("text", m, allowed)
  /\ UNCHANGED buttons

\* Mutant: a click takes the button away.
ClickOnce(b, allowed) ==
  /\ b \in buttons
  /\ Arrive(b.kind, b.id, allowed)
  /\ buttons' = buttons \ {b}
  /\ UNCHANGED written

Click(b, allowed) ==
  /\ b \in buttons
  /\ Arrive(b.kind, b.id, allowed)
  /\ UNCHANGED <<buttons, written>>

\* These updates leave the model.
Forget(gone) ==
  /\ update' = [u \in Updates |-> IF u \in gone THEN Nothing ELSE update[u]]
  /\ made' = [u \in Updates |-> IF u \in gone THEN None ELSE made[u]]

\* getUpdates: the request confirms what was fetched before, and a task is
\* started for each update of the answer, whatever the earlier ones are doing.
Poll ==
  \E answered \in BOOLEAN :
    LET confirmed == {queue[i] : i \in 1 .. fetched}
        gone == {u \in confirmed : step[u] = "done"}
        rest == SubSeq(queue, fetched + 1, Len(queue)) IN
    /\ fetched > 0 \/ (answered /\ rest # <<>>)
    /\ queue' = rest
    /\ fetched' = IF answered THEN Len(rest) ELSE 0
    /\ step' = [u \in Updates |->
         IF u \in gone THEN "free"
         ELSE IF answered /\ u \in Range(rest) THEN "start" ELSE step[u]]
    /\ Forget(gone)
    /\ UNCHANGED <<rows, buttons, history, bounds>>

-----------------------------------------------------------------------------
(***************************************************************************)
(* Handlers.                                                               *)
(***************************************************************************)

At(u, kind, here) == update[u].kind = kind /\ step[u] = here

Told(u) == update[u].id

Goto(u, next) ==
  /\ step' = [step EXCEPT ![u] = next]
  /\ UNCHANGED update

\* The handler of u ends; an update that is not confirmed may come again.
End(u) ==
  IF u \in Range(queue)
  THEN Goto(u, "done") /\ UNCHANGED made
  ELSE step' = [step EXCEPT ![u] = "free"] /\ Forget({u})

\* The keyboard of the reply that u owes since its first commit.
Owed(u) ==
  IF step[u] \notin {"extract", "write", "reply"} THEN {}
  ELSE CASE update[u].kind = "text"    -> {Button("confirm", made[u])}
         [] update[u].kind = "confirm" -> {Button("propose", Told(u))}
         [] update[u].kind = "propose" -> {Button("publish", made[u])}
         [] OTHER                      -> {}

\* The requests of these updates of which nothing is committed.
Unserved(us) ==
  {Button(update[u].kind, Told(u)) :
     u \in {v \in us : update[v].allowed /\ step[v] \in {"start", "insert"}}}

\* The use case refuses, or its work is done, without a write.
Step(u, kind, here, next) ==
  /\ At(u, kind, here)
  /\ Goto(u, next)
  /\ UNCHANGED <<queue, fetched, made, rows, buttons, history, bounds>>

\* The handler ends where it began: a user it does not serve, or an error it
\* catches and tells by cb.answer().
Refuse(u, kind) ==
  /\ At(u, kind, "start")
  /\ End(u)
  /\ UNCHANGED <<queue, fetched, rows, buttons, history, bounds>>

\* A commit that changes rows, which the caller says how.
Commit(u, kind, here, next) ==
  /\ At(u, kind, here)
  /\ Goto(u, next)
  /\ UNCHANGED <<queue, fetched, buttons, history, bounds>>

\* Mutant: the transaction is left without a commit.
CreateUncommitted(u) == Step(u, "text", "start", "raised")

\* intake_lead, first transaction: no look at channel_message_id.
CreateLead(u) ==
  /\ Commit(u, "text", "start", "extract")
  /\ \E l \in Leads :
       /\ lead[l] = "none"
       /\ lead' = [lead EXCEPT ![l] = "new"]
       /\ cameFrom' = [cameFrom EXCEPT ![l] = Told(u)]
       /\ made' = [made EXCEPT ![u] = l]
  /\ UNCHANGED <<proposal, followUp, job>>

\* ... and second: the extractor answered, or raised and the lead stays new.
ExtractLead(u) ==
  /\ Commit(u, "text", "extract", "reply")
  /\ \E status \in {"qualifying", lead[made[u]]} :
       lead' = [lead EXCEPT ![made[u]] = status]
  /\ UNCHANGED <<made, cameFrom, proposal, followUp, job>>

\* Mutant: the use case is called again.
TransactionRetried(u, kind) ==
  /\ update[u].kind = kind
  /\ step[u] \in {"start", "extract", "write", "insert"}
  /\ Loss
  /\ Goto(u, "start")
  /\ UNCHANGED <<queue, fetched, made, rows, buttons, history, written, strange>>

\* The transaction that is under way fails and is rolled back: a statement, the
\* commit, or an AI answer (a NaN, a number, a character) the table cannot hold.
\* No handler catches it.
TransactionFails(u, kind) ==
  /\ update[u].kind = kind
  /\ step[u] \in {"start", "extract", "write", "insert"}
  /\ Loss
  /\ due' = due \cup Owed(u)
  /\ lost' = lost \cup Unserved({u})
  /\ Goto(u, "raised")
  /\ UNCHANGED <<queue, fetched, made, rows, buttons, written, strange, crashes>>

Qualifiable == {"new", "qualifying"}

\* qualify_lead, or LeadCannotQualifyError.
QualifyLead(u) ==
  /\ Commit(u, "confirm", "start", "reply")
  /\ lead[Told(u)] \in Qualifiable
  /\ lead' = [lead EXCEPT ![Told(u)] = "qualified"]
  /\ UNCHANGED <<made, cameFrom, proposal, followUp, job>>

CannotQualify(u) == Refuse(u, "confirm") /\ lead[Told(u)] \notin Qualifiable

\* generate_proposal, first transaction, or LeadNotQualifiedError.
CreateProposal(u) ==
  /\ Commit(u, "propose", "start", "write")
  /\ lead[Told(u)] = "qualified"
  /\ \E p \in Proposals :
       /\ proposal[p].status = "none"
       /\ proposal' = [proposal EXCEPT ![p] =
            [lead |-> Told(u), status |-> "draft", text |-> FALSE]]
       /\ made' = [made EXCEPT ![u] = p]
  /\ UNCHANGED <<lead, cameFrom, followUp, job>>

NotQualified(u) == Refuse(u, "propose") /\ lead[Told(u)] # "qualified"

\* ... and second: a text, or the writer raised and the draft stays empty.
WriteText(u) ==
  /\ Commit(u, "propose", "write", "reply")
  /\ \E text \in BOOLEAN : proposal' = [proposal EXCEPT ![made[u]].text = text]
  /\ UNCHANGED <<made, lead, cameFrom, followUp, job>>

\* publish_proposal_to_gdoc: ProposalNotReadyError, or the look at the job's key.
NotReady(u) == Refuse(u, "publish") /\ ~proposal[Told(u)].text

LookUpJob(u) ==
  /\ Step(u, "publish", "start",
          IF job["publish"][Told(u)] = "none" THEN "insert" ELSE "reply")
  /\ proposal[Told(u)].text

\* Mutant: the transaction is left without a commit.
InsertUncommitted(u) == Step(u, "publish", "insert", "reply")

InsertJob(u) ==
  /\ Commit(u, "publish", "insert", "reply")
  /\ job["publish"][Told(u)] = "none"
  /\ job' = [job EXCEPT !["publish"][Told(u)] = "open"]
  /\ UNCHANGED <<made, lead, cameFrom, proposal, followUp>>

\* Another click inserted the key in between: IntegrityError.
InsertRefused(u) ==
  /\ Step(u, "publish", "insert", "raised")
  /\ job["publish"][Told(u)] # "none"

\* mark_proposal_sent, or ProposalNotInDraftError.
MarkSent(u) ==
  /\ Commit(u, "mark_sent", "start", "reply")
  /\ proposal[Told(u)].status = "draft"
  /\ proposal' = [proposal EXCEPT ![Told(u)].status = "sent"]
  /\ lead' = [lead EXCEPT ![proposal[Told(u)].lead] = "proposal_sent"]
  /\ followUp' = [followUp EXCEPT ![Told(u)] = "pending"]
  /\ job' = [job EXCEPT !["remind"][Told(u)] = "open"]
  /\ UNCHANGED <<made, cameFrom>>

NotInDraft(u) == Refuse(u, "mark_sent") /\ proposal[Told(u)].status # "draft"

\* record_follow_up_result, accepted or declined, ...
RecordResult(u) ==
  /\ Commit(u, "outcome", "start", "reply")
  /\ followUp[Told(u)] = "sent"
  /\ proposal' = [proposal EXCEPT ![Told(u)].status = "answered"]
  /\ lead' = [lead EXCEPT ![proposal[Told(u)].lead] = "answered"]
  /\ UNCHANGED <<made, cameFrom, followUp, job>>

\* ... waiting, or FollowUpNotSentError.
StillWaiting(u) == Step(u, "outcome", "start", "reply") /\ followUp[Told(u)] = "sent"
NotSent(u) == Refuse(u, "outcome") /\ followUp[Told(u)] # "sent"

\* An exception no handler catches: aiogram logs it, and the operator is told
\* nothing.
Escape(u) ==
  /\ step[u] = "raised"
  /\ End(u)
  /\ UNCHANGED <<queue, fetched, rows, buttons, history, bounds>>

\* The message to the chat, with its keyboard, and cb.answer().
Reply(u) ==
  /\ step[u] = "reply"
  /\ Owed(u) # {} => SenderTakesButtons
  /\ buttons' = buttons \cup Owed(u)
  /\ End(u)
  /\ UNCHANGED <<queue, fetched, rows, history, bounds>>

\* The message does not go out: the exception ends the handler.
ReplyFails(u) ==
  /\ step[u] = "reply"
  /\ IF Owed(u) # {} /\ ~SenderTakesButtons THEN UNCHANGED losses ELSE Loss
  /\ due' = due \cup Owed(u)
  /\ End(u)
  /\ UNCHANGED <<queue, fetched, rows, buttons, lost, written, strange, crashes>>

\* Mutant: what was fetched counts as fetched by the new process.
CrashRemembers ==
  /\ Loss
  /\ crashes' = crashes + 1
  /\ step' = [u \in Updates |-> IF u \in Range(queue) THEN "waiting" ELSE "free"]
  /\ Forget(Updates \ Range(queue))
  /\ due' = due \cup UNION {Owed(u) : u \in Updates}
  /\ lost' = lost \cup Unserved(Updates \ Range(queue))
  /\ UNCHANGED <<queue, fetched, rows, buttons, written, strange>>

\* The bot dies or is stopped, with its tasks, and is restarted.
Crash ==
  /\ Loss
  /\ crashes' = crashes + 1
  /\ fetched' = 0
  /\ step' = [u \in Updates |-> IF u \in Range(queue) THEN "waiting" ELSE "free"]
  /\ Forget(Updates \ Range(queue))
  /\ due' = due \cup UNION {Owed(u) : u \in Updates}
  /\ lost' = lost \cup Unserved(Updates \ Range(queue))
  /\ UNCHANGED <<queue, rows, buttons, written, strange>>

-----------------------------------------------------------------------------
(***************************************************************************)
(* The worker's messages.                                                  *)
(***************************************************************************)

\* handle_publish_proposal_to_gdoc; the link is tried once.
SendLink(p) ==
  /\ job["publish"][p] = "open"
  /\ job' = [job EXCEPT !["publish"][p] = "done"]
  /\ \/ /\ SenderTakesButtons
        /\ buttons' = buttons \cup {Button("mark_sent", p)}
        /\ UNCHANGED losses
     \/ /\ IF SenderTakesButtons THEN Loss ELSE UNCHANGED losses
        /\ UNCHANGED buttons
  /\ UNCHANGED <<telegram, handler, lead, cameFrom, proposal, followUp, history,
                 written, strange>>

\* send_follow_up: the message, and then the commit.
SendReminder(p) ==
  /\ job["remind"][p] = "open"
  /\ SenderTakesButtons
  /\ Button("outcome", p) \notin buttons
  /\ buttons' = buttons \cup {Button("outcome", p)}
  /\ UNCHANGED <<telegram, handler, rows, history, bounds>>

RecordReminder(p) ==
  /\ job["remind"][p] = "open"
  /\ Button("outcome", p) \in buttons
  /\ followUp' = [followUp EXCEPT ![p] = "sent"]
  /\ job' = [job EXCEPT !["remind"][p] = "done"]
  /\ UNCHANGED <<telegram, handler, lead, cameFrom, proposal, buttons, history, bounds>>

\* The last attempt of a job fails.
JobFails(type, p) ==
  /\ Loss
  /\ job[type][p] = "open"
  /\ job' = [job EXCEPT ![type][p] = "failed"]
  /\ UNCHANGED <<telegram, handler, lead, cameFrom, proposal, followUp, buttons, history,
                 written, strange>>

-----------------------------------------------------------------------------
(***************************************************************************)
(* The handlers, each of which asks for itself who the user is.            *)
(***************************************************************************)

OnText(u) ==
  \/ /\ ~update[u].allowed
     /\ Refuse(u, "text")
  \/ /\ update[u].allowed
     /\ CreateLead(u) \/ ExtractLead(u) \/ TransactionFails(u, "text")

OnConfirm(u) ==
  \/ /\ ~update[u].allowed
     /\ Refuse(u, "confirm")
  \/ /\ update[u].allowed
     /\ QualifyLead(u) \/ CannotQualify(u) \/ TransactionFails(u, "confirm")

OnPropose(u) ==
  \/ /\ ~update[u].allowed
     /\ Refuse(u, "propose")
  \/ /\ update[u].allowed
     /\ CreateProposal(u) \/ NotQualified(u) \/ WriteText(u) \/ TransactionFails(u, "propose")

OnPublish(u) ==
  \/ /\ ~update[u].allowed
     /\ Refuse(u, "publish")
  \/ /\ update[u].allowed
     /\ \/ NotReady(u) \/ LookUpJob(u) \/ InsertJob(u) \/ InsertRefused(u)
        \/ TransactionFails(u, "publish")

OnMarkSent(u) ==
  \/ /\ ~update[u].allowed
     /\ Refuse(u, "mark_sent")
  \/ /\ update[u].allowed
     /\ MarkSent(u) \/ NotInDraft(u) \/ TransactionFails(u, "mark_sent")

OnOutcome(u) ==
  \/ /\ ~update[u].allowed
     /\ Refuse(u, "outcome")
  \/ /\ update[u].allowed
     /\ RecordResult(u) \/ StillWaiting(u) \/ NotSent(u) \/ TransactionFails(u, "outcome")

Handle(u) ==
  \/ OnText(u) \/ OnConfirm(u) \/ OnPropose(u) \/ OnPublish(u) \/ OnMarkSent(u) \/ OnOutcome(u)
  \/ Escape(u) \/ Reply(u) \/ ReplyFails(u)

Work(p) == SendLink(p) \/ SendReminder(p) \/ RecordReminder(p)

Next ==
  \/ \E allowed \in BOOLEAN : \/ \E m \in Messages : Write(m, allowed)
                             \/ \E b \in buttons : Click(b, allowed)
  \/ Poll \/ Crash
  \/ \E u \in Updates : Handle(u)
  \/ \E p \in Proposals : Work(p) \/ \E type \in {"publish", "remind"} : JobFails(type, p)

Spec == Init /\ [][Next]_vars

\* The event loop goes on polling and running its tasks, and the worker working
\* (JobQueue); the operator owes nothing.
FairSpec ==
  /\ Spec
  /\ WF_vars(Poll)
  /\ \A u \in Updates : WF_vars(Handle(u))
  /\ \A p \in Proposals : WF_vars(Work(p))

-----------------------------------------------------------------------------
(***************************************************************************)
(* Properties.                                                             *)
(***************************************************************************)

Steps == {"free", "waiting", "start", "extract", "write", "insert", "reply", "raised", "done"}

\* The types of the variables; an update is on its way, fetched or confirmed as
\* its place in the queue says.
TypeOK ==
  /\ queue \in Seq(Updates)
  /\ fetched \in 0 .. Len(queue)
  /\ update \in [Updates -> {Nothing} \cup
        [kind : Kinds, id : Messages \cup Leads \cup Proposals, allowed : BOOLEAN]]
  /\ step \in [Updates -> Steps]
  /\ made \in [Updates -> Leads \cup Proposals \cup {None}]
  /\ lead \in [Leads -> {"none", "new", "qualifying", "qualified", "proposal_sent", "answered"}]
  /\ cameFrom \in [Leads -> Messages \cup {None}]
  /\ proposal \in [Proposals -> [lead : Leads \cup {None}, text : BOOLEAN,
                                 status : {"none", "draft", "sent", "answered"}]]
  /\ followUp \in [Proposals -> {"none", "pending", "sent"}]
  /\ job \in [{"publish", "remind"} -> [Proposals -> {"none", "open", "done", "failed"}]]
  /\ buttons \cup due \subseteq [kind : Kinds \ {"text"}, id : Leads \cup Proposals]
  /\ written \subseteq Messages
  /\ strange \in 0 .. MaxStrange
  /\ losses \in 0 .. MaxLosses
  /\ lost \subseteq [kind : Kinds, id : Messages \cup Leads \cup Proposals]
  /\ crashes \in 0 .. losses
  /\ \A u \in Updates : step[u] = "waiting" <=> \E i \in fetched + 1 .. Len(queue) : queue[i] = u

\* A message makes one lead, and one more for each time the bot died before the
\* message was confirmed: no other failure, and no overlap, makes a second one.
OneLeadPerMessage ==
  \A m \in Messages : Cardinality({l \in Leads : cameFrom[l] = m}) <= 1 + crashes

\* The operator, or the worker, can still take lead l on.
Comes(b) == b \in buttons \/ \E u \in Updates : b \in Owed(u)

Answerable(p) == followUp[p] = "sent" \/ job["remind"][p] = "open"

Movable(l) ==
  CASE lead[l] \in Qualifiable    -> Comes(Button("confirm", l))
    [] lead[l] = "qualified"      -> Comes(Button("propose", l))
    [] lead[l] = "proposal_sent"  ->
         \E p \in Proposals : proposal[p].lead = l /\ Answerable(p)
    [] OTHER                      -> TRUE

\* A lead gets stuck only when the message with its confirm or its propose
\* button was lost, or a reminder failed for good: after the loss of any other
\* message, or a publish job that failed, a button is left that brings it back.
StuckOnlyByLoss ==
  \A l \in Leads :
    \/ Movable(l)
    \/ lead[l] \in Qualifiable /\ Button("confirm", l) \in due
    \/ lead[l] = "qualified" /\ Button("propose", l) \in due
    \/ \E p \in Proposals : proposal[p].lead = l /\ job["remind"][p] = "failed"

InTheBot(kind, id) ==
  \E u \in Updates : update[u] = [kind |-> kind, id |-> id, allowed |-> TRUE]

\* A message of the operator makes a lead, unless its transaction failed or the
\* bot died with it: behind other handlers, and with all other losses.
MessageMakesLead ==
  \A m \in Messages :
    InTheBot("text", m)
      ~> Button("text", m) \in lost \/ \E l \in Leads : cameFrom[l] = m

\* A publish click on a proposal with a text comes to a job that the worker ends,
\* done or failed, unless the click itself was lost before its commit: whichever
\* of two overlapping clicks inserts the job, whatever becomes of their replies,
\* and although an earlier click came to nothing.
PublishClickIsServed ==
  \A p \in Proposals :
    InTheBot("publish", p) /\ proposal[p].text
      ~> Button("publish", p) \in lost \/ job["publish"][p] \in {"done", "failed"}

-----------------------------------------------------------------------------
(***************************************************************************)
(* What the documents say, and the code does not do.                       *)
(***************************************************************************)

\* "The bot catches an exception of a use case: log, and an answer to the
\* operator".
FailureIsTold ==
  \A u \in Updates : step[u] # "raised"
=============================================================================
