---------------------------- MODULE Publication -----------------------------
(***************************************************************************)
(* Publishing a proposal as a Google Doc: the operator's click enqueues a  *)
(* job, and a worker's handler creates the doc, inserts the Document row   *)
(* and sends the operator the link with the button that marks the proposal *)
(* as sent.                                                                *)
(*                                                                         *)
(* A job of this type has the key publish_proposal_to_gdoc:{id}, so a      *)
(* member of Jobs stands for a proposal and for its job.  Delivery says    *)
(* when a worker has it.  A step is one transaction or one external call.  *)
(***************************************************************************)
EXTENDS Integers, Delivery

CONSTANTS SenderTakesButtons,  \* telegram_sender.send_message has reply_markup
          Clicks,              \* clicks on the publish button, each in its own task
          NoJob,               \* a worker between two handlers
          MaxFaults            \* bound: workers or answers lost, failed inserts and sends

ASSUME PublicationAssumption ==
  /\ SenderTakesButtons \in BOOLEAN
  /\ NoJob \notin Jobs
  /\ MaxFaults \in Nat

VARIABLES
  request,    \* where each click is in publish_proposal_to_gdoc
  asked,      \* the proposal of the click
  handling,   \* the job whose handler each worker runs
  phase,      \* where it is in handle_publish_proposal_to_gdoc
  created,    \* docs created at Google, per proposal
  documents,  \* Document rows of kind gdoc, per proposal
  links,      \* links that reached the operator, per proposal
  faults      \* how much of MaxFaults is used

clickVars   == <<request, asked>>
handlerVars == <<handling, phase>>
effects     == <<created, documents, links>>
vars        == <<deliveryVars, clickVars, handlerVars, effects, faults>>

Init ==
  /\ DeliveryInit
  /\ request = [c \in Clicks |-> "none"]
  /\ asked = [c \in Clicks |-> NoJob]
  /\ handling = [w \in Workers |-> NoJob]
  /\ phase = [w \in Workers |-> "idle"]
  /\ created = [p \in Jobs |-> 0]
  /\ documents = [p \in Jobs |-> 0]
  /\ links = [p \in Jobs |-> 0]
  /\ faults = 0

Fault == faults < MaxFaults /\ faults' = faults + 1

-----------------------------------------------------------------------------
(***************************************************************************)
(* The click.  The proposal has a body: the use case refuses one without,  *)
(* and no code takes a body away.                                          *)
(***************************************************************************)

\* enqueue_job looks the key up.
LookUp(c, p) ==
  /\ request[c] = "none"
  /\ request' = [request EXCEPT ![c] = IF state[p] = "absent" THEN "missing" ELSE "found"]
  /\ asked' = [asked EXCEPT ![c] = p]
  /\ UNCHANGED <<deliveryVars, handlerVars, effects, faults>>

\* The existing job is returned, whatever its status, and the operator is told
\* that the worker will soon be at it.
RequestFound(c) ==
  /\ request[c] = "found"
  /\ request' = [request EXCEPT ![c] = "accepted"]
  /\ UNCHANGED <<deliveryVars, asked, handlerVars, effects, faults>>

RequestInserts(c) ==
  /\ request[c] = "missing"
  /\ Insert(asked[c])
  /\ request' = [request EXCEPT ![c] = "accepted"]
  /\ UNCHANGED <<asked, handlerVars, effects, faults>>

\* Another click inserted the key first: the unique index refuses the row, and
\* nothing in the bot catches the IntegrityError.
RequestCollides(c) ==
  /\ request[c] = "missing"
  /\ state[asked[c]] # "absent"
  /\ request' = [request EXCEPT ![c] = "error"]
  /\ UNCHANGED <<deliveryVars, asked, handlerVars, effects, faults>>

-----------------------------------------------------------------------------
(***************************************************************************)
(* The worker and its handler.                                             *)
(***************************************************************************)

PickJobs(w) ==
  /\ phase[w] = "idle"
  /\ \E picked \in SUBSET Jobs : picked # {} /\ Pick(w, picked)
  /\ UNCHANGED <<clickVars, handlerVars, effects, faults>>

LeaseRunsOut(p) ==
  /\ p \notin late
  /\ Outlive(p)
  /\ UNCHANGED <<clickVars, handlerVars, effects, faults>>

Enter(w, p, next) ==
  /\ handling' = [handling EXCEPT ![w] = p]
  /\ phase' = [phase EXCEPT ![w] = next]

Goto(w, here, next) ==
  /\ phase[w] = here
  /\ phase' = [phase EXCEPT ![w] = next]
  /\ UNCHANGED handling

\* Mutant: the handler does not look for a Document.
ReadProposalBlindly(w, p) ==
  /\ phase[w] = "idle"
  /\ <<w, p>> \in takes
  /\ Enter(w, p, "create")
  /\ UNCHANGED <<deliveryVars, clickVars, effects, faults>>

\* The first transaction: with a Document there already the handler returns
\* without a word.
ReadProposal(w, p) ==
  /\ phase[w] = "idle"
  /\ <<w, p>> \in takes
  /\ Enter(w, p, IF documents[p] > 0 THEN "returned" ELSE "create")
  /\ UNCHANGED <<deliveryVars, clickVars, effects, faults>>

\* gdocs.create_doc, outside any transaction.
CreateDoc(w) ==
  /\ Goto(w, "create", "store")
  /\ created' = [created EXCEPT ![handling[w]] = @ + 1]
  /\ UNCHANGED <<deliveryVars, clickVars, documents, links, faults>>

\* Mutant: the exception of create_doc is swallowed.
CreateSwallowed(w) ==
  /\ Goto(w, "create", "returned")
  /\ UNCHANGED <<deliveryVars, clickVars, effects, faults>>

CreateRaises(w) ==
  /\ Goto(w, "create", "raised")
  /\ UNCHANGED <<deliveryVars, clickVars, effects, faults>>

\* The doc is created but the answer is lost on the way.
CreateAnswerLost(w) ==
  /\ Fault
  /\ Goto(w, "create", "raised")
  /\ created' = [created EXCEPT ![handling[w]] = @ + 1]
  /\ UNCHANGED <<deliveryVars, clickVars, documents, links>>

\* Mutant: the notification is left out.
StoreWithoutNotice(w) ==
  /\ Goto(w, "store", "returned")
  /\ documents' = [documents EXCEPT ![handling[w]] = @ + 1]
  /\ UNCHANGED <<deliveryVars, clickVars, created, links, faults>>

\* Mutant: the transaction is left without a commit.
StoreUncommitted(w) ==
  /\ Goto(w, "store", "notify")
  /\ UNCHANGED <<deliveryVars, clickVars, effects, faults>>

\* The second transaction inserts the Document without a second look: no unique
\* index stops another row.
StoreDocument(w) ==
  /\ Goto(w, "store", "notify")
  /\ documents' = [documents EXCEPT ![handling[w]] = @ + 1]
  /\ UNCHANGED <<deliveryVars, clickVars, created, links, faults>>

StoreRaises(w) ==
  /\ Fault
  /\ Goto(w, "store", "raised")
  /\ UNCHANGED <<deliveryVars, clickVars, effects>>

\* _send_operator_link.
SendLink(w) ==
  /\ SenderTakesButtons
  /\ Goto(w, "notify", "returned")
  /\ links' = [links EXCEPT ![handling[w]] = @ + 1]
  /\ UNCHANGED <<deliveryVars, clickVars, created, documents, faults>>

\* A failure to send is logged and swallowed.  The sender the container builds
\* refuses every message with buttons: it has no parameter reply_markup.
SendLinkFails(w) ==
  /\ IF SenderTakesButtons THEN Fault ELSE UNCHANGED faults
  /\ Goto(w, "notify", "returned")
  /\ UNCHANGED <<deliveryVars, clickVars, effects>>

\* The worker finalizes the job: done, pending again, or failed.
Finalize(w) ==
  /\ \/ phase[w] = "returned" /\ Succeed(w, handling[w])
     \/ phase[w] = "raised" /\ Retry(w, handling[w])
     \/ phase[w] = "raised" /\ Fail(w, handling[w])
  /\ Enter(w, NoJob, "idle")
  /\ UNCHANGED <<clickVars, effects, faults>>

\* Mutant: the tick gives up its jobs and its handler goes on.
LoseJobsOnly(w) ==
  /\ Fault
  /\ \E p \in Jobs : <<w, p>> \in takes
  /\ Drop(w)
  /\ UNCHANGED <<clickVars, handlerVars, effects>>

\* The worker crashes, or a transaction of its tick fails.
LoseWorker(w) ==
  /\ Fault
  /\ \E p \in Jobs : <<w, p>> \in takes
  /\ Drop(w)
  /\ Enter(w, NoJob, "idle")
  /\ UNCHANGED <<clickVars, effects>>

-----------------------------------------------------------------------------
Handle(w) ==
  \/ \E p \in Jobs : ReadProposal(w, p)
  \/ CreateDoc(w) \/ CreateRaises(w) \/ CreateAnswerLost(w)
  \/ StoreDocument(w) \/ StoreRaises(w)
  \/ SendLink(w) \/ SendLinkFails(w)

Next ==
  \/ \E c \in Clicks : \/ \E p \in Jobs : LookUp(c, p)
                       \/ RequestFound(c) \/ RequestInserts(c) \/ RequestCollides(c)
  \/ \E p \in Jobs : LeaseRunsOut(p)
  \/ \E w \in Workers : PickJobs(w) \/ Handle(w) \/ Finalize(w) \/ LoseWorker(w)

Spec == Init /\ [][Next]_vars

-----------------------------------------------------------------------------
(***************************************************************************)
(* Properties.                                                             *)
(***************************************************************************)

Requests == {"none", "missing", "found", "accepted", "error"}
Phases   == {"idle", "create", "store", "notify", "returned", "raised"}

\* The types of the variables; a worker in a handler has picked the job.
TypeOK ==
  /\ DeliveryTypeOK
  /\ request \in [Clicks -> Requests]
  /\ asked \in [Clicks -> Jobs \cup {NoJob}]
  /\ handling \in [Workers -> Jobs \cup {NoJob}]
  /\ phase \in [Workers -> Phases]
  /\ created \in [Jobs -> Nat]
  /\ documents \in [Jobs -> Nat]
  /\ links \in [Jobs -> Nat]
  /\ faults \in 0 .. MaxFaults
  /\ \A c \in Clicks : request[c] # "none" => asked[c] \in Jobs
  /\ \A w \in Workers : phase[w] # "idle" => <<w, handling[w]>> \in takes

\* A publish job is done only when its Document is in the table, whichever of
\* its takes finalized it and whatever was lost on the way.
DoneMeansDocument ==
  \A p \in Jobs : state[p] = "done" => documents[p] > 0

\* Retries after any fault create no second Document, unless the lease ran out
\* under a live worker.
OneDocumentUnlessLate ==
  \A p \in Jobs \ late : documents[p] <= 1

\* The operator never gets the same link twice, with the same proviso.
OneLinkUnlessLate ==
  \A p \in Jobs \ late : links[p] <= 1

\* Without a fault the operator gets the link of every Document, even when the
\* lease runs out and a second worker finishes the job first.
LinkFollowsUnlessFault ==
  faults = 0 => \A p \in Jobs : documents[p] > 0 =>
     links[p] > 0 \/ \E w \in Workers : handling[w] = p /\ phase[w] = "notify"

-----------------------------------------------------------------------------
(***************************************************************************)
(* What the documents say, and the code does not do.                       *)
(***************************************************************************)

\* "worker is idempotent: the job run twice, the Document created once".
OneDocument ==
  \A p \in Jobs : documents[p] <= 1

\* "First invocation already created the Document + notified the operator": a
\* handler that finds a Document, and so returns silently, finds the link sent.
HitMeansNotified ==
  [][\A w \in Workers : phase[w] = "idle" /\ phase'[w] = "returned"
       => links[handling'[w]] > 0]_vars

\* "repeated calls with the same proposal_id return the existing pending job".
FoundMeansPending ==
  [][\A c \in Clicks : request[c] = "none" /\ request'[c] = "found"
       => state[asked'[c]] = "open"]_vars
=============================================================================
