------------------------- MODULE PublicationProofs --------------------------
(***************************************************************************)
(* The safety of publishing, for any number of workers, proposals, clicks  *)
(* and faults.                                                             *)
(*                                                                         *)
(* The argument: as long as the lease of a job has not run out under a     *)
(* live worker, Delivery gives it one taker, so what a handler has read    *)
(* about the Document is still true when it inserts it (DocumentInv), and  *)
(* so is what it knows about the link when it sends it (LinkInv).          *)
(***************************************************************************)
EXTENDS Publication, DeliveryProofs

\* What the phase of a handler says about the Document of its proposal.
StoredAfterward ==
  \A w \in Workers : phase[w] \in {"notify", "returned"} => documents[handling[w]] > 0

MissingBefore ==
  \A w \in Workers : phase[w] \in {"create", "store"} /\ handling[w] \notin late
                       => documents[handling[w]] = 0

DocumentInv == StoredAfterward /\ MissingBefore /\ DoneMeansDocument /\ OneDocumentUnlessLate

\* The same of the link.
LinkedAfterward == \A p \in Jobs : links[p] > 0 => documents[p] > 0

UnsentBefore ==
  \A w \in Workers : phase[w] = "notify" /\ handling[w] \notin late => links[handling[w]] = 0

LinkInv == LinkedAfterward /\ UnsentBefore /\ OneLinkUnlessLate

PublicationInv == TypeOK /\ ExclusiveUnlessLate /\ DocumentInv /\ LinkInv

-----------------------------------------------------------------------------
(***************************************************************************)
(* Types, and the worker's hold on its job.                                *)
(***************************************************************************)

LEMMA InitType == Init => TypeOK /\ ExclusiveUnlessLate
  BY InitDelivery, PublicationAssumption DEF Init, TypeOK, DeliveryInv, Requests, Phases

\* A worker in a handler is among the takers of its job.
LEMMA Handled ==
  ASSUME TypeOK, NEW w \in Workers, phase[w] # "idle"
  PROVE  handling[w] \in Jobs /\ w \in Takers(handling[w])
  BY DEF TypeOK, DeliveryTypeOK, Takers

\* Nobody else runs the handler of a job whose lease has not run out.
LEMMA Alone ==
  ASSUME TypeOK, ExclusiveUnlessLate,
         NEW v \in Workers, NEW w \in Workers, phase[v] # "idle", phase[w] # "idle",
         handling[v] = handling[w], handling[w] \notin late
  PROVE  v = w
  BY Handled DEF ExclusiveUnlessLate

LEMMA ClickType ==
  ASSUME TypeOK, ExclusiveUnlessLate, NEW c \in Clicks,
         (\E p \in Jobs : LookUp(c, p)) \/ RequestFound(c) \/ RequestInserts(c) \/ RequestCollides(c)
  PROVE  TypeOK' /\ ExclusiveUnlessLate'
<1>1. CASE \E p \in Jobs : LookUp(c, p)
  BY <1>1, StutterKeepsDelivery DEF LookUp, TypeOK, DeliveryInv, deliveryVars, handlerVars, effects,
     Requests
<1>2. CASE RequestFound(c)
  BY <1>2, StutterKeepsDelivery DEF RequestFound, TypeOK, DeliveryInv, deliveryVars, handlerVars, effects,
     Requests
<1>3. CASE RequestInserts(c)
  <2>1. asked[c] \in Jobs
    BY <1>3 DEF RequestInserts, TypeOK
  <2>2. DeliveryInv'
    BY <1>3, <2>1, InsertKeeps DEF RequestInserts, TypeOK, DeliveryInv
  <2> QED  BY <1>3, <2>2 DEF RequestInserts, Insert, TypeOK, DeliveryInv, deliveryVars, handlerVars, effects,
     Requests
<1>4. CASE RequestCollides(c)
  BY <1>4, StutterKeepsDelivery DEF RequestCollides, TypeOK, DeliveryInv, deliveryVars, handlerVars, effects,
     Requests
<1> QED  BY <1>1, <1>2, <1>3, <1>4

LEMMA HandlerType ==
  ASSUME TypeOK, ExclusiveUnlessLate, NEW w \in Workers, Handle(w)
  PROVE  TypeOK' /\ ExclusiveUnlessLate'
<1>1. UNCHANGED deliveryVars /\ UNCHANGED clickVars
  BY DEF Handle, ReadProposal, CreateDoc, CreateRaises, CreateAnswerLost, StoreDocument, StoreRaises,
         SendLink, SendLinkFails
<1>2. DeliveryTypeOK' /\ ExclusiveUnlessLate'
  BY <1>1, StutterKeepsDelivery DEF TypeOK, DeliveryInv
<1>3. handling' \in [Workers -> Jobs \cup {NoJob}] /\ phase' \in [Workers -> Phases]
  <2>1. CASE \E p \in Jobs : ReadProposal(w, p)
    BY <2>1 DEF TypeOK, ReadProposal, Enter, Phases
  <2>2. CASE \E here, next \in Phases : Goto(w, here, next)
    BY <2>2 DEF TypeOK, Goto
  <2>3. CASE CreateDoc(w) \/ CreateRaises(w) \/ CreateAnswerLost(w)
    BY <2>2, <2>3 DEF CreateDoc, CreateRaises, CreateAnswerLost, Phases
  <2>4. CASE StoreDocument(w) \/ StoreRaises(w) \/ SendLink(w) \/ SendLinkFails(w)
    BY <2>2, <2>4 DEF StoreDocument, StoreRaises, SendLink, SendLinkFails, Phases
  <2> QED  BY <2>1, <2>3, <2>4 DEF Handle
<1>4. \A v \in Workers : phase'[v] # "idle" => <<v, handling'[v]>> \in takes'
  BY <1>1 DEF TypeOK, Handle, ReadProposal, CreateDoc, CreateRaises, CreateAnswerLost, StoreDocument,
              StoreRaises, SendLink, SendLinkFails, Enter, Goto, Phases, deliveryVars
<1>5. created' \in [Jobs -> Nat] /\ documents' \in [Jobs -> Nat] /\ links' \in [Jobs -> Nat]
  <2>1. CASE CreateDoc(w) \/ CreateAnswerLost(w)
    <3>1. handling[w] \in Jobs
      BY <2>1, Handled DEF CreateDoc, CreateAnswerLost, Goto
    <3> QED  BY <2>1, <3>1 DEF TypeOK, CreateDoc, CreateAnswerLost
  <2>2. CASE StoreDocument(w)
    <3>1. handling[w] \in Jobs
      BY <2>2, Handled DEF StoreDocument, Goto
    <3> QED  BY <2>2, <3>1 DEF TypeOK, StoreDocument
  <2>3. CASE SendLink(w)
    <3>1. handling[w] \in Jobs
      BY <2>3, Handled DEF SendLink, Goto
    <3> QED  BY <2>3, <3>1 DEF TypeOK, SendLink
  <2>4. CASE (\E p \in Jobs : ReadProposal(w, p)) \/ CreateRaises(w) \/ StoreRaises(w) \/ SendLinkFails(w)
    BY <2>4 DEF TypeOK, ReadProposal, CreateRaises, StoreRaises, SendLinkFails, effects
  <2> QED  BY <2>1, <2>2, <2>3, <2>4 DEF Handle
<1>6. faults' \in 0 .. MaxFaults
  <2>1. CASE Fault
    BY <2>1, PublicationAssumption DEF TypeOK, Fault
  <2>2. CASE UNCHANGED faults
    BY <2>2 DEF TypeOK
  <2> QED  BY <2>1, <2>2 DEF Handle, ReadProposal, CreateDoc, CreateRaises, CreateAnswerLost,
             StoreDocument, StoreRaises, SendLink, SendLinkFails
<1> QED  BY <1>1, <1>2, <1>3, <1>4, <1>5, <1>6 DEF TypeOK, clickVars

LEMMA LeaseType ==
  ASSUME TypeOK, ExclusiveUnlessLate, NEW p \in Jobs, LeaseRunsOut(p)
  PROVE  TypeOK' /\ ExclusiveUnlessLate'
<1>1. DeliveryInv'
  BY OutliveKeeps DEF LeaseRunsOut, TypeOK, DeliveryInv
<1> QED  BY <1>1 DEF LeaseRunsOut, Outlive, TypeOK, DeliveryInv, clickVars, handlerVars, effects

LEMMA WorkerType ==
  ASSUME TypeOK, ExclusiveUnlessLate, NEW w \in Workers,
          PickJobs(w) \/ Finalize(w) \/ LoseWorker(w)
  PROVE  TypeOK' /\ ExclusiveUnlessLate'
<1>1. CASE PickJobs(w)
  <2>1. PICK picked \in SUBSET Jobs : Pick(w, picked)
    BY <1>1 DEF PickJobs
  <2>2. DeliveryInv'
    BY <2>1, PickKeeps DEF TypeOK, DeliveryInv
  <2> QED  BY <1>1, <2>1, <2>2 DEF PickJobs, Pick, TypeOK, DeliveryInv, clickVars, handlerVars, effects
<1>2. CASE Finalize(w)
  <2>1. phase[w] # "idle" /\ handling[w] \in Jobs
    BY <1>2, Handled DEF Finalize
  <2>2. PICK result \in {"open", "done", "failed"} : Settle(w, handling[w], result)
    BY <1>2 DEF Finalize, Succeed, Retry, Fail
  <2>3. DeliveryInv'
    BY <2>1, <2>2, SettleKeeps DEF TypeOK, DeliveryInv
  <2>4. handling' \in [Workers -> Jobs \cup {NoJob}] /\ phase' \in [Workers -> Phases]
    BY <1>2 DEF Finalize, TypeOK, Enter, Phases
  <2>5. ASSUME NEW v \in Workers, phase'[v] # "idle"
        PROVE  <<v, handling'[v]>> \in takes'
    BY <1>2, <2>2, <2>5 DEF Finalize, Settle, TypeOK, Enter
  <2> QED  BY <1>2, <2>3, <2>4, <2>5 DEF Finalize, TypeOK, DeliveryInv, clickVars, effects
<1>3. CASE LoseWorker(w)
  <2>1. DeliveryInv'
    BY <1>3, DropKeeps DEF LoseWorker, TypeOK, DeliveryInv
  <2>2. handling' \in [Workers -> Jobs \cup {NoJob}] /\ phase' \in [Workers -> Phases]
    BY <1>3 DEF LoseWorker, TypeOK, Enter, Phases
  <2>3. ASSUME NEW v \in Workers, phase'[v] # "idle"
        PROVE  <<v, handling'[v]>> \in takes'
    BY <1>3, <2>3 DEF LoseWorker, Drop, TypeOK, Enter
  <2>4. faults' \in 0 .. MaxFaults
    BY <1>3, PublicationAssumption DEF LoseWorker, Fault, TypeOK
  <2> QED  BY <1>3, <2>1, <2>2, <2>3, <2>4 DEF LoseWorker, TypeOK, DeliveryInv, clickVars, effects
<1> QED  BY <1>1, <1>2, <1>3

LEMMA TypeStep ==
  ASSUME TypeOK, ExclusiveUnlessLate, [Next]_vars
  PROVE  TypeOK' /\ ExclusiveUnlessLate'
<1>1. CASE UNCHANGED vars
  BY <1>1, StutterKeepsDelivery
  DEF vars, TypeOK, DeliveryInv, deliveryVars, clickVars, handlerVars, effects
<1> QED  BY <1>1, ClickType, HandlerType, LeaseType, WorkerType DEF Next

-----------------------------------------------------------------------------
(***************************************************************************)
(* Documents and links.                                                    *)
(***************************************************************************)

LEMMA InitInv == Init => DocumentInv /\ LinkInv
  BY DEF Init, DeliveryInit, DocumentInv, StoredAfterward, MissingBefore, DoneMeansDocument,
         OneDocumentUnlessLate, LinkInv, LinkedAfterward, UnsentBefore, OneLinkUnlessLate

\* The steps that touch neither a handler nor what it has done, and settle no job.
LEMMA OthersKeep ==
  ASSUME TypeOK, DocumentInv, LinkInv, UNCHANGED <<handlerVars, effects>>,
         late \subseteq late',
         \A p \in Jobs : state'[p] = "done" => state[p] = "done"
  PROVE  DocumentInv' /\ LinkInv'
  BY DEF DocumentInv, StoredAfterward, MissingBefore, DoneMeansDocument, OneDocumentUnlessLate,
         LinkInv, LinkedAfterward, UnsentBefore, OneLinkUnlessLate, handlerVars, effects

\* A worker that leaves its handler: what the others know is untouched, and a
\* job becomes done only when its handler has returned.
LEMMA LeavingKeeps ==
  ASSUME TypeOK, DocumentInv, LinkInv, NEW w \in Workers, Enter(w, NoJob, "idle"),
         UNCHANGED <<effects, late>>,
         \A p \in Jobs : state'[p] = "done" =>
            state[p] = "done" \/ (p = handling[w] /\ phase[w] = "returned")
  PROVE  DocumentInv' /\ LinkInv'
<1>1. \A v \in Workers : phase'[v] # "idle" => phase'[v] = phase[v] /\ handling'[v] = handling[v]
  BY DEF Enter, TypeOK
<1>2. DoneMeansDocument'
  BY DEF DocumentInv, StoredAfterward, DoneMeansDocument, effects
<1> QED  BY <1>1, <1>2 DEF DocumentInv, StoredAfterward, MissingBefore, OneDocumentUnlessLate,
                           LinkInv, LinkedAfterward, UnsentBefore, OneLinkUnlessLate, effects

\* The first transaction sees the Document there is.
LEMMA ReadKeeps ==
  ASSUME PublicationInv, NEW w \in Workers, NEW p \in Jobs, ReadProposal(w, p)
  PROVE  DocumentInv' /\ LinkInv'
<1>1. UNCHANGED <<state, late, documents, links>>
  BY DEF ReadProposal, deliveryVars, effects
<1>2. /\ handling'[w] = p
      /\ phase'[w] = IF documents[p] > 0 THEN "returned" ELSE "create"
      /\ \A v \in Workers \ {w} : handling'[v] = handling[v] /\ phase'[v] = phase[v]
  BY DEF ReadProposal, Enter, PublicationInv, TypeOK
<1>3. documents[p] \in Nat
  BY DEF PublicationInv, TypeOK
<1> QED  BY <1>1, <1>2, <1>3
         DEF PublicationInv, DocumentInv, StoredAfterward, MissingBefore, DoneMeansDocument,
             OneDocumentUnlessLate, LinkInv, LinkedAfterward, UnsentBefore, OneLinkUnlessLate

\* A step of the handler that stores and sends nothing.
LEMMA GoingKeeps ==
  ASSUME PublicationInv, NEW w \in Workers,
         CreateDoc(w) \/ CreateRaises(w) \/ CreateAnswerLost(w) \/ StoreRaises(w) \/ SendLinkFails(w)
  PROVE  DocumentInv' /\ LinkInv'
<1>1. UNCHANGED <<state, late, documents, links, handling>>
  BY DEF CreateDoc, CreateRaises, CreateAnswerLost, StoreRaises, SendLinkFails, Goto, deliveryVars, effects
<1>2. \A v \in Workers \ {w} : phase'[v] = phase[v]
  BY DEF CreateDoc, CreateRaises, CreateAnswerLost, StoreRaises, SendLinkFails, Goto, PublicationInv, TypeOK
<1>3. \/ phase[w] = "create" /\ phase'[w] = "store"
      \/ phase'[w] = "raised"
      \/ phase[w] = "notify" /\ phase'[w] = "returned"
  BY DEF CreateDoc, CreateRaises, CreateAnswerLost, StoreRaises, SendLinkFails, Goto, PublicationInv, TypeOK
<1> QED  BY <1>1, <1>2, <1>3
         DEF PublicationInv, DocumentInv, StoredAfterward, MissingBefore, DoneMeansDocument,
             OneDocumentUnlessLate, LinkInv, LinkedAfterward, UnsentBefore, OneLinkUnlessLate

\* The insert: the Document was missing when the handler looked, and nobody else
\* has had the job since.
LEMMA StoreKeeps ==
  ASSUME PublicationInv, NEW w \in Workers, StoreDocument(w)
  PROVE  DocumentInv' /\ LinkInv'
<1> DEFINE p == handling[w]
<1>1. p \in Jobs /\ phase[w] = "store"
  BY Handled DEF StoreDocument, Goto, PublicationInv
<1>2. /\ documents'[p] = documents[p] + 1
      /\ \A q \in Jobs \ {p} : documents'[q] = documents[q]
  BY <1>1 DEF StoreDocument, PublicationInv, TypeOK
<1>3. UNCHANGED <<state, late, links, handling>>
  BY DEF StoreDocument, Goto, deliveryVars
<1>4. phase'[w] = "notify" /\ \A v \in Workers \ {w} : phase'[v] = phase[v]
  BY DEF StoreDocument, Goto, PublicationInv, TypeOK
<1>5. documents \in [Jobs -> Nat] /\ links \in [Jobs -> Nat]
  BY DEF PublicationInv, TypeOK
<1>6. p \notin late => documents[p] = 0 /\ links[p] = 0
  BY <1>1, <1>5 DEF PublicationInv, DocumentInv, MissingBefore, LinkInv, LinkedAfterward
<1>7. \A v \in Workers : phase[v] # "idle" => handling[v] \in Jobs
  BY Handled DEF PublicationInv
<1>8. \A v \in Workers \ {w} : phase[v] # "idle" /\ handling[v] = p => p \in late
  BY <1>1, Alone DEF PublicationInv
<1>9. StoredAfterward' /\ DoneMeansDocument' /\ LinkedAfterward'
  BY <1>1, <1>2, <1>3, <1>4, <1>5, <1>7
  DEF PublicationInv, DocumentInv, StoredAfterward, DoneMeansDocument, LinkInv, LinkedAfterward
<1>10. MissingBefore'
  BY <1>1, <1>2, <1>3, <1>4, <1>7, <1>8 DEF PublicationInv, DocumentInv, MissingBefore
<1>11. OneDocumentUnlessLate' /\ OneLinkUnlessLate'
  BY <1>1, <1>2, <1>3, <1>6
  DEF PublicationInv, DocumentInv, OneDocumentUnlessLate, LinkInv, OneLinkUnlessLate
<1>12. UnsentBefore'
  BY <1>3, <1>4, <1>6 DEF PublicationInv, LinkInv, UnsentBefore
<1> QED  BY <1>9, <1>10, <1>11, <1>12 DEF DocumentInv, LinkInv

\* The message: it is the first one unless the lease has run out.
LEMMA SendKeeps ==
  ASSUME PublicationInv, NEW w \in Workers, SendLink(w)
  PROVE  DocumentInv' /\ LinkInv'
<1> DEFINE p == handling[w]
<1>1. p \in Jobs /\ phase[w] = "notify" /\ documents[p] > 0
  BY Handled DEF SendLink, Goto, PublicationInv, DocumentInv, StoredAfterward
<1>2. /\ links'[p] = links[p] + 1
      /\ \A q \in Jobs \ {p} : links'[q] = links[q]
  BY <1>1 DEF SendLink, PublicationInv, TypeOK
<1>3. UNCHANGED <<state, late, documents, handling>>
  BY DEF SendLink, Goto, deliveryVars
<1>4. phase'[w] = "returned" /\ \A v \in Workers \ {w} : phase'[v] = phase[v]
  BY DEF SendLink, Goto, PublicationInv, TypeOK
<1>5. \A v \in Workers : phase[v] # "idle" => handling[v] \in Jobs
  BY Handled DEF PublicationInv
<1>6. \A v \in Workers \ {w} : phase[v] # "idle" /\ handling[v] = p => p \in late
  BY <1>1, Alone DEF PublicationInv
<1>7. DocumentInv'
  BY <1>1, <1>3, <1>4
  DEF PublicationInv, DocumentInv, StoredAfterward, MissingBefore, DoneMeansDocument, OneDocumentUnlessLate
<1>8. LinkedAfterward'
  BY <1>1, <1>2, <1>3 DEF PublicationInv, LinkInv, LinkedAfterward
<1>9. UnsentBefore'
  BY <1>2, <1>3, <1>4, <1>5, <1>6 DEF PublicationInv, LinkInv, UnsentBefore
<1>10. OneLinkUnlessLate'
  BY <1>1, <1>2, <1>3 DEF PublicationInv, LinkInv, UnsentBefore, OneLinkUnlessLate
<1> QED  BY <1>7, <1>8, <1>9, <1>10 DEF LinkInv

LEMMA InvStep ==
  ASSUME PublicationInv, [Next]_vars
  PROVE  PublicationInv'
<1>1. TypeOK' /\ ExclusiveUnlessLate'
  BY TypeStep DEF PublicationInv
<1>2. ASSUME UNCHANGED vars
      PROVE  DocumentInv' /\ LinkInv'
  BY <1>2, OthersKeep DEF PublicationInv, vars, deliveryVars, handlerVars, effects
<1>3. ASSUME NEW c \in Clicks,
             (\E p \in Jobs : LookUp(c, p)) \/ RequestFound(c) \/ RequestInserts(c) \/ RequestCollides(c)
      PROVE  DocumentInv' /\ LinkInv'
  <2>1. UNCHANGED <<handlerVars, effects>> /\ late' = late
    BY <1>3 DEF LookUp, RequestFound, RequestInserts, RequestCollides, Insert, deliveryVars
  <2>2. \A p \in Jobs : state'[p] = "done" => state[p] = "done"
    BY <1>3 DEF LookUp, RequestFound, RequestInserts, RequestCollides, Insert, deliveryVars,
                PublicationInv, TypeOK, DeliveryTypeOK
  <2> QED  BY <2>1, <2>2, OthersKeep DEF PublicationInv
<1>4. ASSUME NEW p \in Jobs, LeaseRunsOut(p)
      PROVE  DocumentInv' /\ LinkInv'
  BY <1>4, OthersKeep DEF LeaseRunsOut, Outlive, PublicationInv
<1>5. ASSUME NEW w \in Workers, PickJobs(w)
      PROVE  DocumentInv' /\ LinkInv'
  BY <1>5, OthersKeep DEF PickJobs, Pick, PublicationInv
<1>6. ASSUME NEW w \in Workers, Handle(w)
      PROVE  DocumentInv' /\ LinkInv'
  BY <1>6, ReadKeeps, GoingKeeps, StoreKeeps, SendKeeps DEF Handle
<1>7. ASSUME NEW w \in Workers, Finalize(w)
      PROVE  DocumentInv' /\ LinkInv'
  <2>1. \A p \in Jobs : state'[p] = "done" =>
           state[p] = "done" \/ (p = handling[w] /\ phase[w] = "returned")
    BY <1>7 DEF Finalize, Succeed, Retry, Fail, Settle, PublicationInv, TypeOK, DeliveryTypeOK
  <2>2. Enter(w, NoJob, "idle") /\ UNCHANGED <<effects, late>>
    BY <1>7 DEF Finalize, Succeed, Retry, Fail, Settle
  <2> QED  BY <2>1, <2>2, LeavingKeeps DEF PublicationInv
<1>8. ASSUME NEW w \in Workers, LoseWorker(w)
      PROVE  DocumentInv' /\ LinkInv'
  BY <1>8, LeavingKeeps DEF LoseWorker, Drop, PublicationInv
<1> QED  BY <1>1, <1>2, <1>3, <1>4, <1>5, <1>6, <1>7, <1>8 DEF Next, PublicationInv

LEMMA Inductive == Spec => []PublicationInv
<1>1. Init => PublicationInv
  BY InitType, InitInv DEF PublicationInv
<1>2. PublicationInv /\ [Next]_vars => PublicationInv'
  BY InvStep
<1> QED  BY <1>1, <1>2, PTL DEF Spec

-----------------------------------------------------------------------------
\* Every reachable state is well typed, and a worker in a handler has picked its
\* job.
THEOREM TypeCorrect == Spec => []TypeOK
<1>1. PublicationInv => TypeOK
  BY DEF PublicationInv
<1> QED  BY Inductive, <1>1, PTL

\* A publish job is done only when its Document is in the table.
THEOREM DoneHasDocument == Spec => []DoneMeansDocument
<1>1. PublicationInv => DoneMeansDocument
  BY DEF PublicationInv, DocumentInv
<1> QED  BY Inductive, <1>1, PTL

\* Retries create no second Document unless the lease of the job runs out under
\* a live worker, whatever the number of workers, clicks and faults.
THEOREM SingleDocument == Spec => []OneDocumentUnlessLate
<1>1. PublicationInv => OneDocumentUnlessLate
  BY DEF PublicationInv, DocumentInv
<1> QED  BY Inductive, <1>1, PTL

\* Nor does the operator get a second link.
THEOREM SingleLink == Spec => []OneLinkUnlessLate
<1>1. PublicationInv => OneLinkUnlessLate
  BY DEF PublicationInv, LinkInv
<1> QED  BY Inductive, <1>1, PTL

-----------------------------------------------------------------------------
(***************************************************************************)
(* Without faults every Document is followed by its link.                  *)
(***************************************************************************)

LEMMA FollowStep ==
  ASSUME SenderTakesButtons, TypeOK, LinkFollowsUnlessFault, [Next]_vars
  PROVE  LinkFollowsUnlessFault'
<1> SUFFICES ASSUME faults' = 0, NEW p \in Jobs, documents'[p] > 0
             PROVE  \/ links'[p] > 0
                    \/ \E w \in Workers : handling'[w] = p /\ phase'[w] = "notify"
  BY DEF LinkFollowsUnlessFault
<1>1. ~Fault
  BY DEF Fault, TypeOK
<1>2. ASSUME faults = 0, documents[p] > 0, links[p] = 0
      PROVE  \E w \in Workers : handling[w] = p /\ phase[w] = "notify"
  BY <1>2 DEF LinkFollowsUnlessFault
<1>3. documents \in [Jobs -> Nat] /\ links \in [Jobs -> Nat]
  BY DEF TypeOK
<1>4. CASE UNCHANGED <<handlerVars, effects, faults>>
  BY <1>2, <1>3, <1>4 DEF handlerVars, effects
<1>5. ASSUME NEW w \in Workers, faults' = faults, documents' = documents, links' = links,
             phase[w] # "notify",
             \A v \in Workers \ {w} : handling'[v] = handling[v] /\ phase'[v] = phase[v]
      PROVE  \/ links'[p] > 0
             \/ \E v \in Workers : handling'[v] = p /\ phase'[v] = "notify"
  BY <1>2, <1>3, <1>5
<1>6. ASSUME NEW w \in Workers, Finalize(w) \/ CreateDoc(w) \/ CreateRaises(w)
                                \/ \E q \in Jobs : ReadProposal(w, q)
      PROVE  \/ links'[p] > 0
             \/ \E v \in Workers : handling'[v] = p /\ phase'[v] = "notify"
  <2>1. faults' = faults /\ documents' = documents /\ links' = links /\ phase[w] # "notify"
    BY <1>6 DEF Finalize, CreateDoc, CreateRaises, ReadProposal, Goto, effects
  <2>2. \A v \in Workers \ {w} : handling'[v] = handling[v] /\ phase'[v] = phase[v]
    BY <1>6 DEF Finalize, CreateDoc, CreateRaises, ReadProposal, Goto, Enter, TypeOK
  <2> QED  BY <2>1, <2>2, <1>5
<1>7. ASSUME NEW w \in Workers, StoreDocument(w)
      PROVE  \/ links'[p] > 0
             \/ \E v \in Workers : handling'[v] = p /\ phase'[v] = "notify"
  <2>1. handling' = handling /\ links' = links /\ faults' = faults
    BY <1>7 DEF StoreDocument, Goto
  <2>2. phase'[w] = "notify" /\ \A v \in Workers \ {w} : phase'[v] = phase[v]
    BY <1>7 DEF StoreDocument, Goto, TypeOK
  <2>3. p # handling[w] => documents'[p] = documents[p]
    BY <1>7 DEF StoreDocument, TypeOK
  <2> QED  BY <2>1, <2>2, <2>3, <1>2, <1>3
<1>8. ASSUME NEW w \in Workers, SendLink(w)
      PROVE  \/ links'[p] > 0
             \/ \E v \in Workers : handling'[v] = p /\ phase'[v] = "notify"
  <2>1. handling' = handling /\ documents' = documents /\ faults' = faults
    BY <1>8 DEF SendLink, Goto
  <2>2. \A v \in Workers \ {w} : phase'[v] = phase[v]
    BY <1>8 DEF SendLink, Goto, TypeOK
  <2>3. links'[p] = IF p = handling[w] THEN links[p] + 1 ELSE links[p]
    BY <1>8 DEF SendLink, TypeOK
  <2> QED  BY <2>1, <2>2, <2>3, <1>2, <1>3
<1> QED  BY <1>1, <1>4, <1>6, <1>7, <1>8
         DEF Next, Handle, LookUp, RequestFound, RequestInserts, RequestCollides, LeaseRunsOut, PickJobs,
             CreateAnswerLost, StoreRaises, SendLinkFails, LoseWorker, vars, handlerVars, effects

\* With a sender that takes buttons, and no fault, the operator gets the link of
\* every Document, however many workers share a job whose lease runs out.
THEOREM LinkFollows ==
  ASSUME SenderTakesButtons
  PROVE  Spec => []LinkFollowsUnlessFault
<1>1. Init => LinkFollowsUnlessFault
  BY DEF Init, LinkFollowsUnlessFault
<1>2. PublicationInv /\ LinkFollowsUnlessFault /\ [Next]_vars => LinkFollowsUnlessFault'
  BY FollowStep DEF PublicationInv
<1> QED  BY Inductive, <1>1, <1>2, PTL DEF Spec
=============================================================================
