--------------------------- MODULE DeliveryProofs ---------------------------
(***************************************************************************)
(* What Delivery promises a handler, for any number of workers and jobs,   *)
(* and for each of its steps by itself: the models of the handlers, whose  *)
(* steps contain those of Delivery, cite the lemmas.                       *)
(***************************************************************************)
EXTENDS Delivery, TLAPS

DeliveryInv == DeliveryTypeOK /\ ExclusiveUnlessLate

LEMMA InitDelivery == DeliveryInit => DeliveryInv
  BY DEF DeliveryInit, DeliveryInv, DeliveryTypeOK, ExclusiveUnlessLate, Takers

LEMMA InsertKeeps ==
  ASSUME DeliveryInv, NEW j \in Jobs, Insert(j)
  PROVE  DeliveryInv'
<1>1. DeliveryTypeOK'
  BY DEF DeliveryInv, DeliveryTypeOK, Insert
<1>2. ASSUME NEW i \in Jobs \ late
      PROVE  /\ \A v, w \in Takers(i)' : v = w
             /\ Takers(i)' # {} => state'[i] = "open"
  BY <1>2 DEF DeliveryInv, DeliveryTypeOK, ExclusiveUnlessLate, Insert, Takers
<1> QED  BY <1>1, <1>2 DEF DeliveryInv, ExclusiveUnlessLate, Insert

LEMMA OutliveKeeps ==
  ASSUME DeliveryInv, NEW j \in Jobs, Outlive(j)
  PROVE  DeliveryInv'
  BY DEF DeliveryInv, DeliveryTypeOK, ExclusiveUnlessLate, Outlive, Takers

\* A picked job that nobody has and whose lease has not run out gets one taker.
LEMMA PickKeeps ==
  ASSUME DeliveryInv, NEW w \in Workers, NEW picked \in SUBSET Jobs, Pick(w, picked)
  PROVE  DeliveryInv'
<1>1. DeliveryTypeOK'
  BY DEF DeliveryInv, DeliveryTypeOK, Pick
<1>2. ASSUME NEW i \in Jobs \ late
      PROVE  /\ \A u, v \in Takers(i)' : u = v
             /\ Takers(i)' # {} => state'[i] = "open"
  <2>1. CASE i \in picked
    <3>1. Takers(i) = {} /\ state[i] = "open"
      BY <1>2, <2>1 DEF Pick
    <3>2. Takers(i)' = {w}
      BY <3>1, <2>1 DEF Pick, Takers
    <3> QED  BY <3>1, <3>2 DEF Pick
  <2>2. CASE i \notin picked
    <3>1. Takers(i)' = Takers(i)
      BY <2>2 DEF Pick, Takers
    <3> QED  BY <3>1, <1>2 DEF DeliveryInv, ExclusiveUnlessLate, Pick
  <2> QED  BY <2>1, <2>2
<1> QED  BY <1>1, <1>2 DEF DeliveryInv, ExclusiveUnlessLate, Pick

\* The one taker of such a job is gone once it has finalized it.
LEMMA SettleKeeps ==
  ASSUME DeliveryInv, NEW w \in Workers, NEW j \in Jobs,
         NEW result \in {"open", "done", "failed"}, Settle(w, j, result)
  PROVE  DeliveryInv'
<1>1. DeliveryTypeOK'
  BY DEF DeliveryInv, DeliveryTypeOK, Settle
<1>2. ASSUME NEW i \in Jobs \ late
      PROVE  /\ \A u, v \in Takers(i)' : u = v
             /\ Takers(i)' # {} => state'[i] = "open"
  <2>1. CASE i = j
    <3>1. Takers(i)' = {}
      BY <1>2, <2>1 DEF DeliveryInv, ExclusiveUnlessLate, Settle, Takers
    <3> QED  BY <3>1
  <2>2. CASE i # j
    <3>1. Takers(i)' = Takers(i) /\ state'[i] = state[i]
      BY <2>2 DEF Settle, Takers, DeliveryInv, DeliveryTypeOK
    <3> QED  BY <3>1, <1>2 DEF DeliveryInv, ExclusiveUnlessLate
  <2> QED  BY <2>1, <2>2
<1> QED  BY <1>1, <1>2 DEF DeliveryInv, ExclusiveUnlessLate, Settle

LEMMA DropKeeps ==
  ASSUME DeliveryInv, NEW w \in Workers, Drop(w)
  PROVE  DeliveryInv'
<1>1. DeliveryTypeOK'
  BY DEF DeliveryInv, DeliveryTypeOK, Drop
<1>2. \A i \in Jobs : Takers(i)' \subseteq Takers(i)
  BY DEF Drop, Takers
<1> QED  BY <1>1, <1>2 DEF DeliveryInv, ExclusiveUnlessLate, Drop

LEMMA StutterKeepsDelivery ==
  ASSUME DeliveryInv, UNCHANGED deliveryVars
  PROVE  DeliveryInv'
  BY DEF DeliveryInv, DeliveryTypeOK, ExclusiveUnlessLate, Takers, deliveryVars

\* A job whose lease has not run out under a live worker has one taker, and none
\* once it has settled, however often it is retried and workers are lost.
THEOREM DeliveryIsExclusive == DeliverySpec => []ExclusiveUnlessLate
<1>1. ASSUME DeliveryInv, DeliveryNext
      PROVE  DeliveryInv'
  <2>1. CASE \E j \in Jobs : Insert(j) \/ Outlive(j)
    BY <1>1, <2>1, InsertKeeps, OutliveKeeps
  <2>2. CASE \E w \in Workers, picked \in SUBSET Jobs : Pick(w, picked)
    BY <1>1, <2>2, PickKeeps
  <2>3. CASE \E w \in Workers, j \in Jobs : Succeed(w, j) \/ Retry(w, j) \/ Fail(w, j)
    BY <1>1, <2>3, SettleKeeps DEF Succeed, Retry, Fail
  <2>4. CASE \E w \in Workers : Drop(w)
    BY <1>1, <2>4, DropKeeps
  <2> QED  BY <1>1, <2>1, <2>2, <2>3, <2>4 DEF DeliveryNext
<1>2. DeliveryInv /\ [DeliveryNext]_deliveryVars => DeliveryInv'
  BY <1>1, StutterKeepsDelivery
<1>3. DeliveryInv => ExclusiveUnlessLate
  BY DEF DeliveryInv
<1> QED  BY InitDelivery, <1>2, <1>3, PTL DEF DeliverySpec
=============================================================================
