--------------------------- MODULE LimiterSafety ---------------------------
(***************************************************************************)
(* The proof that IInv is an inductive invariant of Limiter, and from it   *)
(* ExchangeAtMostOneLive and NoOrderForgotten for every value of the       *)
(* constants.                                                              *)
(***************************************************************************)
EXTENDS LimiterProofs, FiniteSetTheorems

USE SizeAssumption, MinSizeAssumption, PointAssumption, SizeLimitsAssumption,
    TickerAssumption, BoundsAssumption

\* The state-dependent half of the inductive invariant, for one copy of the
\* orderMap (in memory or stored).
MapSound(k, lo, off) == KnownSound(k, lo, off) /\ LiveTracked(k, lo, off)

LEMMA IInvTypeInv ==
    ASSUME IInv
    PROVE  TypeInv
BY DEF IInv, TypeInv, TypeOK, ActiveTracksLive, NoOrder, OrderIds

(***************************************************************************)
(* fetchOrderMap stores the exchange's own view of the orders it fetched,  *)
(* so the orderMap stays sound whichever subset was fetched.              *)
(***************************************************************************)
LEMMA FetchSound ==
    ASSUME IInv, NEW S \in SUBSET LocalLive
    PROVE  /\ Fetched(S) \in [OrderIds -> LOrder]
           /\ MapSound(known, Fetched(S), offset)
           /\ \A i \in S : Fetched(S)[i] = Snapshot(i)
<1>. DEFINE lo == Fetched(S)
<1>1. lo \in [OrderIds -> LOrder]
  BY FetchedType DEF IInv
<1>2. \A i \in known : lo[i] = IF i \in S THEN Snapshot(i) ELSE lord[i]
  BY DEF Fetched, IInv, TypeOK
<1>3. KnownSound(known, lo, offset)
  <2>. SUFFICES ASSUME NEW i \in known
                PROVE  /\ i <= offset
                       /\ lo[i].done => xord[i].done /\ lo[i].filled = xord[i].filled
    BY DEF KnownSound
  <2>1. i <= offset
    BY DEF IInv, KnownSound
  <2>2. CASE i \in S
    <3>1. lo[i] = Snapshot(i)
      BY <1>2, <2>2
    <3>2. lo[i].done = xord[i].done
      BY <3>1 DEF Snapshot
    <3>3. lo[i].filled = xord[i].filled
      BY <3>1 DEF Snapshot
    <3>. QED BY <2>1, <3>2, <3>3
  <2>3. CASE i \notin S
    BY <1>2, <2>3 DEF IInv, KnownSound
  <2>. QED BY <2>1, <2>2, <2>3
<1>4. LiveTracked(known, lo, offset)
  <2>. SUFFICES ASSUME NEW i \in 1..xn, i <= offset
                PROVE  /\ ~xord[i].done => i \in known /\ ~lo[i].done
                       /\ xord[i].filled > 0 => i \in known
    BY DEF LiveTracked
  <2>1. /\ ~xord[i].done => i \in known /\ ~lord[i].done
        /\ xord[i].filled > 0 => i \in known
    BY DEF IInv, LiveTracked
  <2>2. ASSUME i \in known, ~lord[i].done, ~xord[i].done
        PROVE  ~lo[i].done
    <3>1. CASE i \in S
      <4>1. lo[i] = Snapshot(i)
        BY <1>2, <3>1, <2>2
      <4>. QED BY <4>1, <2>2 DEF Snapshot
    <3>2. CASE i \notin S
      BY <1>2, <3>2, <2>2
    <3>. QED BY <3>1, <3>2
  <2>. QED BY <2>1, <2>2
<1>5. \A i \in S : lo[i] = Snapshot(i)
  BY <1>2 DEF LocalLive
<1>. QED BY <1>1, <1>3, <1>4, <1>5 DEF MapSound

(***************************************************************************)
(* A step of the exchange that at most cancels orders: no order appears,   *)
(* and client ids and filled sizes stay as they are.                       *)
(***************************************************************************)
ExchangeGrows ==
    /\ xn' = xn
    /\ \A i \in 1..xn : /\ xord'[i].cid = xord[i].cid
                        /\ xord'[i].filled = xord[i].filled
                        /\ xord[i].done => xord'[i].done

LEMMA UnchangedGrows ==
    ASSUME UNCHANGED <<xn, xord>>
    PROVE  ExchangeGrows
BY DEF ExchangeGrows

(***************************************************************************)
(* KnownSound and LiveTracked with the exchange's orders as an argument,  *)
(* so that facts about them need no primes.                                *)
(***************************************************************************)
KS(x, k, lo, off) ==
    \A i \in k : /\ i <= off
                 /\ lo[i].done => x[i].done /\ lo[i].filled = x[i].filled
LT(x, n, k, lo, off) ==
    \A i \in 1..n : i <= off =>
        /\ ~x[i].done => i \in k /\ ~lo[i].done
        /\ x[i].filled > 0 => i \in k
Grows(x, n, y) ==
    \A i \in 1..n : /\ y[i].cid = x[i].cid
                    /\ y[i].filled = x[i].filled
                    /\ x[i].done => y[i].done

LEMMA MapSoundAsKSLT ==
    /\ MapSound(known, lord, offset)
         <=> KS(xord, known, lord, offset) /\ LT(xord, xn, known, lord, offset)
    /\ MapSound(dbKnown, dbOrd, dbOffset)
         <=> KS(xord, dbKnown, dbOrd, dbOffset)
             /\ LT(xord, xn, dbKnown, dbOrd, dbOffset)
    /\ ExchangeGrows <=> xn' = xn /\ Grows(xord, xn, xord')
BY DEF MapSound, KnownSound, LiveTracked, KS, LT, ExchangeGrows, Grows

\* A map that is sound before the exchange cancels orders is sound after.
LEMMA KSLTGrows ==
    ASSUME NEW x, NEW y, NEW n, NEW k \in SUBSET (1..n), NEW lo, NEW off,
           KS(x, k, lo, off), LT(x, n, k, lo, off), Grows(x, n, y)
    PROVE  KS(y, k, lo, off) /\ LT(y, n, k, lo, off)
<1>1. KS(y, k, lo, off)
  BY DEF KS, Grows
<1>2. LT(y, n, k, lo, off)
  BY DEF LT, Grows
<1>. QED BY <1>1, <1>2

\* Cancelling orders keeps the client ids and adds no live order.
LEMMA GrowsKeepsExchange ==
    ASSUME IInv, ExchangeGrows
    PROVE  (CidIsIndex /\ ExchangeAtMostOneLive)'
BY DEF IInv, ExchangeGrows, CidIsIndex, ExchangeAtMostOneLive, LiveOnExchange

\* Every entry of a sound orderMap is an exchange order.
LEMMA KnownInRange ==
    ASSUME IInv, NEW k \in SUBSET OrderIds, NEW lo, NEW off \in Int,
           off <= xn, KnownSound(k, lo, off)
    PROVE  k \subseteq 1..xn
BY DEF KnownSound, OrderIds, IInv, TypeOK

(***************************************************************************)
(* Save compacts only done orders that filled nothing, so a sound orderMap *)
(* stays sound in memory and is stored as it is, with the current offset.  *)
(***************************************************************************)
LEMMA CompactSound ==
    ASSUME IInv, NEW lo \in [OrderIds -> LOrder], MapSound(known, lo, offset),
           CompactMap(known, lo), ExchangeGrows, offset' = offset
    PROVE  /\ known' \subseteq known
           /\ \A i \in known' : lord'[i] = lo[i]
           /\ \A i \in known : ~lo[i].done => i \in known'
           /\ MapSound(known, lord, offset)'
<1>1. known' = CompactOf(known, lo)
  BY DEF CompactMap
<1>2. known' \subseteq known
  BY <1>1 DEF CompactOf
<1>3. \A i \in known' : lord'[i] = lo[i]
  BY <1>1, <1>2 DEF CompactMap, ForgetOutside, IInv, TypeOK
<1>4. \A i \in known : ~lo[i].done => i \in known'
  BY <1>1 DEF CompactOf
<1>5. known \subseteq 1..xn
  BY KnownInRange DEF IInv, TypeOK, OffsetOrder, MapSound
<1>6. KnownSound(known, lord, offset)'
  <2>. SUFFICES ASSUME NEW i \in known'
                PROVE  /\ i <= offset'
                       /\ lord'[i].done => xord'[i].done
                                           /\ lord'[i].filled = xord'[i].filled
    BY DEF KnownSound
  <2>1. i \in known /\ lord'[i] = lo[i] /\ i \in 1..xn
    BY <1>2, <1>3, <1>5
  <2>2. /\ i <= offset
        /\ lo[i].done => xord[i].done /\ lo[i].filled = xord[i].filled
    BY <2>1 DEF MapSound, KnownSound
  <2>. QED BY <2>1, <2>2 DEF ExchangeGrows
<1>7. LiveTracked(known, lord, offset)'
  <2>. SUFFICES ASSUME NEW i \in 1..xn', i <= offset'
                PROVE  /\ ~xord'[i].done => i \in known' /\ ~lord'[i].done
                       /\ xord'[i].filled > 0 => i \in known'
    BY DEF LiveTracked
  <2>1. /\ i \in 1..xn /\ i <= offset
        /\ xord'[i].filled = xord[i].filled
        /\ ~xord'[i].done => ~xord[i].done
    BY DEF ExchangeGrows
  <2>2. ASSUME ~xord[i].done PROVE i \in known' /\ ~lord'[i].done
    <3>1. i \in known /\ ~lo[i].done
      BY <2>1, <2>2 DEF MapSound, LiveTracked
    <3>. QED BY <3>1, <1>3, <1>4
  <2>3. ASSUME xord[i].filled > 0 PROVE i \in known'
    <3>1. i \in known
      BY <2>1, <2>3 DEF MapSound, LiveTracked
    <3>2. lo[i].done => lo[i].filled = xord[i].filled
      BY <3>1 DEF MapSound, KnownSound
    <3>3. ~(lo[i].done /\ lo[i].filled = 0)
      BY <3>2, <2>3
    <3>. QED BY <3>1, <3>3, <1>1 DEF CompactOf
  <2>. QED BY <2>1, <2>2, <2>3
<1>. QED BY <1>2, <1>3, <1>4, <1>6, <1>7 DEF MapSound

\* Save also writes the compacted map and the offset to the store.
LEMMA SaveSound ==
    ASSUME IInv, NEW lo \in [OrderIds -> LOrder], MapSound(known, lo, offset),
           SaveState(known, lo), ExchangeGrows, offset' = offset
    PROVE  /\ known' \subseteq known
           /\ \A i \in known' : lord'[i] = lo[i]
           /\ \A i \in known : ~lo[i].done => i \in known'
           /\ MapSound(known, lord, offset)'
           /\ MapSound(dbKnown, dbOrd, dbOffset)'
           /\ dbOffset' = offset
<1>1. CompactMap(known, lo) /\ dbKnown' = known' /\ dbOrd' = lord'
      /\ dbOffset' = offset
  BY DEF SaveState
<1>2. /\ known' \subseteq known
      /\ \A i \in known' : lord'[i] = lo[i]
      /\ \A i \in known : ~lo[i].done => i \in known'
      /\ MapSound(known, lord, offset)'
  BY <1>1, CompactSound
<1>3. MapSound(dbKnown, dbOrd, dbOffset)'
  BY <1>1, <1>2 DEF MapSound, KnownSound, LiveTracked
<1>. QED BY <1>1, <1>2, <1>3

\* The exchange's side of the invariant, and that of the two orderMaps.
StoreInv ==
    /\ CidIsIndex
    /\ OffsetOrder
    /\ MapSound(known, lord, offset)
    /\ MapSound(dbKnown, dbOrd, dbOffset)
    /\ ExchangeAtMostOneLive
\* IInv without its type part.
SafeInv == StoreInv /\ UpdatesSound /\ ActiveSound /\ ActiveTracksLive

LEMMA IInvSplit == IInv <=> TypeOK /\ SafeInv
BY DEF IInv, SafeInv, StoreInv, MapSound

\* A step that touches neither the exchange nor the orderMaps keeps StoreInv.
LEMMA StoreFrame ==
    ASSUME StoreInv,
           UNCHANGED <<xn, xord, known, lord, offset, dbKnown, dbOrd, dbOffset>>
    PROVE  StoreInv'
BY DEF StoreInv, CidIsIndex, OffsetOrder, MapSound, KnownSound, LiveTracked,
   ExchangeAtMostOneLive, LiveOnExchange

\* The stream is kept, or emptied, while the exchange stands still.
LEMMA UpdatesFrame ==
    ASSUME UpdatesSound, UNCHANGED <<xn, xord>>,
           updates' = updates \/ updates' = << >>
    PROVE  UpdatesSound'
BY DEF UpdatesSound

\* Leaving Run clears the active order and the stream.
LEMMA ReturnSafe ==
    ASSUME NEW to, to \in {"idle", "done"}, ReturnFromRun(to)
    PROVE  UpdatesSound' /\ ActiveSound' /\ ActiveTracksLive'
<1>1. pc' = to /\ updates' = << >> /\ active' = NoOrder
  BY DEF ReturnFromRun, ClearLocals
<1>2. UpdatesSound'
  BY <1>1 DEF UpdatesSound
<1>3. ActiveSound' /\ ActiveTracksLive'
  BY <1>1 DEF ActiveSound, ActiveTracksLive
<1>. QED BY <1>2, <1>3

\* Subscribe opens an empty stream and keeps the active order.
LEMMA SubscribeSafe ==
    ASSUME IInv, Subscribe
    PROVE  SafeInv'
<1>1. StoreInv'
  BY StoreFrame, IInvSplit DEF Subscribe, SafeInv, limiterVars, dbVars
<1>2. UpdatesSound'
  BY DEF Subscribe, UpdatesSound
<1>3. ActiveSound'
  BY DEF Subscribe, IInv, ActiveSound, limiterVars
<1>4. ActiveTracksLive'
  BY DEF Subscribe, IInv, ActiveTracksLive, limiterVars
<1>. QED BY <1>1, <1>2, <1>3, <1>4 DEF SafeInv

\* The control plane changes only the options and the context.
LEMMA ControlSafe ==
    ASSUME IInv,
           \/ Pause \/ Resume
           \/ \E b \in BOOLEAN : SetHold(b)
           \/ \E l \in SizeLimits : SetSizeLimit(l)
    PROVE  SafeInv'
<1>1. UNCHANGED <<exchangeVars, limiterVars, runVars, dbVars>>
  BY DEF Pause, Resume, SetHold, SetSizeLimit
<1>2. StoreInv'
  BY <1>1, StoreFrame, IInvSplit DEF SafeInv, exchangeVars, limiterVars, dbVars
<1>. QED
  BY <1>1, <1>2 DEF SafeInv, IInv, UpdatesSound, ActiveSound, ActiveTracksLive,
     exchangeVars, limiterVars, runVars, localVars

\* A ticker only moves Run to cancel or create, with the active order kept.
LEMMA TickerSafe ==
    ASSUME IInv, NEW t \in TickerPrices, Ticker(t)
    PROVE  SafeInv'
<1>1. StoreInv'
  BY StoreFrame, IInvSplit DEF Ticker, SafeInv, exchangeVars, limiterVars, dbVars
<1>2. UpdatesSound' /\ ActiveSound'
  BY DEF Ticker, IInv, UpdatesSound, ActiveSound, exchangeVars, limiterVars
<1>3. pc = "loop" /\ pc' \in {"cancel", "create"}
      /\ (pc' = "cancel" => active # NoOrder) /\ (pc' = "create" => active = NoOrder)
  BY DEF Ticker, InLoop
<1>4. ActiveTracksLive'
  BY <1>3 DEF Ticker, IInv, ActiveTracksLive, exchangeVars, limiterVars
<1>. QED BY <1>1, <1>2, <1>4 DEF SafeInv

\* A failed cancel returns without touching the orderMap.
LEMMA CancelFailsSafe ==
    ASSUME IInv, CancelFails
    PROVE  SafeInv'
<1>1. StoreInv'
  BY StoreFrame, IInvSplit DEF CancelFails, SafeInv, limiterVars, dbVars
<1>. QED BY <1>1, ReturnSafe DEF CancelFails, SafeInv

\* Either outcome of a Save of a sound orderMap keeps StoreInv, and keeps
\* every entry that is not done.
LEMMA SaveOrFailSafe ==
    ASSUME IInv, NEW lo \in [OrderIds -> LOrder], MapSound(known, lo, offset),
           SaveState(known, lo) \/ SaveFails(lo), ExchangeGrows, offset' = offset
    PROVE  /\ StoreInv'
           /\ \A i \in known : ~lo[i].done => i \in known' /\ lord'[i] = lo[i]
<1>0. (CidIsIndex /\ ExchangeAtMostOneLive)'
  BY GrowsKeepsExchange
<1>1. CASE SaveState(known, lo)
  <2>1. /\ \A i \in known' : lord'[i] = lo[i]
        /\ \A i \in known : ~lo[i].done => i \in known'
        /\ MapSound(known, lord, offset)'
        /\ MapSound(dbKnown, dbOrd, dbOffset)'
        /\ dbOffset' = offset
    BY <1>1, SaveSound
  <2>2. OffsetOrder'
    BY <2>1 DEF IInv, TypeOK, OffsetOrder, ExchangeGrows
  <2>. QED BY <1>0, <2>1, <2>2 DEF StoreInv
<1>2. CASE SaveFails(lo) /\ lord' = lo /\ UNCHANGED known
  <2>1. lord' = lo /\ UNCHANGED <<known, dbKnown, dbOrd, dbOffset>>
    BY <1>2 DEF SaveFails, dbVars
  <2>2. xn' = xn /\ Grows(xord, xn, xord')
    BY MapSoundAsKSLT
  <2>3. known \subseteq 1..xn /\ dbKnown \subseteq 1..xn
    BY KnownInRange DEF IInv, TypeOK, OffsetOrder, MapSound
  <2>4. KS(xord', known, lo, offset) /\ LT(xord', xn, known, lo, offset)
    <3>1. KS(xord, known, lo, offset) /\ LT(xord, xn, known, lo, offset)
      BY DEF MapSound, KnownSound, LiveTracked, KS, LT
    <3>. QED BY <3>1, <2>2, <2>3, KSLTGrows
  <2>5. KS(xord', dbKnown, dbOrd, dbOffset) /\ LT(xord', xn, dbKnown, dbOrd, dbOffset)
    <3>1. KS(xord, dbKnown, dbOrd, dbOffset) /\ LT(xord, xn, dbKnown, dbOrd, dbOffset)
      BY MapSoundAsKSLT DEF IInv, MapSound
    <3>. QED BY <3>1, <2>2, <2>3, KSLTGrows
  <2>6. MapSound(known, lord, offset)' /\ MapSound(dbKnown, dbOrd, dbOffset)'
    BY <2>1, <2>2, <2>4, <2>5 DEF MapSound, KnownSound, LiveTracked, KS, LT
  <2>7. OffsetOrder'
    BY <2>1, <2>2 DEF IInv, OffsetOrder
  <2>. QED BY <1>0, <2>1, <2>6, <2>7 DEF StoreInv
<1>3. CASE SaveFails(lo) /\ CompactMap(known, lo)
  <2>1. UNCHANGED <<dbKnown, dbOrd, dbOffset>>
    BY <1>3 DEF SaveFails, dbVars
  <2>2. /\ \A i \in known' : lord'[i] = lo[i]
        /\ \A i \in known : ~lo[i].done => i \in known'
        /\ MapSound(known, lord, offset)'
    BY <1>3, CompactSound
  <2>3. xn' = xn /\ Grows(xord, xn, xord')
    BY MapSoundAsKSLT
  <2>4. dbKnown \subseteq 1..xn
    BY KnownInRange DEF IInv, TypeOK, OffsetOrder, MapSound
  <2>5. KS(xord', dbKnown, dbOrd, dbOffset) /\ LT(xord', xn, dbKnown, dbOrd, dbOffset)
    <3>1. KS(xord, dbKnown, dbOrd, dbOffset) /\ LT(xord, xn, dbKnown, dbOrd, dbOffset)
      BY MapSoundAsKSLT DEF IInv, MapSound
    <3>. QED BY <3>1, <2>3, <2>4, KSLTGrows
  <2>6. MapSound(dbKnown, dbOrd, dbOffset)'
    BY <2>1, <2>3, <2>5 DEF MapSound, KnownSound, LiveTracked, KS, LT
  <2>7. OffsetOrder'
    BY <2>1, <2>3 DEF IInv, OffsetOrder
  <2>. QED BY <1>0, <2>2, <2>6, <2>7 DEF StoreInv
<1>. QED BY <1>1, <1>2, <1>3 DEF SaveFails

\* A step that only replaces the in-memory orderMap values by sound ones.
LEMMA MemMapStep ==
    ASSUME IInv, UNCHANGED <<xn, xord, known, offset, dbKnown, dbOrd, dbOffset>>,
           MapSound(known, lord, offset)'
    PROVE  StoreInv'
BY DEF IInv, StoreInv, CidIsIndex, OffsetOrder, MapSound, KnownSound,
   LiveTracked, ExchangeAtMostOneLive, LiveOnExchange

\* RunFetchFails refreshes part of the orderMap outside the loop.
LEMMA RunFetchFailsSafe ==
    ASSUME IInv, RunFetchFails
    PROVE  SafeInv'
<1>1. PICK S \in SUBSET LocalLive : lord' = Fetched(S)
  BY DEF RunFetchFails, FetchOrderMapFails
<1>2. MapSound(known, lord, offset)'
  BY <1>1, FetchSound DEF RunFetchFails, limiterVars, exchangeVars,
     MapSound, KnownSound, LiveTracked
<1>3. StoreInv'
  BY <1>2, MemMapStep DEF RunFetchFails, limiterVars, exchangeVars, dbVars
<1>4. active = NoOrder
  BY DEF RunFetchFails, IInv, ActiveTracksLive
<1>. QED
  BY <1>3, <1>4 DEF RunFetchFails, SafeInv, IInv, UpdatesSound, ActiveSound,
     ActiveTracksLive, exchangeVars, runVars, localVars

\* RunComplete saves the fetched orderMap and returns.
LEMMA RunCompleteSafe ==
    ASSUME IInv, RunComplete
    PROVE  SafeInv'
<1>. DEFINE lo == Fetched(LocalLive)
<1>1. lo \in [OrderIds -> LOrder] /\ MapSound(known, lo, offset)
  BY FetchSound
<1>2. StoreInv'
  <2>1. CASE LocalLive # {}
    BY <2>1, <1>1, SaveOrFailSafe, UnchangedGrows DEF RunComplete
  <2>2. CASE LocalLive = {}
    BY <2>2, StoreFrame, IInvSplit DEF RunComplete, SafeInv, dbVars
  <2>. QED BY <2>1, <2>2
<1>. QED BY <1>2, ReturnSafe DEF RunComplete, SafeInv

\* There are finitely many order ids.
LEMMA OrderIdsFinite == IsFiniteSet(OrderIds)
BY FS_Interval, BoundsAssumption DEF OrderIds

\* A set of order ids with at most one element has no two distinct ones.
LEMMA AtMostOneElement ==
    ASSUME NEW S \in SUBSET OrderIds, Cardinality(S) <= 1,
           NEW i \in S, NEW j \in S
    PROVE  i = j
<1>1. IsFiniteSet(S)
  BY OrderIdsFinite, FS_Subset
<1>. SUFFICES ASSUME i # j PROVE FALSE
  OBVIOUS
<1>2. IsFiniteSet({i}) /\ Cardinality({i}) = 1
  BY FS_Singleton
<1>3. Cardinality({i} \cup {j}) = 2
  <2>1. Cardinality({i} \cup {j}) =
          IF j \in {i} THEN Cardinality({i}) ELSE Cardinality({i}) + 1
    BY <1>2, FS_AddElement
  <2>. QED BY <2>1, <1>2
<1>4. Cardinality({i} \cup {j}) <= Cardinality(S)
  <2>1. {i} \cup {j} \in SUBSET S
    OBVIOUS
  <2>2. ASSUME NEW T \in SUBSET S PROVE Cardinality(T) <= Cardinality(S)
    BY <1>1, FS_Subset
  <2>. QED BY <2>1, <2>2
<1>5. Cardinality(S) \in Nat
  BY <1>1, FS_CardinalityType
<1>. QED BY <1>3, <1>4, <1>5

\* RunStart stores the fetched orderMap and takes its only live order as
\* the active one; with several live orders it stays outside the loop.
LEMMA RunStartSafe ==
    ASSUME IInv, RunStart
    PROVE  SafeInv'
<1>. DEFINE lo == Fetched(LocalLive)
            live == {i \in known : ~lo[i].done}
<1>1. /\ lo \in [OrderIds -> LOrder] /\ MapSound(known, lo, offset)
      /\ \A i \in LocalLive : lo[i] = Snapshot(i)
  BY FetchSound
<1>2. lord' = lo
  BY DEF RunStart
<1>3. StoreInv'
  BY <1>1, <1>2, MemMapStep DEF RunStart, exchangeVars, dbVars, MapSound,
     KnownSound, LiveTracked
<1>4. UpdatesSound'
  BY DEF RunStart, IInv, UpdatesSound, exchangeVars
<1>5. CASE Cardinality(live) > 1
  <2>1. pc = "idle" /\ UNCHANGED <<pc, active>>
    BY <1>5 DEF RunStart
  <2>2. active = NoOrder
    BY <2>1 DEF IInv, ActiveTracksLive
  <2>. QED BY <1>3, <1>4, <2>1, <2>2 DEF SafeInv, ActiveSound, ActiveTracksLive
<1>6. CASE ~(Cardinality(live) > 1)
  <2>1. pc' = "fetched" /\ active' = ActiveOf(live)
    BY <1>6 DEF RunStart
  <2>2. live \subseteq OrderIds /\ Cardinality(live) <= 1
    <3>0. live \in SUBSET OrderIds
      BY DEF IInv, TypeOK
    <3>1. IsFiniteSet(live)
      BY <3>0, OrderIdsFinite, FS_Subset
    <3>2. Cardinality(live) \in Nat
      BY <3>1, FS_CardinalityType
    <3>. QED BY <1>6, <3>2 DEF IInv, TypeOK
  <2>3. live # {} => active' \in live
    BY <2>1 DEF ActiveOf
  <2>4. ActiveSound'
    <3>1. CASE live = {}
      BY <3>1, <2>1 DEF ActiveOf, ActiveSound
    <3>2. CASE live # {}
      BY <3>2, <2>3, <1>2 DEF ActiveSound, RunStart
    <3>. QED BY <3>1, <3>2
  <2>5. ASSUME NEW i \in 1..xn, i <= offset, ~xord[i].done
        PROVE  i = active'
    <3>1. i \in known /\ ~lord[i].done
      BY <2>5 DEF IInv, LiveTracked
    <3>2. i \in LocalLive
      BY <3>1 DEF LocalLive
    <3>3. ~lo[i].done
      <4>1. lo[i] = Snapshot(i)
        BY <3>2, <1>1
      <4>. QED BY <4>1, <2>5 DEF Snapshot
    <3>4. i \in live
      BY <3>1, <3>3
    <3>. QED BY <3>4, <2>2, <2>3, AtMostOneElement
  <2>6. ActiveTracksLive'
    BY <2>1, <2>5 DEF RunStart, ActiveTracksLive, exchangeVars
  <2>. QED BY <1>3, <1>4, <2>4, <2>6 DEF SafeInv
<1>. QED BY <1>5, <1>6

\* On ctx.Done Run cancels the active order, or saves and returns.
LEMMA CtxDoneSafe ==
    ASSUME IInv, CtxDone
    PROVE  SafeInv'
<1>1. CASE active # NoOrder
  <2>1. pc = "loop" /\ pc' = "cancel"
        /\ UNCHANGED <<updates, known, lord, offset, active, dbKnown, dbOrd,
                       dbOffset, xn, xord>>
    BY <1>1 DEF CtxDone, InLoop, limiterVars, dbVars
  <2>2. StoreInv'
    BY <2>1, StoreFrame, IInvSplit DEF SafeInv
  <2>. QED
    BY <1>1, <2>1, <2>2 DEF SafeInv, IInv, UpdatesSound, ActiveSound,
       ActiveTracksLive
<1>2. CASE active = NoOrder
  <2>1. StoreInv'
    BY <1>2, SaveOrFailSafe, UnchangedGrows DEF CtxDone, IInv, TypeOK, MapSound
  <2>. QED BY <1>2, <2>1, ReturnSafe DEF CtxDone, SafeInv
<1>. QED BY <1>1, <1>2

\* Flush saves the orderMap; the active order is not done, so it stays.
LEMMA FlushSafe ==
    ASSUME IInv, Flush
    PROVE  SafeInv'
<1>1. SaveState(known, lord) \/ SaveFails(lord)
  BY DEF Flush
<1>2. /\ StoreInv'
      /\ \A i \in known : ~lord[i].done => i \in known' /\ lord'[i] = lord[i]
  BY <1>1, SaveOrFailSafe, UnchangedGrows DEF Flush, IInv, TypeOK, MapSound, exchangeVars
<1>3. UNCHANGED <<xn, xord, updates, pc, active, offset>>
  BY DEF Flush, exchangeVars
<1>4. ActiveSound'
  BY <1>2, <1>3 DEF IInv, ActiveSound
<1>. QED
  BY <1>2, <1>3, <1>4 DEF SafeInv, IInv, UpdatesSound, ActiveTracksLive

\* OrderUpdate applies the head of the stream, which tells the truth about
\* a done order.
LEMMA OrderUpdateSafe ==
    ASSUME IInv, OrderUpdate
    PROVE  SafeInv'
<1>. DEFINE u == Head(updates)
<1>1. /\ u.id \in 1..xn
      /\ u.done => xord[u.id].done /\ u.filled = xord[u.id].filled
  BY DEF OrderUpdate, IInv, UpdatesSound
<1>2. /\ lord' = IF u.id \in known
                 THEN [lord EXCEPT ![u.id] = [filled |-> u.filled, done |-> u.done]]
                 ELSE lord
      /\ active' = IF u.done /\ u.id = active THEN NoOrder ELSE active
      /\ updates' = Tail(updates)
      /\ UNCHANGED <<xn, xord, known, offset, pc, dbKnown, dbOrd, dbOffset>>
      /\ pc = "loop"
  BY DEF OrderUpdate, InLoop, dbVars
<1>3. \A i \in known : i # u.id => lord'[i] = lord[i]
  BY <1>2
<1>4. u.id \in known => lord'[u.id] = [filled |-> u.filled, done |-> u.done]
  BY <1>2 DEF IInv, TypeOK
<1>5. \A i \in known : lord'[i].done => xord[i].done
                                        /\ lord'[i].filled = xord[i].filled
  <2>. SUFFICES ASSUME NEW i \in known, lord'[i].done
                PROVE  xord[i].done /\ lord'[i].filled = xord[i].filled
    OBVIOUS
  <2>1. CASE i = u.id
    <3>1. u.done
      BY <2>1, <1>4
    <3>. QED BY <2>1, <1>4, <3>1, <1>1
  <2>2. CASE i # u.id
    BY <2>2, <1>3 DEF IInv, KnownSound
  <2>. QED BY <2>1, <2>2
<1>6. MapSound(known, lord, offset)'
  <2>1. KnownSound(known, lord, offset)'
    BY <1>2, <1>5 DEF IInv, KnownSound
  <2>2. LiveTracked(known, lord, offset)'
    BY <1>2, <1>5 DEF IInv, LiveTracked
  <2>. QED BY <2>1, <2>2 DEF MapSound
<1>7. StoreInv'
  BY <1>2, <1>6, MemMapStep
<1>8. UpdatesSound'
  <2>1. updates # << >> /\ updates \in Seq(Update)
    BY DEF OrderUpdate, InLoop, IInv, TypeOK
  <2>2. \A n \in 1..Len(updates') : updates'[n] = updates[n + 1]
    BY <1>2, <2>1
  <2>3. Len(updates') = Len(updates) - 1
    BY <1>2, <2>1
  <2>. QED BY <1>2, <2>2, <2>3 DEF IInv, UpdatesSound
<1>9. ActiveSound'
  <2>. SUFFICES ASSUME active' # NoOrder
                PROVE  active' \in known' /\ ~lord'[active'].done
    BY DEF ActiveSound
  <2>1. active' = active /\ ~(u.done /\ u.id = active)
    BY <1>2
  <2>2. active \in known /\ ~lord[active].done
    BY <2>1 DEF IInv, ActiveSound
  <2>3. CASE u.id = active
    BY <2>1, <2>2, <2>3, <1>4, <1>2
  <2>4. CASE u.id # active
    BY <2>1, <2>2, <2>4, <1>3, <1>2
  <2>. QED BY <2>3, <2>4
<1>10. ActiveTracksLive'
  <2>1. \A i \in 1..xn : i <= offset /\ ~xord[i].done => i = active
    BY <1>2 DEF IInv, ActiveTracksLive
  <2>2. active' = NoOrder => active = NoOrder \/ xord[active].done
    BY <1>2, <1>1
  <2>3. \A i \in 1..xn : i <= offset /\ ~xord[i].done => i = active'
    BY <2>1, <2>2, <1>2 DEF NoOrder
  <2>. QED BY <1>2, <2>3 DEF ActiveTracksLive
<1>. QED BY <1>7, <1>8, <1>9, <1>10 DEF SafeInv

\* Cancelling orders while the orderMaps stand still keeps StoreInv.
LEMMA MapsGrow ==
    ASSUME IInv, ExchangeGrows,
           UNCHANGED <<known, lord, offset, dbKnown, dbOrd, dbOffset>>
    PROVE  StoreInv'
<1>1. xn' = xn /\ Grows(xord, xn, xord')
  BY MapSoundAsKSLT
<1>2. known \subseteq 1..xn /\ dbKnown \subseteq 1..xn
  BY KnownInRange DEF IInv, TypeOK, OffsetOrder, MapSound
<1>3. KS(xord', known, lord, offset) /\ LT(xord', xn, known, lord, offset)
  <2>1. KS(xord, known, lord, offset) /\ LT(xord, xn, known, lord, offset)
    BY MapSoundAsKSLT DEF IInv, MapSound
  <2>. QED BY <2>1, <1>1, <1>2, KSLTGrows
<1>4. KS(xord', dbKnown, dbOrd, dbOffset) /\ LT(xord', xn, dbKnown, dbOrd, dbOffset)
  <2>1. KS(xord, dbKnown, dbOrd, dbOffset) /\ LT(xord, xn, dbKnown, dbOrd, dbOffset)
    BY MapSoundAsKSLT DEF IInv, MapSound
  <2>. QED BY <2>1, <1>1, <1>2, KSLTGrows
<1>5. MapSound(known, lord, offset)' /\ MapSound(dbKnown, dbOrd, dbOffset)'
  BY <1>1, <1>3, <1>4 DEF MapSound, KnownSound, LiveTracked, KS, LT
<1>6. OffsetOrder'
  BY <1>1 DEF IInv, OffsetOrder
<1>. QED BY <1>5, <1>6, GrowsKeepsExchange DEF StoreInv

\* cancel(active) succeeds: the active order, the only live one below the
\* offset, is done on the exchange, and its done update is queued.
LEMMA CancelOkSafe ==
    ASSUME IInv, CancelOk
    PROVE  SafeInv'
<1>. DEFINE xo == [xord[active] EXCEPT !.done = TRUE]
            u  == [id |-> active, filled |-> xo.filled, done |-> TRUE]
<1>1. /\ pc = "cancel" /\ active # NoOrder
      /\ active \in known /\ ~lord[active].done
  BY DEF CancelOk, IInv, ActiveTracksLive, ActiveSound
<1>2. active \in 1..xn
  <2>1. known \subseteq 1..xn
    BY KnownInRange DEF IInv, TypeOK, OffsetOrder, MapSound
  <2>. QED BY <1>1, <2>1
<1>3. xord' = [xord EXCEPT ![active] = xo] /\ xn' = xn /\ offset' = offset
  BY DEF CancelOk
<1>4. xord \in [OrderIds -> XOrder]
  BY DEF IInv, TypeOK
<1>5. /\ \A i \in 1..xn : i # active => xord'[i] = xord[i]
      /\ xord'[active].cid = xord[active].cid
      /\ xord'[active].filled = xord[active].filled
      /\ xord'[active].done
  <2>1. active \in OrderIds
    BY <1>2 DEF IInv, TypeOK, OrderIds
  <2>2. \A i \in 1..xn : i # active => xord'[i] = xord[i]
    BY <1>3
  <2>3. xord'[active] = xo
    BY <2>1, <1>3, <1>4
  <2>4. xo.cid = xord[active].cid /\ xo.filled = xord[active].filled
    BY <2>1, <1>4 DEF XOrder
  <2>5. xo.done
    BY <2>1, <1>4 DEF XOrder
  <2>. QED BY <2>2, <2>3, <2>4, <2>5
<1>6. ExchangeGrows
  BY <1>3, <1>5 DEF ExchangeGrows
<1>7. \A i \in 1..xn : i <= offset => xord'[i].done
  <2>1. \A i \in 1..xn : i <= offset /\ ~xord[i].done => i = active
    BY <1>1 DEF IInv, ActiveTracksLive
  <2>. QED BY <2>1, <1>5
<1>8. CASE why = "ctx"
  <2>1. StoreInv'
    BY <1>8, <1>6, <1>3, SaveOrFailSafe DEF CancelOk, IInv, TypeOK, MapSound
  <2>. QED BY <1>8, <2>1, ReturnSafe DEF CancelOk, SafeInv
<1>9. CASE why # "ctx"
  <2>1. /\ UNCHANGED <<known, lord, dbKnown, dbOrd, dbOffset>>
        /\ updates' = IF xord[active].done THEN updates ELSE Append(updates, u)
        /\ active' = NoOrder /\ pc' \in {"create", "loop"}
    BY <1>9 DEF CancelOk, dbVars
  <2>2. StoreInv'
    BY <2>1, <1>3, <1>6, MapsGrow
  <2>3. UpdatesSound'
    <3>1. updates \in Seq(Update)
      BY DEF IInv, TypeOK
    <3>2. \A n \in 1..Len(updates) :
            /\ updates[n].id \in 1..xn
            /\ updates[n].done => xord'[updates[n].id].done
                                  /\ updates[n].filled = xord'[updates[n].id].filled
      BY <1>5 DEF IInv, UpdatesSound
    <3>3. /\ u.id \in 1..xn /\ u.done
          /\ xord'[u.id].done /\ u.filled = xord'[u.id].filled
      BY <1>2, <1>5
    <3>. QED BY <2>1, <3>1, <3>2, <3>3, <1>3 DEF UpdatesSound
  <2>4. ActiveSound' /\ ActiveTracksLive'
    BY <2>1, <1>3, <1>7 DEF ActiveSound, ActiveTracksLive, NoOrder
  <2>. QED BY <2>2, <2>3, <2>4 DEF SafeInv
<1>. QED BY <1>8, <1>9

(***************************************************************************)
(* create() with client id offset.  Before it no order below the offset is *)
(* live, so the exchange either answers with the order that already has   *)
(* that id (order offset + 1) or, when there is none, the offset has      *)
(* caught up with the exchange and the new order is the only live one.    *)
(***************************************************************************)
LEMMA PlaceSafe ==
    ASSUME IInv, pc = "create", ExchangePlace(offset)
    PROVE  /\ PlacedId(offset) = offset + 1
           /\ offset + 1 <= xn'
           /\ xn' \in Nat /\ xn <= xn'
           /\ \A i \in 1..xn : xord'[i] = xord[i]
           /\ \A i \in 1..xn : i <= offset => xord[i].done
           /\ CidIsIndex' /\ ExchangeAtMostOneLive'
<1>1. \A i \in 1..xn : i <= offset => xord[i].done
  <2>1. active = NoOrder
    BY DEF IInv, ActiveTracksLive
  <2>. QED BY <2>1 DEF IInv, ActiveTracksLive, NoOrder
<1>2. /\ xn \in 0..MaxOrders /\ offset \in 0..MaxOrders /\ offset <= xn
      /\ xord \in [OrderIds -> XOrder]
      /\ \A i \in 1..xn : xord[i].cid = i - 1
  BY DEF IInv, TypeOK, OffsetOrder, CidIsIndex
<1>3. CASE HasCid(offset) /\ UNCHANGED <<xn, xord>>
  <2>1. offset + 1 \in 1..xn /\ xord[offset + 1].cid = offset
    BY <1>2, <1>3 DEF HasCid
  <2>2. \A i \in 1..xn : xord[i].cid = offset => i = offset + 1
    BY <1>2
  <2>3. PlacedId(offset) = offset + 1
    BY <1>3, <2>1, <2>2 DEF PlacedId
  <2>. QED
    BY <1>1, <1>2, <1>3, <2>1, <2>3 DEF IInv, CidIsIndex,
       ExchangeAtMostOneLive, LiveOnExchange
<1>4. CASE /\ ~HasCid(offset) /\ xn < MaxOrders /\ CreateSize \in OrderSizes
           /\ xn' = xn + 1
           /\ xord' = [xord EXCEPT ![xn + 1] = [cid |-> offset, size |-> CreateSize,
                                                filled |-> 0, done |-> FALSE]]
  <2>0. xn < MaxOrders
    BY <1>4
  <2>1. offset = xn
    <3>1. ~HasCid(offset)
      BY <1>4
    <3>. QED BY <1>2, <3>1 DEF HasCid
  <2>2. xn + 1 \in OrderIds
    <3>1. xn \in 0..MaxOrders
      BY <1>2
    <3>. QED BY <3>1, <2>0 DEF OrderIds
  <2>3. /\ xord'[xn + 1].cid = offset
        /\ ~xord'[xn + 1].done
        /\ \A i \in 1..xn : xord'[i] = xord[i]
    BY <1>4, <1>2, <2>2
  <2>4. \A i \in 1..xn' : xord'[i].cid = offset => i = offset + 1
    BY <1>2, <1>4, <2>1, <2>3
  <2>5. PlacedId(offset) = offset + 1
    BY <1>4, <2>1, <2>3, <2>4 DEF PlacedId
  <2>6. CidIsIndex'
    BY <1>2, <1>4, <2>1, <2>3 DEF CidIsIndex
  <2>7. \A i \in 1..xn' : LiveOnExchange(i)' => i = xn + 1
    BY <1>1, <1>2, <1>4, <2>1, <2>3 DEF LiveOnExchange
  <2>8. ExchangeAtMostOneLive'
    BY <2>7 DEF ExchangeAtMostOneLive
  <2>. QED BY <1>1, <1>2, <1>4, <2>1, <2>3, <2>5, <2>6, <2>8
<1>. QED BY <1>3, <1>4 DEF ExchangePlace

\* A map below the offset does not see orders added above it.
LEMMA KSLTExtend ==
    ASSUME NEW x, NEW y, NEW n \in Nat, NEW m \in Nat, n <= m,
           NEW k \in SUBSET (1..n), NEW lo, NEW off \in Int, off <= n,
           KS(x, k, lo, off), LT(x, n, k, lo, off),
           \A i \in 1..n : y[i] = x[i]
    PROVE  KS(y, k, lo, off) /\ LT(y, m, k, lo, off)
<1>1. KS(y, k, lo, off)
  BY DEF KS
<1>2. LT(y, m, k, lo, off)
  <2>. SUFFICES ASSUME NEW i \in 1..m, i <= off
                PROVE  /\ ~y[i].done => i \in k /\ ~lo[i].done
                       /\ y[i].filled > 0 => i \in k
    BY DEF LT
  <2>1. i \in 1..n
    OBVIOUS
  <2>. QED BY <2>1 DEF LT
<1>. QED BY <1>1, <1>2

\* The stored orderMap lies below the stored offset, so create() leaves it
\* sound.
LEMMA DbAfterPlace ==
    ASSUME IInv, xn' \in Nat, xn <= xn', \A i \in 1..xn : xord'[i] = xord[i],
           UNCHANGED <<dbKnown, dbOrd, dbOffset>>
    PROVE  MapSound(dbKnown, dbOrd, dbOffset)'
<1>1. dbKnown \subseteq 1..xn /\ dbOffset \in Int /\ dbOffset <= xn /\ xn \in Nat
  BY KnownInRange DEF IInv, TypeOK, OffsetOrder, MapSound
<1>2. KS(xord, dbKnown, dbOrd, dbOffset) /\ LT(xord, xn, dbKnown, dbOrd, dbOffset)
  BY MapSoundAsKSLT DEF IInv, MapSound
<1>3. KS(xord', dbKnown, dbOrd, dbOffset) /\ LT(xord', xn', dbKnown, dbOrd, dbOffset)
  BY <1>1, <1>2, KSLTExtend
<1>. QED BY <1>3 DEF MapSound, KnownSound, LiveTracked, KS, LT

\* create() fails after the exchange may have placed the order: nothing of
\* the limiter changes, and the new order, if any, lies above the offset.
LEMMA CreateFailsSafe ==
    ASSUME IInv, CreateFails
    PROVE  SafeInv'
<1>1. UNCHANGED <<known, lord, offset, dbKnown, dbOrd, dbOffset>> /\ pc = "create"
  BY DEF CreateFails, limiterVars, dbVars
<1>2. CASE UNCHANGED <<xn, xord>>
  BY <1>1, <1>2, StoreFrame, IInvSplit, ReturnSafe DEF CreateFails, SafeInv
<1>3. CASE ExchangePlace(offset)
  <2>1. /\ xn' \in Nat /\ xn <= xn'
        /\ \A i \in 1..xn : xord'[i] = xord[i]
        /\ CidIsIndex' /\ ExchangeAtMostOneLive'
    BY <1>1, <1>3, PlaceSafe
  <2>2. known \subseteq 1..xn /\ offset \in Int /\ offset <= xn /\ xn \in Nat
    BY KnownInRange DEF IInv, TypeOK, OffsetOrder, MapSound
  <2>3. KS(xord, known, lord, offset) /\ LT(xord, xn, known, lord, offset)
    BY MapSoundAsKSLT DEF IInv, MapSound
  <2>4. KS(xord', known, lord, offset) /\ LT(xord', xn', known, lord, offset)
    BY <2>1, <2>2, <2>3, KSLTExtend
  <2>5. MapSound(known, lord, offset)'
    BY <1>1, <2>4 DEF MapSound, KnownSound, LiveTracked, KS, LT
  <2>6. MapSound(dbKnown, dbOrd, dbOffset)'
    BY <1>1, <2>1, DbAfterPlace
  <2>7. OffsetOrder'
    BY <1>1, <2>1 DEF IInv, TypeOK, OffsetOrder
  <2>8. StoreInv'
    BY <2>1, <2>5, <2>6, <2>7 DEF StoreInv
  <2>. QED BY <2>8, ReturnSafe DEF CreateFails, SafeInv
<1>. QED BY <1>2, <1>3 DEF CreateFails

\* create() succeeds: order offset + 1 becomes an entry of the orderMap and
\* the active order, and the offset moves past it.
LEMMA CreateOkSafe ==
    ASSUME IInv, CreateOk
    PROVE  SafeInv'
<1>. DEFINE id == offset + 1
<1>1. /\ pc = "create" /\ ExchangePlace(offset)
      /\ known' = known \cup {PlacedId(offset)}
      /\ lord' = [lord EXCEPT ![PlacedId(offset)] = [filled |-> 0, done |-> FALSE]]
      /\ active' = PlacedId(offset) /\ offset' = offset + 1 /\ pc' = "loop"
      /\ UNCHANGED <<updates, dbKnown, dbOrd, dbOffset>>
  BY DEF CreateOk, dbVars
<1>2. /\ PlacedId(offset) = id /\ id <= xn'
      /\ xn' \in Nat /\ xn <= xn'
      /\ \A i \in 1..xn : xord'[i] = xord[i]
      /\ \A i \in 1..xn : i <= offset => xord[i].done
      /\ CidIsIndex' /\ ExchangeAtMostOneLive'
  BY <1>1, PlaceSafe
<1>3. /\ known \subseteq 1..xn /\ offset \in 0..MaxOrders /\ offset <= xn
      /\ xn \in Nat /\ known \subseteq OrderIds /\ lord \in [OrderIds -> LOrder]
  BY KnownInRange DEF IInv, TypeOK, OffsetOrder, MapSound
<1>4. id \in OrderIds /\ id \notin known
  <2>1. offset < MaxOrders
    BY DEF CreateOk
  <2>2. id \in OrderIds
    BY <2>1, <1>3 DEF OrderIds
  <2>3. \A i \in known : i <= offset
    BY DEF IInv, KnownSound
  <2>. QED BY <2>2, <2>3, <1>3
<1>5. /\ known' = known \cup {id}
      /\ lord'[id] = [filled |-> 0, done |-> FALSE]
      /\ \A i \in known : lord'[i] = lord[i]
  BY <1>1, <1>2, <1>3, <1>4
<1>6. KnownSound(known, lord, offset)'
  <2>. SUFFICES ASSUME NEW i \in known'
                PROVE  /\ i <= offset'
                       /\ lord'[i].done => xord'[i].done
                                           /\ lord'[i].filled = xord'[i].filled
    BY DEF KnownSound
  <2>1. CASE i = id
    BY <2>1, <1>1, <1>5
  <2>2. CASE i \in known
    <3>1. i \in 1..xn /\ i <= offset
      BY <2>2, <1>3 DEF IInv, MapSound, KnownSound
    <3>2. lord'[i] = lord[i] /\ xord'[i] = xord[i]
      BY <2>2, <3>1, <1>2, <1>5
    <3>3. i <= offset'
      BY <3>1, <1>1, <1>3
    <3>4. lord[i].done => xord[i].done /\ lord[i].filled = xord[i].filled
      BY <2>2 DEF IInv, KnownSound
    <3>. QED BY <3>2, <3>3, <3>4
  <2>. QED BY <2>1, <2>2, <1>5
<1>7. LiveTracked(known, lord, offset)'
  <2>. SUFFICES ASSUME NEW i \in 1..xn', i <= offset'
                PROVE  /\ ~xord'[i].done => i \in known' /\ ~lord'[i].done
                       /\ xord'[i].filled > 0 => i \in known'
    BY DEF LiveTracked
  <2>1. CASE i = id
    BY <2>1, <1>5
  <2>2. CASE i # id
    <3>1. i \in 1..xn /\ i <= offset
      BY <2>2, <1>1, <1>3
    <3>2. xord'[i] = xord[i] /\ xord[i].done
      BY <3>1, <1>2
    <3>3. xord[i].filled > 0 => i \in known
      BY <3>1 DEF IInv, LiveTracked
    <3>. QED BY <3>2, <3>3, <1>5
  <2>. QED BY <2>1, <2>2
<1>8. MapSound(dbKnown, dbOrd, dbOffset)'
  BY <1>1, <1>2, DbAfterPlace
<1>9. OffsetOrder'
  BY <1>1, <1>2, <1>3 DEF IInv, TypeOK, OffsetOrder
<1>10. StoreInv'
  BY <1>2, <1>6, <1>7, <1>8, <1>9 DEF StoreInv, MapSound
<1>11. UpdatesSound'
  <2>. SUFFICES ASSUME NEW n \in 1..Len(updates)
                PROVE  /\ updates[n].id \in 1..xn'
                       /\ updates[n].done => xord'[updates[n].id].done
                            /\ updates[n].filled = xord'[updates[n].id].filled
    BY <1>1 DEF UpdatesSound
  <2>1. /\ updates[n].id \in 1..xn
        /\ updates[n].done => xord[updates[n].id].done
                              /\ updates[n].filled = xord[updates[n].id].filled
    BY DEF IInv, UpdatesSound
  <2>2. updates[n].id \in 1..xn
    BY <2>1
  <2>3. xn' \in Nat /\ xn <= xn' /\ xn \in Nat
    BY <1>2, <1>3
  <2>4. updates[n].id \in 1..xn'
    BY <2>2, <2>3
  <2>5. xord'[updates[n].id] = xord[updates[n].id]
    BY <2>2, <1>2
  <2>. QED BY <2>1, <2>4, <2>5
<1>12. ActiveSound'
  BY <1>1, <1>2, <1>5 DEF ActiveSound
<1>13. ActiveTracksLive'
  <2>1. \A i \in 1..xn' : i <= offset' /\ ~xord'[i].done => i = active'
    <3>. SUFFICES ASSUME NEW i \in 1..xn', i <= offset', ~xord'[i].done
                  PROVE  i = id
      BY <1>1, <1>2
    <3>1. CASE i # id
      <4>1. i \in 1..xn /\ i <= offset
        BY <3>1, <1>1, <1>3
      <4>. QED BY <4>1, <1>2
    <3>. QED BY <3>1
  <2>. QED BY <2>1, <1>1 DEF ActiveTracksLive
<1>. QED BY <1>10, <1>11, <1>12, <1>13 DEF SafeInv

\* Finish fetches, saves and returns; each failure returns at once.
LEMMA FinishSafe ==
    ASSUME IInv, Finish
    PROVE  SafeInv'
<1>0. UNCHANGED <<xn, xord, offset>>
  BY DEF Finish
<1>1. CASE FetchOrderMapFails /\ ReturnFromRun("idle")
           /\ UNCHANGED <<known, dbVars>>
  <2>1. PICK S \in SUBSET LocalLive : lord' = Fetched(S)
    BY <1>1 DEF FetchOrderMapFails
  <2>2. MapSound(known, lord, offset)'
    BY <1>0, <1>1, <2>1, FetchSound DEF MapSound, KnownSound, LiveTracked
  <2>3. StoreInv'
    BY <1>0, <1>1, <2>2, MemMapStep DEF dbVars
  <2>. QED BY <1>1, <2>3, ReturnSafe DEF SafeInv
<1>2. CASE \/ SaveState(known, Fetched(LocalLive)) /\ ReturnFromRun("done")
           \/ SaveFails(Fetched(LocalLive)) /\ ReturnFromRun("idle")
  <2>1. Fetched(LocalLive) \in [OrderIds -> LOrder]
        /\ MapSound(known, Fetched(LocalLive), offset)
    BY FetchSound
  <2>2. StoreInv'
    BY <1>0, <1>2, <2>1, SaveOrFailSafe, UnchangedGrows
  <2>. QED BY <1>2, <2>2, ReturnSafe DEF SafeInv
<1>. QED BY <1>1, <1>2 DEF Finish

\* A restart reloads the stored orderMap and offset, which are sound.
LEMMA CrashSafe ==
    ASSUME IInv, Crash
    PROVE  SafeInv'
<1>1. /\ known' = dbKnown /\ lord' = dbOrd /\ offset' = dbOffset
      /\ UNCHANGED <<xn, xord, dbKnown, dbOrd, dbOffset>>
      /\ ReturnFromRun("idle")
  BY DEF Crash, dbVars
<1>2. StoreInv'
  BY <1>1 DEF IInv, TypeOK, StoreInv, CidIsIndex, OffsetOrder, MapSound,
     KnownSound, LiveTracked, ExchangeAtMostOneLive, LiveOnExchange
<1>. QED BY <1>1, <1>2, ReturnSafe DEF SafeInv

\* A fill of a live order: a map that tracked the order still does, and no
\* entry claimed it done.
LEMMA KSLTFill ==
    ASSUME NEW x, NEW y, NEW n, NEW k \in SUBSET (1..n), NEW lo, NEW off,
           KS(x, k, lo, off), LT(x, n, k, lo, off),
           NEW i \in 1..n, ~x[i].done,
           \A j \in 1..n : j # i => y[j] = x[j]
    PROVE  KS(y, k, lo, off) /\ LT(y, n, k, lo, off)
<1>1. KS(y, k, lo, off)
  <2>. SUFFICES ASSUME NEW j \in k
                PROVE  /\ j <= off
                       /\ lo[j].done => y[j].done /\ lo[j].filled = y[j].filled
    BY DEF KS
  <2>1. CASE j = i
    BY <2>1 DEF KS
  <2>2. CASE j # i
    BY <2>2 DEF KS
  <2>. QED BY <2>1, <2>2
<1>2. LT(y, n, k, lo, off)
  <2>. SUFFICES ASSUME NEW j \in 1..n, j <= off
                PROVE  /\ ~y[j].done => j \in k /\ ~lo[j].done
                       /\ y[j].filled > 0 => j \in k
    BY DEF LT
  <2>1. CASE j = i
    BY <2>1 DEF LT
  <2>2. CASE j # i
    BY <2>2 DEF LT
  <2>. QED BY <2>1, <2>2
<1>. QED BY <1>1, <1>2

\* The exchange fills part of a live order and, to a subscribed Run, pushes
\* an update that tells the order's new state.
LEMMA FillSafe ==
    ASSUME IInv, NEW i \in OrderIds, NEW k \in 1..MaxSize, Fill(i, k)
    PROVE  SafeInv'
<1>. DEFINE xo == [xord[i] EXCEPT !.filled = @ + k,
                                  !.done = (xord[i].filled + k = xord[i].size)]
            v == [id |-> i, filled |-> xo.filled, done |-> xo.done]
<1>1. /\ i \in 1..xn /\ ~xord[i].done
      /\ xord' = [xord EXCEPT ![i] = xo]
      /\ updates' = IF Subscribed THEN Append(updates, v) ELSE updates
      /\ UNCHANGED <<xn, known, lord, offset, pc, active, dbKnown, dbOrd, dbOffset>>
  BY DEF Fill, limiterVars, runVars, localVars, dbVars
<1>2. xord \in [OrderIds -> XOrder] /\ updates \in Seq(Update)
  BY DEF IInv, TypeOK
<1>3. /\ \A j \in 1..xn : j # i => xord'[j] = xord[j]
      /\ xord'[i] = xo
  BY <1>1, <1>2
<1>4. /\ xo.cid = xord[i].cid
      /\ xo.filled = xord[i].filled + k
      /\ xo.done = (xord[i].filled + k = xord[i].size)
  BY <1>2 DEF XOrder
<1>5. known \subseteq 1..xn /\ dbKnown \subseteq 1..xn
  BY KnownInRange DEF IInv, TypeOK, OffsetOrder, MapSound
<1>6. MapSound(known, lord, offset)' /\ MapSound(dbKnown, dbOrd, dbOffset)'
  <2>1. KS(xord', known, lord, offset) /\ LT(xord', xn, known, lord, offset)
    <3>1. KS(xord, known, lord, offset) /\ LT(xord, xn, known, lord, offset)
      BY MapSoundAsKSLT DEF IInv, MapSound
    <3>. QED BY <3>1, <1>1, <1>3, <1>5, KSLTFill
  <2>2. KS(xord', dbKnown, dbOrd, dbOffset) /\ LT(xord', xn, dbKnown, dbOrd, dbOffset)
    <3>1. KS(xord, dbKnown, dbOrd, dbOffset) /\ LT(xord, xn, dbKnown, dbOrd, dbOffset)
      BY MapSoundAsKSLT DEF IInv, MapSound
    <3>. QED BY <3>1, <1>1, <1>3, <1>5, KSLTFill
  <2>. QED BY <1>1, <2>1, <2>2 DEF MapSound, KnownSound, LiveTracked, KS, LT
<1>7. CidIsIndex'
  BY <1>1, <1>3, <1>4 DEF IInv, CidIsIndex
<1>8. ExchangeAtMostOneLive'
  <2>1. \A j \in 1..xn : LiveOnExchange(j)' => LiveOnExchange(j)
    BY <1>1, <1>3 DEF LiveOnExchange
  <2>. QED BY <2>1, <1>1 DEF IInv, ExchangeAtMostOneLive
<1>9. StoreInv'
  BY <1>1, <1>6, <1>7, <1>8 DEF IInv, StoreInv, OffsetOrder
<1>10. UpdatesSound'
  <2>1. \A n \in 1..Len(updates) :
          /\ updates[n].id \in 1..xn
          /\ updates[n].done => xord'[updates[n].id].done
                                /\ updates[n].filled = xord'[updates[n].id].filled
    <3>. SUFFICES ASSUME NEW n \in 1..Len(updates)
                  PROVE  /\ updates[n].id \in 1..xn
                         /\ updates[n].done => xord'[updates[n].id].done
                              /\ updates[n].filled = xord'[updates[n].id].filled
      OBVIOUS
    <3>1. /\ updates[n].id \in 1..xn
          /\ updates[n].done => xord[updates[n].id].done
                                /\ updates[n].filled = xord[updates[n].id].filled
      BY DEF IInv, UpdatesSound
    <3>2. CASE updates[n].id = i
      BY <3>1, <3>2, <1>1
    <3>3. CASE updates[n].id # i
      BY <3>1, <3>3, <1>3
    <3>. QED BY <3>2, <3>3
  <2>2. /\ v.id \in 1..xn
        /\ v.done => xord'[v.id].done /\ v.filled = xord'[v.id].filled
    BY <1>1, <1>3
  <2>3. CASE Subscribed
    <3>1. updates' = Append(updates, v)
      BY <2>3, <1>1
    <3>. QED BY <3>1, <1>1, <1>2, <2>1, <2>2 DEF UpdatesSound
  <2>4. CASE ~Subscribed
    <3>1. updates' = updates
      BY <2>4, <1>1
    <3>. QED BY <3>1, <1>1, <2>1 DEF UpdatesSound
  <2>. QED BY <2>3, <2>4
<1>11. ActiveSound'
  BY <1>1 DEF IInv, ActiveSound
<1>12. ActiveTracksLive'
  <2>1. \A j \in 1..xn : ~xord'[j].done => ~xord[j].done
    BY <1>1, <1>3
  <2>. QED BY <2>1, <1>1 DEF IInv, ActiveTracksLive
<1>. QED BY <1>9, <1>10, <1>11, <1>12 DEF SafeInv

\* Every step keeps the state-dependent part of the invariant.
LEMMA SafeStep ==
    ASSUME IInv, [Next]_vars
    PROVE  SafeInv'
<1>1. CASE UNCHANGED vars
  <2>1. UNCHANGED <<xn, xord, known, lord, offset, dbKnown, dbOrd, dbOffset,
                    updates, active, pc>>
    BY <1>1 DEF vars, exchangeVars, limiterVars, runVars, localVars, dbVars
  <2>2. StoreInv'
    BY <2>1, StoreFrame, IInvSplit DEF SafeInv
  <2>. QED
    BY <2>1, <2>2 DEF SafeInv, IInv, UpdatesSound, ActiveSound, ActiveTracksLive
<1>. QED
  BY <1>1, RunFetchFailsSafe, RunCompleteSafe, RunStartSafe, SubscribeSafe,
     CtxDoneSafe, FlushSafe, OrderUpdateSafe, TickerSafe, CancelOkSafe,
     CancelFailsSafe, CreateOkSafe, CreateFailsSafe, FinishSafe, CrashSafe,
     FillSafe, ControlSafe
  DEF Next, Limiter, Environment

(***************************************************************************)
(* IInv holds in every reachable state, for every value of the constants. *)
(***************************************************************************)
THEOREM InductiveInvariant == Spec => []IInv
<1>1. Init => IInv
  <2>. SUFFICES ASSUME Init PROVE IInv
    OBVIOUS
  <2>1. TypeOK
    BY InitType DEF TypeInv
  <2>2. xn = 0 /\ known = {} /\ dbKnown = {} /\ offset = 0 /\ dbOffset = 0
        /\ updates = << >> /\ active = NoOrder /\ pc = "idle"
    BY DEF Init
  <2>3. SafeInv
    BY <2>2 DEF SafeInv, StoreInv, CidIsIndex, OffsetOrder, MapSound,
       KnownSound, LiveTracked, ExchangeAtMostOneLive, UpdatesSound,
       ActiveSound, ActiveTracksLive
  <2>. QED BY <2>1, <2>3, IInvSplit
<1>2. IInv /\ [Next]_vars => IInv'
  <2>. SUFFICES ASSUME IInv, [Next]_vars PROVE IInv'
    OBVIOUS
  <2>1. TypeInv'
    BY IInvTypeInv, TypeStep
  <2>2. SafeInv'
    BY SafeStep
  <2>3. TypeOK'
    BY <2>1 DEF TypeInv
  <2>. QED BY <2>2, <2>3 DEF IInv, SafeInv, StoreInv, MapSound
<1>. QED BY <1>1, <1>2, PTL DEF Spec

(***************************************************************************)
(* At most one of the job's orders is live on the exchange, whatever the   *)
(* size, bounds and fault budgets: lost create replies, restarts from the  *)
(* last save and reused live orders never leave two orders resting.        *)
(***************************************************************************)
THEOREM AtMostOneLive == Spec => []ExchangeAtMostOneLive
<1>1. IInv => ExchangeAtMostOneLive
  BY DEF IInv
<1>. QED BY <1>1, InductiveInvariant, PTL

(***************************************************************************)
(* Neither the orderMap nor its saved copy ever loses an order below its   *)
(* offset that is live or has filled: compaction, RevertID and the atomic  *)
(* save of map and offset keep every such order in view.                  *)
(***************************************************************************)
THEOREM OrdersNeverForgotten == Spec => []NoOrderForgotten
<1>1. IInv => NoOrderForgotten
  <2>. SUFFICES ASSUME IInv PROVE NoOrderForgotten
    OBVIOUS
  <2>1. \A i \in 1..xn : xord[i].cid = i - 1
    BY DEF IInv, CidIsIndex
  <2>2. offset \in Int /\ dbOffset \in Int
    BY DEF IInv, TypeOK
  <2>3. \A i \in 1..xn : xord[i].cid < offset => i <= offset
    BY <2>1, <2>2
  <2>4. \A i \in 1..xn : xord[i].cid < dbOffset => i <= dbOffset
    BY <2>1, <2>2
  <2>. QED BY <2>3, <2>4 DEF IInv, LiveTracked, NoOrderForgotten, Tracked
<1>. QED BY <1>1, InductiveInvariant, PTL
=============================================================================
