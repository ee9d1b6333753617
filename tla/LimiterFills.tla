--------------------------- MODULE LimiterFills ---------------------------
(***************************************************************************)
(* The proof that the filled sizes the limiter records never go down       *)
(* between restarts (LocalFillMonotone), for every value of the constants. *)
(* It rests on FillsOrdered, which is inductive together with IInv: every  *)
(* fill the orderMap, its stored copy or a queued update reports is at     *)
(* most the exchange's, the updates of one order are queued in increasing  *)
(* fill, and each is at least what the orderMap records.                   *)
(***************************************************************************)
EXTENDS LimiterSafety

USE SizeAssumption, MinSizeAssumption, PointAssumption, SizeLimitsAssumption,
    TickerAssumption, BoundsAssumption

\* FillsOrdered with the exchange, the stream and the map as arguments.
FB(x, k, lo) == \A i \in k : lo[i].filled <= x[i].filled
SO(x, s, k, lo) ==
    \A n \in 1..Len(s) :
        /\ s[n].filled <= x[s[n].id].filled
        /\ s[n].id \in k => lo[s[n].id].filled <= s[n].filled
        /\ \A m \in 1..(n - 1) : s[m].id = s[n].id => s[m].filled <= s[n].filled

\* No recorded fill of an order kept in the map went down.
Mono(lo, k) == \A i \in known \cap k : lord[i].filled <= lo[i].filled
MonoStep == crashes' = crashes => Mono(lord', known')

\* What each step must establish.
FillsGoal == FillsOrdered' /\ MonoStep

FInv == IInv /\ FillsOrdered

LEMMA FillsUnfold ==
    /\ FillsOrdered <=>
         /\ ~Subscribed => updates = <<>>
         /\ FB(xord, known, lord) /\ FB(xord, dbKnown, dbOrd)
         /\ SO(xord, updates, known, lord)
    /\ FillsOrdered' <=>
         /\ ~Subscribed' => updates' = <<>>
         /\ FB(xord', known', lord') /\ FB(xord', dbKnown', dbOrd')
         /\ SO(xord', updates', known', lord')
BY DEF FillsOrdered, FillsBelowExchange, FB, SO

\* Recorded fills are integers, so a map that is kept is no lower.
LEMMA MonoRefl ==
    ASSUME TypeOK
    PROVE  Mono(lord, known)
BY DEF TypeOK, LOrder, Mono

(***************************************************************************)
(* fetchOrderMap stores the exchange's filled size, which is at least what *)
(* the orderMap recorded and at most what the exchange filled.            *)
(***************************************************************************)
LEMMA FetchFills ==
    ASSUME TypeOK, FillsOrdered, NEW S \in SUBSET known
    PROVE  /\ Fetched(S) \in [OrderIds -> LOrder]
           /\ FB(xord, known, Fetched(S))
           /\ Mono(Fetched(S), known)
<1>1. Fetched(S) \in [OrderIds -> LOrder]
  BY FetchedType
<1>2. \A i \in known : lord[i].filled \in Int /\ xord[i].filled \in Int
  BY DEF TypeOK, LOrder, XOrder
<1>3. \A i \in known : lord[i].filled <= xord[i].filled
  BY FillsUnfold DEF FB
<1>4. \A i \in known :
        Fetched(S)[i].filled = IF i \in S THEN xord[i].filled ELSE lord[i].filled
  BY DEF Fetched, Snapshot, TypeOK
<1>. QED BY <1>1, <1>2, <1>3, <1>4 DEF FB, Mono

(***************************************************************************)
(* Save, or a failed save, keeps only entries of the map it was given (in  *)
(* memory) and stores them as they are, or stores nothing.                 *)
(***************************************************************************)
LEMMA SaveFills ==
    ASSUME TypeOK, FillsOrdered, NEW lo \in [OrderIds -> LOrder],
           FB(xord, known, lo), Mono(lo, known),
           SaveState(known, lo) \/ SaveFails(lo)
    PROVE  /\ known' \subseteq known
           /\ \A i \in known' : lord'[i] = lo[i]
           /\ FB(xord, known', lord') /\ FB(xord, dbKnown', dbOrd')
           /\ Mono(lord', known')
<1>. DEFINE Kept == /\ known' \subseteq known
                   /\ \A i \in known' : lord'[i] = lo[i]
<1>1. ASSUME CompactMap(known, lo) PROVE Kept
  <2>1. known' = CompactOf(known, lo) /\ known' \subseteq known
    BY <1>1 DEF CompactMap, CompactOf
  <2>2. known \subseteq OrderIds
    BY DEF TypeOK
  <2>3. lord' = ForgetOutside(lo, known')
    BY <1>1, <2>1 DEF CompactMap
  <2>. QED BY <2>1, <2>2, <2>3 DEF ForgetOutside
<1>2. Kept
  <2>1. CASE SaveState(known, lo)
    BY <2>1, <1>1 DEF SaveState
  <2>2. CASE SaveFails(lo)
    <3>1. CASE lord' = lo /\ UNCHANGED known
      BY <3>1
    <3>. QED BY <2>2, <3>1, <1>1 DEF SaveFails
  <2>. QED BY <2>1, <2>2
<1>3. FB(xord, known', lord') /\ Mono(lord', known')
  BY <1>2 DEF FB, Mono
<1>4. FB(xord, dbKnown', dbOrd')
  <2>1. CASE SaveState(known, lo)
    BY <2>1, <1>3 DEF SaveState
  <2>2. CASE SaveFails(lo)
    BY <2>2, FillsUnfold DEF SaveFails, dbVars
  <2>. QED BY <2>1, <2>2
<1>. QED BY <1>2, <1>3, <1>4

(***************************************************************************)
(* A step that ends the subscription (Run returns, or a restart) keeps    *)
(* FillsOrdered when both maps stay below the exchange and no kept fill   *)
(* went down.                                                              *)
(***************************************************************************)
LEMMA EmptiedStep ==
    ASSUME updates' = <<>>,
           FB(xord', known', lord'), FB(xord', dbKnown', dbOrd'),
           Mono(lord', known')
    PROVE  FillsGoal
<1>1. SO(xord', updates', known', lord')
  BY DEF SO
<1>. QED BY <1>1, FillsUnfold DEF FillsGoal, MonoStep

\* A map below the exchange stays below it when no fill of it changes.
LEMMA FBSame ==
    ASSUME NEW x, NEW y, NEW k, NEW lo, FB(x, k, lo),
           \A i \in k : y[i].filled = x[i].filled
    PROVE  FB(y, k, lo)
BY DEF FB

(***************************************************************************)
(* Facts about the queued updates: they stay ordered when the exchange     *)
(* fills more, when an update carrying the exchange's fill is appended,   *)
(* when the map they are compared with shrinks, and when the head is      *)
(* applied to the map and dropped.                                         *)
(***************************************************************************)
LEMMA UpdateFields ==
    ASSUME NEW s \in Seq(Update)
    PROVE  \A n \in 1..Len(s) : s[n].id \in OrderIds /\ s[n].filled \in Nat
<1>. SUFFICES ASSUME NEW n \in 1..Len(s)
              PROVE  s[n].id \in OrderIds /\ s[n].filled \in Nat
  OBVIOUS
<1>1. s[n] \in Update
  OBVIOUS
<1>2. s[n].id \in OrderIds /\ s[n].filled \in 0..MaxSize
  BY <1>1, Zenon DEF Update
<1>. QED BY <1>2, SizeBounds

\* The fills of exchange orders and of orderMap entries are numbers.
LEMMA FilledNat ==
    /\ \A x \in [OrderIds -> XOrder] : \A i \in OrderIds : x[i].filled \in Nat
    /\ \A lo \in [OrderIds -> LOrder] : \A i \in OrderIds : lo[i].filled \in Nat
<1>1. \A r \in XOrder : r.filled \in 0..MaxSize
  BY Zenon DEF XOrder
<1>2. \A r \in LOrder : r.filled \in 0..MaxSize
  BY Zenon DEF LOrder
<1>. QED BY <1>1, <1>2, SizeBounds

LEMMA SOGrow ==
    ASSUME NEW x \in [OrderIds -> XOrder], NEW y \in [OrderIds -> XOrder],
           NEW s \in Seq(Update), NEW k, NEW lo,
           SO(x, s, k, lo), \A i \in OrderIds : x[i].filled <= y[i].filled
    PROVE  SO(y, s, k, lo)
<1>1. \A n \in 1..Len(s) : s[n].id \in OrderIds /\ s[n].filled \in Nat
  BY UpdateFields
<1>2. \A i \in OrderIds : x[i].filled \in Nat /\ y[i].filled \in Nat
  BY FilledNat
<1>. QED BY <1>1, <1>2 DEF SO

LEMMA SOAppend ==
    ASSUME NEW x \in [OrderIds -> XOrder], NEW y \in [OrderIds -> XOrder],
           NEW s \in Seq(Update), NEW k \in SUBSET OrderIds,
           NEW lo \in [OrderIds -> LOrder], NEW v \in Update,
           SO(x, s, k, lo), FB(x, k, lo),
           \A i \in OrderIds : x[i].filled <= y[i].filled,
           v.filled = y[v.id].filled
    PROVE  SO(y, Append(s, v), k, lo)
<1>. DEFINE t == Append(s, v)
<1>1. SO(y, s, k, lo)
  BY SOGrow
<1>2. /\ Len(t) = Len(s) + 1 /\ t[Len(s) + 1] = v
      /\ \A n \in 1..Len(s) : t[n] = s[n]
  OBVIOUS
<1>3. \A n \in 1..Len(s) : s[n].id \in OrderIds /\ s[n].filled \in Nat
  BY UpdateFields
<1>4. /\ \A i \in OrderIds : x[i].filled \in Nat /\ y[i].filled \in Nat
      /\ \A i \in OrderIds : lo[i].filled \in Nat
      /\ v.id \in OrderIds
  <2>1. v.id \in OrderIds
    BY Zenon DEF Update
  <2>. QED BY <2>1, FilledNat
<1>5. v.id \in k => lo[v.id].filled <= v.filled
  BY <1>4 DEF FB
<1>6. \A m \in 1..Len(s) : s[m].id = v.id => s[m].filled <= v.filled
  BY <1>3, <1>4 DEF SO
<1>. SUFFICES ASSUME NEW n \in 1..Len(t)
              PROVE  /\ t[n].filled <= y[t[n].id].filled
                     /\ t[n].id \in k => lo[t[n].id].filled <= t[n].filled
                     /\ \A m \in 1..(n - 1) :
                            t[m].id = t[n].id => t[m].filled <= t[n].filled
  BY DEF SO
<1>7. CASE n = Len(s) + 1
  <2>1. \A m \in 1..(n - 1) : m \in 1..Len(s)
    BY <1>7
  <2>2. t[n] = v
    BY <1>2, <1>7
  <2>3. v.filled <= y[v.id].filled
    BY <1>4
  <2>4. \A m \in 1..(n - 1) : t[m] = s[m]
    BY <1>2, <2>1
  <2>. QED BY <1>5, <1>6, <2>1, <2>2, <2>3, <2>4
<1>8. CASE n \in 1..Len(s)
  <2>1. \A m \in 1..(n - 1) : m \in 1..Len(s)
    BY <1>8
  <2>. QED BY <1>1, <1>2, <1>8, <2>1 DEF SO
<1>. QED BY <1>7, <1>8

(***************************************************************************)
(* updateOrderMap with the head of the stream: the update carries at least *)
(* the map's fill and at most the exchange's, and it is no later in fill  *)
(* than the updates of its order still queued behind it.                   *)
(***************************************************************************)
ApplyHead(s, k, lo) ==
    IF Head(s).id \in k
    THEN [lo EXCEPT ![Head(s).id] = [filled |-> Head(s).filled,
                                     done |-> Head(s).done]]
    ELSE lo

LEMMA SOHead ==
    ASSUME NEW x \in [OrderIds -> XOrder], NEW s \in Seq(Update), s # <<>>,
           NEW k \in SUBSET OrderIds, NEW lo \in [OrderIds -> LOrder],
           SO(x, s, k, lo), FB(x, k, lo)
    PROVE  /\ FB(x, k, ApplyHead(s, k, lo))
           /\ \A i \in k : lo[i].filled <= ApplyHead(s, k, lo)[i].filled
           /\ SO(x, Tail(s), k, ApplyHead(s, k, lo))
<1>. DEFINE lo2 == ApplyHead(s, k, lo)
<1>. DEFINE u == Head(s)
            t == Tail(s)
<1>1. /\ u = s[1] /\ Len(s) >= 1
      /\ Len(t) = Len(s) - 1 /\ \A n \in 1..Len(t) : t[n] = s[n + 1]
  OBVIOUS
<1>2. \A n \in 1..Len(s) : s[n].id \in OrderIds /\ s[n].filled \in Nat
  BY UpdateFields
<1>3. /\ \A i \in OrderIds : x[i].filled \in Nat
      /\ \A i \in OrderIds : lo[i].filled \in Nat
  BY FilledNat
<1>4. /\ u.filled <= x[u.id].filled
      /\ u.id \in k => lo[u.id].filled <= u.filled
      /\ \A n \in 2..Len(s) : s[n].id = u.id => u.filled <= s[n].filled
  <2>1. 1 \in 1..Len(s)
    BY <1>1
  <2>2. \A n \in 2..Len(s) : 1 \in 1..(n - 1) /\ n \in 1..Len(s)
    OBVIOUS
  <2>. QED BY <1>1, <2>1, <2>2 DEF SO
<1>5. \A i \in k : lo2[i].filled = IF i = u.id THEN u.filled ELSE lo[i].filled
  BY <1>1 DEF ApplyHead
<1>6. FB(x, k, lo2)
  BY <1>3, <1>4, <1>5 DEF FB
<1>7. \A i \in k : lo[i].filled <= lo2[i].filled
  BY <1>2, <1>3, <1>4, <1>5
<1>8. SO(x, t, k, lo2)
  <2>. SUFFICES ASSUME NEW n \in 1..Len(t)
                PROVE  /\ t[n].filled <= x[t[n].id].filled
                       /\ t[n].id \in k => lo2[t[n].id].filled <= t[n].filled
                       /\ \A m \in 1..(n - 1) :
                              t[m].id = t[n].id => t[m].filled <= t[n].filled
    BY DEF SO
  <2>1. n + 1 \in 2..Len(s) /\ t[n] = s[n + 1]
    BY <1>1
  <2>2. /\ s[n + 1].filled <= x[s[n + 1].id].filled
        /\ s[n + 1].id \in k => lo[s[n + 1].id].filled <= s[n + 1].filled
        /\ \A m \in 1..n : s[m].id = s[n + 1].id => s[m].filled <= s[n + 1].filled
    BY <2>1 DEF SO
  <2>3. \A m \in 1..(n - 1) : m + 1 \in 1..n /\ t[m] = s[m + 1]
    BY <1>1
  <2>4. t[n].id \in k => lo2[t[n].id].filled <= t[n].filled
    BY <1>4, <1>5, <2>1, <2>2
  <2>. QED BY <2>1, <2>2, <2>3, <2>4
<1>. QED BY <1>6, <1>7, <1>8

LEMMA SOShrink ==
    ASSUME NEW x, NEW s, NEW k, NEW lo, NEW k2, NEW lo2,
           SO(x, s, k, lo), k2 \subseteq k, \A i \in k2 : lo2[i] = lo[i]
    PROVE  SO(x, s, k2, lo2)
BY DEF SO

(***************************************************************************)
(* A step that touches neither the exchange's orders, the stream nor the  *)
(* maps, and does not end the subscription, keeps FillsOrdered.           *)
(***************************************************************************)
LEMMA FillsFrame ==
    ASSUME TypeOK, FillsOrdered,
           UNCHANGED <<xord, updates, known, lord, dbKnown, dbOrd>>,
           Subscribed => Subscribed'
    PROVE  FillsGoal
<1>1. ~Subscribed' => updates' = <<>>
  BY FillsUnfold
<1>2. Mono(lord', known')
  BY MonoRefl
<1>. QED BY <1>1, <1>2, FillsUnfold DEF FillsGoal, MonoStep
(***************************************************************************)
(* EmptiedStep for a step that leaves the exchange as it is.               *)
(***************************************************************************)
LEMMA ReturnStep ==
    ASSUME updates' = <<>>, xord' = xord,
           FB(xord, known', lord'), FB(xord, dbKnown', dbOrd'),
           Mono(lord', known')
    PROVE  FillsGoal
<1>1. FB(xord', known', lord') /\ FB(xord', dbKnown', dbOrd')
  BY DEF FB
<1>. QED BY <1>1, EmptiedStep

\* Outside Run there is no stream.
LEMMA IdleNoStream ==
    ASSUME FillsOrdered, pc \in {"idle", "done", "fetched"}
    PROVE  updates = <<>>
BY FillsUnfold DEF Subscribed

\* Save of the orderMap as it is.
LEMMA SaveLordFills ==
    ASSUME TypeOK, FillsOrdered, SaveState(known, lord) \/ SaveFails(lord)
    PROVE  /\ known' \subseteq known
           /\ \A i \in known' : lord'[i] = lord[i]
           /\ FB(xord, known', lord') /\ FB(xord, dbKnown', dbOrd')
           /\ Mono(lord', known')
<1>1. FB(xord, known, lord) /\ Mono(lord, known) /\ lord \in [OrderIds -> LOrder]
  BY FillsUnfold, MonoRefl DEF TypeOK
<1>. QED BY <1>1, SaveFills

\* A failed fetchOrderMap refreshes part of the orderMap.
LEMMA RunFetchFails_Fills ==
    ASSUME IInv, FillsOrdered, RunFetchFails
    PROVE  FillsGoal
<1>1. PICK S \in SUBSET LocalLive : lord' = Fetched(S)
  BY DEF RunFetchFails, FetchOrderMapFails
<1>2. S \subseteq known
  BY DEF LocalLive
<1>3. FB(xord, known, lord') /\ Mono(lord', known)
  BY <1>1, <1>2, FetchFills DEF IInv
<1>4. UNCHANGED <<xord, updates, known, dbKnown, dbOrd>> /\ pc = "idle"
  BY DEF RunFetchFails, exchangeVars, dbVars
<1>5. updates' = <<>>
  BY <1>4, IdleNoStream
<1>6. FB(xord, known', lord') /\ FB(xord, dbKnown', dbOrd') /\ Mono(lord', known')
  BY <1>3, <1>4, FillsUnfold DEF FB, Mono
<1>. QED BY <1>4, <1>5, <1>6, ReturnStep

\* RunComplete saves what it fetched and returns.
LEMMA RunComplete_Fills ==
    ASSUME IInv, FillsOrdered, RunComplete
    PROVE  FillsGoal
<1>. DEFINE lo == Fetched(LocalLive)
<1>1. lo \in [OrderIds -> LOrder] /\ FB(xord, known, lo) /\ Mono(lo, known)
  BY FetchFills DEF IInv, LocalLive
<1>2. FB(xord, known', lord') /\ FB(xord, dbKnown', dbOrd') /\ Mono(lord', known')
  <2>1. CASE LocalLive # {}
    <3>1. SaveState(known, lo) \/ SaveFails(lo)
      BY <2>1 DEF RunComplete
    <3>. QED BY <1>1, <3>1, SaveFills DEF IInv
  <2>2. CASE LocalLive = {}
    <3>1. UNCHANGED <<known, lord, dbKnown, dbOrd>>
      BY <2>2 DEF RunComplete, dbVars
    <3>. QED BY <3>1, FillsUnfold, MonoRefl DEF IInv, FB, Mono
  <2>. QED BY <2>1, <2>2
<1>3. updates' = <<>> /\ xord' = xord
  BY DEF RunComplete, ReturnFromRun
<1>. QED BY <1>2, <1>3, ReturnStep

\* RunStart stores the fetched orderMap; the stream is not open yet.
LEMMA RunStart_Fills ==
    ASSUME IInv, FillsOrdered, RunStart
    PROVE  FillsGoal
<1>1. lord' = Fetched(LocalLive)
  BY DEF RunStart
<1>2. FB(xord, known, lord') /\ Mono(lord', known)
  BY <1>1, FetchFills DEF IInv, LocalLive
<1>3. UNCHANGED <<xord, updates, known, dbKnown, dbOrd>> /\ pc = "idle"
  BY DEF RunStart, exchangeVars, dbVars
<1>4. updates' = <<>>
  BY <1>3, IdleNoStream
<1>5. FB(xord, known', lord') /\ FB(xord, dbKnown', dbOrd') /\ Mono(lord', known')
  BY <1>2, <1>3, FillsUnfold DEF FB, Mono
<1>. QED BY <1>3, <1>4, <1>5, ReturnStep

\* Subscribe opens a fresh stream.
LEMMA Subscribe_Fills ==
    ASSUME IInv, FillsOrdered, Subscribe
    PROVE  FillsGoal
<1>1. updates' = <<>> /\ UNCHANGED <<xord, known, lord, dbKnown, dbOrd>>
  BY DEF Subscribe, limiterVars, dbVars
<1>2. FB(xord, known', lord') /\ FB(xord, dbKnown', dbOrd') /\ Mono(lord', known')
  BY <1>1, FillsUnfold, MonoRefl DEF IInv, FB, Mono
<1>. QED BY <1>1, <1>2, ReturnStep

\* The ctx case goes on to cancel, or saves and returns.
LEMMA CtxDone_Fills ==
    ASSUME IInv, FillsOrdered, CtxDone
    PROVE  FillsGoal
<1>1. CASE active # NoOrder
  <2>1. UNCHANGED <<xord, updates, known, lord, dbKnown, dbOrd>> /\ pc' = "cancel"
    BY <1>1 DEF CtxDone, limiterVars, dbVars
  <2>. QED BY <2>1, FillsFrame DEF IInv, Subscribed
<1>2. CASE active = NoOrder
  <2>1. SaveState(known, lord) \/ SaveFails(lord)
    BY <1>2 DEF CtxDone
  <2>2. FB(xord, known', lord') /\ FB(xord, dbKnown', dbOrd') /\ Mono(lord', known')
    BY <2>1, SaveLordFills DEF IInv
  <2>3. updates' = <<>> /\ xord' = xord
    BY <1>2 DEF CtxDone, ReturnFromRun
  <2>. QED BY <2>2, <2>3, ReturnStep
<1>. QED BY <1>1, <1>2

\* Flush saves while the stream stays open; the queued updates compare
\* with what is left of the map.
LEMMA Flush_Fills ==
    ASSUME IInv, FillsOrdered, Flush
    PROVE  FillsGoal
<1>1. SaveState(known, lord) \/ SaveFails(lord)
  BY DEF Flush
<1>2. /\ known' \subseteq known /\ \A i \in known' : lord'[i] = lord[i]
      /\ FB(xord, known', lord') /\ FB(xord, dbKnown', dbOrd')
      /\ Mono(lord', known')
  BY <1>1, SaveLordFills DEF IInv
<1>3. UNCHANGED <<xord, updates, pc>>
  BY DEF Flush, exchangeVars
<1>4. SO(xord, updates, known', lord')
  BY <1>2, FillsUnfold, SOShrink
<1>. QED BY <1>2, <1>3, <1>4, FillsUnfold DEF FillsGoal, MonoStep, Subscribed, FB
\* updateOrderMap applies the head of the stream and drops it.
LEMMA OrderUpdate_Fills ==
    ASSUME IInv, FillsOrdered, OrderUpdate
    PROVE  FillsGoal
<1>1. /\ xord \in [OrderIds -> XOrder] /\ updates \in Seq(Update)
      /\ known \subseteq OrderIds /\ lord \in [OrderIds -> LOrder]
  BY DEF IInv, TypeOK
<1>2. /\ updates # <<>> /\ updates' = Tail(updates)
      /\ lord' = ApplyHead(updates, known, lord)
      /\ UNCHANGED <<xord, known, dbKnown, dbOrd, pc>>
  BY DEF OrderUpdate, InLoop, dbVars, ApplyHead
<1>3. SO(xord, updates, known, lord) /\ FB(xord, known, lord)
      /\ FB(xord, dbKnown, dbOrd)
  BY FillsUnfold
<1>4. /\ FB(xord, known, lord')
      /\ \A i \in known : lord[i].filled <= lord'[i].filled
      /\ SO(xord, Tail(updates), known, lord')
  <2>1. /\ FB(xord, known, ApplyHead(updates, known, lord))
        /\ \A i \in known :
               lord[i].filled <= ApplyHead(updates, known, lord)[i].filled
        /\ SO(xord, Tail(updates), known, ApplyHead(updates, known, lord))
    BY <1>1, <1>2, <1>3, SOHead
  <2>. QED BY <1>2, <2>1
<1>5. Subscribed'
  BY <1>2 DEF OrderUpdate, InLoop, Subscribed
<1>. QED BY <1>2, <1>3, <1>4, <1>5, FillsUnfold DEF FillsGoal, MonoStep, Mono, FB

\* A ticker only moves Run from its loop to a cancel or a create.
LEMMA Ticker_Fills ==
    ASSUME IInv, FillsOrdered, NEW t \in TickerPrices, Ticker(t)
    PROVE  FillsGoal
<1>1. UNCHANGED <<xord, updates, known, lord, dbKnown, dbOrd>>
  BY DEF Ticker, exchangeVars, limiterVars, dbVars
<1>2. pc' \in {"cancel", "create"}
  BY DEF Ticker
<1>. QED BY <1>1, <1>2, FillsFrame DEF IInv, Subscribed

\* Cancel marks the order done on the exchange, keeping its fill.
LEMMA CancelFillsSame ==
    ASSUME IInv, CancelOk
    PROVE  /\ active \in OrderIds
           /\ xord' \in [OrderIds -> XOrder]
           /\ \A i \in OrderIds : xord'[i].filled = xord[i].filled
<1>1. active \in OrderIds
  BY DEF IInv, ActiveTracksLive, TypeOK, OrderIds, NoOrder, CancelOk
<1>2. xord' = [xord EXCEPT ![active] = [xord[active] EXCEPT !.done = TRUE]]
  BY DEF CancelOk
<1>3. xord[active] \in XOrder
  BY <1>1 DEF IInv, TypeOK
<1>4. [xord[active] EXCEPT !.done = TRUE] \in XOrder
  BY <1>3, Zenon DEF XOrder
<1>5. xord' \in [OrderIds -> XOrder]
  BY <1>1, <1>2, <1>4 DEF IInv, TypeOK
<1>. QED BY <1>1, <1>2, <1>5 DEF IInv, TypeOK

\* A successful cancel: the ctx case saves and returns; the others queue
\* the order's done update, which carries the exchange's fill.
LEMMA CancelOk_Fills ==
    ASSUME IInv, FillsOrdered, CancelOk
    PROVE  FillsGoal
<1>1. /\ active \in OrderIds
      /\ xord' \in [OrderIds -> XOrder]
      /\ \A i \in OrderIds : xord'[i].filled = xord[i].filled
  BY CancelFillsSame
<1>2. /\ xord \in [OrderIds -> XOrder] /\ updates \in Seq(Update)
      /\ known \subseteq OrderIds /\ dbKnown \subseteq OrderIds
      /\ lord \in [OrderIds -> LOrder]
  BY DEF IInv, TypeOK
<1>3. CASE why = "ctx"
  <2>1. SaveState(known, lord) \/ SaveFails(lord)
    BY <1>3 DEF CancelOk
  <2>2. /\ known' \subseteq known
        /\ FB(xord, known', lord') /\ FB(xord, dbKnown', dbOrd')
        /\ Mono(lord', known')
    BY <2>1, SaveLordFills DEF IInv
  <2>3. dbKnown' \subseteq OrderIds
    BY <2>1, <1>2 DEF SaveState, CompactMap, CompactOf, SaveFails, dbVars
  <2>4. FB(xord', known', lord') /\ FB(xord', dbKnown', dbOrd')
    BY <1>1, <1>2, <2>2, <2>3, FBSame
  <2>5. updates' = <<>>
    BY <1>3 DEF CancelOk, ReturnFromRun
  <2>. QED BY <2>2, <2>4, <2>5, EmptiedStep
<1>4. CASE why # "ctx"
  <2>. DEFINE u == [id |-> active, filled |-> xord[active].filled, done |-> TRUE]
  <2>1. /\ updates' = IF xord[active].done THEN updates ELSE Append(updates, u)
        /\ UNCHANGED <<known, lord, dbKnown, dbOrd>>
        /\ pc' \in {"create", "loop"}
    BY <1>4 DEF CancelOk, dbVars
  <2>2. SO(xord, updates, known, lord) /\ FB(xord, known, lord)
        /\ FB(xord, dbKnown, dbOrd)
    BY FillsUnfold
  <2>3. \A i \in OrderIds : xord[i].filled <= xord'[i].filled
    BY <1>1, <1>2, FilledNat
  <2>4. SO(xord', updates', known, lord)
    <3>1. CASE xord[active].done
      BY <1>1, <1>2, <2>1, <2>2, <2>3, <3>1, SOGrow
    <3>2. CASE ~xord[active].done
      <4>1. u \in Update
        <5>1. xord[active].filled \in 0..MaxSize
          BY <1>1, <1>2, Zenon DEF XOrder
        <5>. QED BY <1>1, <5>1 DEF Update
      <4>2. u.filled = xord'[u.id].filled
        BY <1>1
      <4>. QED BY <1>1, <1>2, <2>1, <2>2, <2>3, <3>2, <4>1, <4>2, SOAppend
    <3>. QED BY <3>1, <3>2
  <2>5. FB(xord', known, lord) /\ FB(xord', dbKnown, dbOrd)
    BY <1>1, <1>2, <2>2, FBSame
  <2>6. Mono(lord', known')
    BY <2>1, MonoRefl DEF IInv, Mono
  <2>. QED BY <2>1, <2>4, <2>5, <2>6, FillsUnfold DEF FillsGoal, MonoStep, Subscribed
<1>. QED BY <1>3, <1>4

\* A failed cancel returns and changes nothing else.
LEMMA CancelFails_Fills ==
    ASSUME IInv, FillsOrdered, CancelFails
    PROVE  FillsGoal
<1>1. updates' = <<>> /\ UNCHANGED <<xord, known, lord, dbKnown, dbOrd>>
  BY DEF CancelFails, ReturnFromRun, limiterVars, dbVars
<1>2. FB(xord, known', lord') /\ FB(xord, dbKnown', dbOrd') /\ Mono(lord', known')
  BY <1>1, FillsUnfold, MonoRefl DEF IInv, FB, Mono
<1>. QED BY <1>1, <1>2, ReturnStep
(***************************************************************************)
(* create() stores the order with client id offset, which is order        *)
(* offset + 1: not yet in the map, so no recorded fill is overwritten, and *)
(* its entry starts at fill 0.  The orders the maps and the stream name   *)
(* are below it and keep their fills.                                      *)
(***************************************************************************)
LEMMA CreateOk_Fills ==
    ASSUME IInv, FillsOrdered, CreateOk
    PROVE  FillsGoal
<1>. DEFINE id == offset + 1
<1>1. /\ PlacedId(offset) = id /\ id <= xn'
      /\ \A i \in 1..xn : xord'[i] = xord[i]
  BY PlaceSafe DEF CreateOk
<1>2. /\ xord \in [OrderIds -> XOrder] /\ lord \in [OrderIds -> LOrder]
      /\ updates \in Seq(Update) /\ offset \in 0..MaxOrders
      /\ offset <= xn /\ xn \in 0..MaxOrders
      /\ known \subseteq 1..offset /\ dbKnown \subseteq 1..xn
      /\ \A n \in 1..Len(updates) : updates[n].id \in 1..xn
  BY DEF IInv, TypeOK, KnownSound, OffsetOrder, UpdatesSound, OrderIds
<1>3. xord' \in [OrderIds -> XOrder] /\ id \in OrderIds /\ xn' \in 0..MaxOrders
  BY <1>1, <1>2, PlacedIdType DEF CreateOk, IInv, OrderIds
<1>4. /\ known' = known \cup {id}
      /\ lord' = [lord EXCEPT ![id] = [filled |-> 0, done |-> FALSE]]
      /\ UNCHANGED <<updates, dbKnown, dbOrd>> /\ pc' = "loop"
  BY <1>1 DEF CreateOk, dbVars
<1>5. id \notin known /\ \A i \in known : lord'[i] = lord[i]
  BY <1>2, <1>4
<1>6. /\ \A n \in 1..Len(updates) : updates[n].filled \in Nat
      /\ \A i \in OrderIds : xord'[i].filled \in Nat
  BY <1>2, <1>3, UpdateFields, FilledNat
<1>7. SO(xord, updates, known, lord) /\ FB(xord, known, lord)
      /\ FB(xord, dbKnown, dbOrd)
  BY FillsUnfold
<1>8. FB(xord', known', lord')
  <2>1. lord'[id].filled = 0
    BY <1>2, <1>3, <1>4
  <2>2. \A i \in known : i \in 1..xn
    <3>1. known \subseteq 1..offset /\ offset <= xn /\ xn \in Int
          /\ offset \in Int
      BY <1>2
    <3>. QED BY <3>1
  <2>3. \A i \in known : lord'[i].filled <= xord'[i].filled
    BY <1>1, <1>5, <1>7, <2>2 DEF FB
  <2>4. lord'[id].filled <= xord'[id].filled
    BY <1>3, <1>6, <2>1
  <2>. QED BY <1>4, <2>3, <2>4 DEF FB
<1>9. FB(xord', dbKnown', dbOrd')
  BY <1>1, <1>2, <1>4, <1>7 DEF FB
<1>10. SO(xord', updates', known', lord')
  <2>. SUFFICES ASSUME NEW n \in 1..Len(updates)
                PROVE  /\ updates[n].filled <= xord'[updates[n].id].filled
                       /\ updates[n].id \in known' =>
                            lord'[updates[n].id].filled <= updates[n].filled
                       /\ \A m \in 1..(n - 1) :
                            updates[m].id = updates[n].id =>
                              updates[m].filled <= updates[n].filled
    BY <1>4 DEF SO
  <2>1. lord'[id].filled = 0
    BY <1>2, <1>3, <1>4
  <2>. QED BY <1>1, <1>2, <1>4, <1>5, <1>6, <1>7, <2>1 DEF SO
<1>11. Mono(lord', known')
  BY <1>4, <1>5, MonoRefl DEF IInv, Mono
<1>. QED BY <1>4, <1>8, <1>9, <1>10, <1>11, FillsUnfold
     DEF FillsGoal, MonoStep, Subscribed

\* A failed create() returns; an order it placed lies above every order
\* the maps name.
LEMMA CreateFails_Fills ==
    ASSUME IInv, FillsOrdered, CreateFails
    PROVE  FillsGoal
<1>1. /\ updates' = <<>>
      /\ UNCHANGED <<known, lord, dbKnown, dbOrd>>
  BY DEF CreateFails, ReturnFromRun, limiterVars, dbVars
<1>2. \A i \in 1..xn : xord'[i] = xord[i]
  <2>1. CASE offset < MaxOrders /\ ExchangePlace(offset)
    BY <2>1, PlaceSafe DEF CreateFails
  <2>. QED BY <2>1 DEF CreateFails
<1>3. known \subseteq 1..xn /\ dbKnown \subseteq 1..xn
  BY DEF IInv, TypeOK, KnownSound, OffsetOrder, OrderIds
<1>4. FB(xord, known, lord) /\ FB(xord, dbKnown, dbOrd)
  BY FillsUnfold
<1>5. FB(xord', known', lord') /\ FB(xord', dbKnown', dbOrd')
  BY <1>1, <1>2, <1>3, <1>4 DEF FB
<1>6. Mono(lord', known')
  BY <1>1, MonoRefl DEF IInv, Mono
<1>. QED BY <1>1, <1>5, <1>6, EmptiedStep

\* The loop's end: fetch, then save, and return either way.
LEMMA Finish_Fills ==
    ASSUME IInv, FillsOrdered, Finish
    PROVE  FillsGoal
<1>. DEFINE lo == Fetched(LocalLive)
<1>1. updates' = <<>> /\ xord' = xord
  BY DEF Finish, ReturnFromRun
<1>2. CASE FetchOrderMapFails /\ UNCHANGED <<known, dbVars>>
  <2>1. PICK S \in SUBSET LocalLive : lord' = Fetched(S)
    BY <1>2 DEF FetchOrderMapFails
  <2>2. FB(xord, known, lord') /\ Mono(lord', known)
    BY <2>1, FetchFills DEF IInv, LocalLive
  <2>3. FB(xord, known', lord') /\ FB(xord, dbKnown', dbOrd') /\ Mono(lord', known')
    BY <1>2, <2>2, FillsUnfold DEF dbVars, FB, Mono
  <2>. QED BY <1>1, <2>3, ReturnStep
<1>3. CASE SaveState(known, lo) \/ SaveFails(lo)
  <2>1. lo \in [OrderIds -> LOrder] /\ FB(xord, known, lo) /\ Mono(lo, known)
    BY FetchFills DEF IInv, LocalLive
  <2>2. FB(xord, known', lord') /\ FB(xord, dbKnown', dbOrd') /\ Mono(lord', known')
    BY <1>3, <2>1, SaveFills DEF IInv
  <2>. QED BY <1>1, <2>2, ReturnStep
<1>. QED BY <1>2, <1>3 DEF Finish

\* A restart reloads the stored map, which is below the exchange; it is
\* not a step LocalFillMonotone speaks of.
LEMMA Crash_Fills ==
    ASSUME IInv, FillsOrdered, Crash
    PROVE  FillsGoal
<1>1. /\ updates' = <<>> /\ xord' = xord
      /\ known' = dbKnown /\ lord' = dbOrd /\ UNCHANGED <<dbKnown, dbOrd>>
  BY DEF Crash, ReturnFromRun, dbVars
<1>2. FB(xord', known', lord') /\ FB(xord', dbKnown', dbOrd')
  BY <1>1, FillsUnfold
<1>3. SO(xord', updates', known', lord')
  BY <1>1 DEF SO
<1>4. crashes' # crashes
  BY DEF Crash, IInv, TypeOK
<1>. QED BY <1>1, <1>2, <1>3, <1>4, FillsUnfold DEF FillsGoal, MonoStep

\* A fill raises the exchange's filled size and, while Run is subscribed,
\* queues an update carrying it.
LEMMA Fill_Fills ==
    ASSUME IInv, FillsOrdered, NEW i \in OrderIds, NEW k \in 1..MaxSize,
           Fill(i, k)
    PROVE  FillsGoal
<1>. DEFINE xo == [xord[i] EXCEPT !.filled = @ + k,
                                  !.done = (xord[i].filled + k = xord[i].size)]
            v == [id |-> i, filled |-> xo.filled, done |-> xo.done]
<1>1. /\ xord \in [OrderIds -> XOrder] /\ updates \in Seq(Update)
      /\ known \subseteq OrderIds /\ dbKnown \subseteq OrderIds
      /\ lord \in [OrderIds -> LOrder] /\ dbOrd \in [OrderIds -> LOrder]
  BY DEF IInv, TypeOK
<1>2. xord' \in [OrderIds -> XOrder]
  BY IInvTypeInv, FillType DEF DataStepOK, DataOK
<1>3. /\ xord' = [xord EXCEPT ![i] = xo]
      /\ updates' = IF Subscribed THEN Append(updates, v) ELSE updates
      /\ UNCHANGED <<known, lord, dbKnown, dbOrd, pc>>
  BY DEF Fill, limiterVars, runVars, dbVars
<1>4. xord'[i] = xo /\ \A j \in OrderIds \ {i} : xord'[j] = xord[j]
  BY <1>1, <1>3
<1>5. /\ \A j \in OrderIds : xord[j].filled \in Nat /\ xord'[j].filled \in Nat
      /\ \A j \in OrderIds : lord[j].filled \in Nat /\ dbOrd[j].filled \in Nat
  BY <1>1, <1>2, FilledNat
<1>6. xo.filled = xord[i].filled + k
  BY <1>1
<1>7. \A j \in OrderIds : xord[j].filled <= xord'[j].filled
  <2>1. k \in Nat
    BY SizeBounds
  <2>2. xord[i].filled <= xord'[i].filled
    BY <1>4, <1>5, <1>6, <2>1
  <2>3. \A j \in OrderIds \ {i} : xord[j].filled <= xord'[j].filled
    BY <1>4, <1>5
  <2>. QED BY <2>2, <2>3
<1>8. SO(xord, updates, known, lord) /\ FB(xord, known, lord)
      /\ FB(xord, dbKnown, dbOrd)
  BY FillsUnfold
<1>9. FB(xord', known', lord') /\ FB(xord', dbKnown', dbOrd')
  <2>2. FB(xord', known', lord')
    <3>. SUFFICES ASSUME NEW j \in known PROVE lord[j].filled <= xord'[j].filled
      BY <1>3 DEF FB
    <3>1. lord[j].filled <= xord[j].filled
      BY <1>8 DEF FB
    <3>. QED BY <1>1, <1>5, <1>7, <3>1
  <2>3. FB(xord', dbKnown', dbOrd')
    <3>. SUFFICES ASSUME NEW j \in dbKnown PROVE dbOrd[j].filled <= xord'[j].filled
      BY <1>3 DEF FB
    <3>1. dbOrd[j].filled <= xord[j].filled
      BY <1>8 DEF FB
    <3>. QED BY <1>1, <1>5, <1>7, <3>1
  <2>. QED BY <2>2, <2>3
<1>10. SO(xord', updates', known', lord')
  <2>1. CASE Subscribed
    <3>1. v \in Update
      <4>1. xo \in XOrder
        BY <1>2, <1>4
      <4>2. xo.filled \in 0..MaxSize /\ xo.done \in BOOLEAN
        BY <4>1, Zenon DEF XOrder
      <4>. QED BY <4>2 DEF Update
    <3>2. v.filled = xord'[v.id].filled
      BY <1>4
    <3>3. SO(xord', Append(updates, v), known, lord)
      BY <1>1, <1>2, <1>7, <1>8, <3>1, <3>2, SOAppend
    <3>4. updates' = Append(updates, v) /\ known' = known /\ lord' = lord
      BY <1>3, <2>1
    <3>. QED BY <3>3, <3>4
  <2>2. CASE ~Subscribed
    BY <1>1, <1>2, <1>3, <1>7, <1>8, <2>2, SOGrow
  <2>. QED BY <2>1, <2>2
<1>11. ~Subscribed' => updates' = <<>>
  BY <1>3, FillsUnfold DEF Subscribed
<1>12. Mono(lord', known')
  BY <1>3, MonoRefl DEF IInv, Mono
<1>. QED BY <1>9, <1>10, <1>11, <1>12, FillsUnfold DEF FillsGoal, MonoStep

\* The control plane changes only the options and the context.
LEMMA Control_Fills ==
    ASSUME IInv, FillsOrdered,
           \/ Pause \/ Resume
           \/ \E b \in BOOLEAN : SetHold(b)
           \/ \E l \in SizeLimits : SetSizeLimit(l)
    PROVE  FillsGoal
<1>1. UNCHANGED <<xord, updates, known, lord, dbKnown, dbOrd, pc>>
  BY DEF Pause, Resume, SetHold, SetSizeLimit, exchangeVars, limiterVars,
     runVars, dbVars
<1>. QED BY <1>1, FillsFrame DEF IInv, Subscribed
\* Every step keeps FillsOrdered and lowers no fill outside a restart.
LEMMA FillStep ==
    ASSUME IInv, FillsOrdered, [Next]_vars
    PROVE  FillsGoal
<1>1. CASE UNCHANGED vars
  <2>1. UNCHANGED <<xord, updates, known, lord, dbKnown, dbOrd, pc>>
    BY <1>1 DEF vars, exchangeVars, limiterVars, runVars, dbVars
  <2>. QED BY <2>1, FillsFrame DEF IInv, Subscribed
<1>. QED
  BY <1>1, RunFetchFails_Fills, RunComplete_Fills, RunStart_Fills,
     Subscribe_Fills, CtxDone_Fills, Flush_Fills, OrderUpdate_Fills,
     Ticker_Fills, CancelOk_Fills, CancelFails_Fills, CreateOk_Fills,
     CreateFails_Fills, Finish_Fills, Crash_Fills, Fill_Fills, Control_Fills
  DEF Next, Limiter, Environment

\* The step of InductiveInvariant, as a lemma.
LEMMA IInvStep ==
    ASSUME IInv, [Next]_vars
    PROVE  IInv'
<1>1. TypeInv'
  BY IInvTypeInv, TypeStep
<1>2. SafeInv'
  BY SafeStep
<1>. QED BY <1>1, <1>2 DEF IInv, SafeInv, StoreInv, MapSound, TypeInv

\* The first step of InductiveInvariant, as a lemma.
LEMMA InitIInv ==
    ASSUME Init
    PROVE  IInv
<1>1. TypeOK
  BY InitType DEF TypeInv
<1>2. xn = 0 /\ known = {} /\ dbKnown = {} /\ offset = 0 /\ dbOffset = 0
      /\ updates = << >> /\ active = NoOrder /\ pc = "idle"
  BY DEF Init
<1>3. SafeInv
  BY <1>2 DEF SafeInv, StoreInv, CidIsIndex, OffsetOrder, MapSound,
     KnownSound, LiveTracked, ExchangeAtMostOneLive, UpdatesSound,
     ActiveSound, ActiveTracksLive
<1>. QED BY <1>1, <1>3, IInvSplit

(***************************************************************************)
(* FillsOrdered holds, with IInv, in every reachable state, for every      *)
(* value of the constants: both orderMaps and every queued update stay at *)
(* or below the exchange's fills, and the updates of an order are queued  *)
(* in increasing fill.                                                     *)
(***************************************************************************)
THEOREM FillsInvariant == Spec => [](IInv /\ FillsOrdered)
<1>1. Init => FInv
  <2>. SUFFICES ASSUME Init PROVE FInv
    OBVIOUS
  <2>1. IInv
    BY InitIInv
  <2>2. updates = <<>> /\ known = {} /\ dbKnown = {}
    BY DEF Init
  <2>3. FillsOrdered
    BY <2>2, FillsUnfold DEF FB, SO
  <2>. QED BY <2>1, <2>3 DEF FInv
<1>2. FInv /\ [Next]_vars => FInv'
  BY IInvStep, FillStep DEF FInv, FillsGoal
<1>. QED BY <1>1, <1>2, PTL DEF Spec, FInv

(***************************************************************************)
(* LocalFillMonotone for every value of the constants: apart from a        *)
(* restart, no step lowers the filled size the limiter records for an     *)
(* order it keeps.  Order updates are applied in stream order, a Get's    *)
(* answer is never older than the updates still queued, compaction and    *)
(* save copy entries as they are, and create() never reuses an entry.     *)
(***************************************************************************)
THEOREM LocalFillsNeverDrop == Spec => LocalFillMonotone
<1>1. FInv /\ [Next]_vars =>
        [crashes' = crashes =>
           \A i \in known \cap known' : lord'[i].filled >= lord[i].filled]_vars
  <2>. SUFFICES ASSUME FInv, [Next]_vars
                PROVE  crashes' = crashes =>
                         \A i \in known \cap known' :
                           lord'[i].filled >= lord[i].filled
    OBVIOUS
  <2>1. MonoStep
    BY FillStep DEF FInv, FillsGoal
  <2>2. IInv'
    BY IInvStep DEF FInv
  <2>3. /\ known \subseteq OrderIds /\ lord \in [OrderIds -> LOrder]
        /\ lord' \in [OrderIds -> LOrder]
    BY <2>2 DEF FInv, IInv, TypeOK
  <2>4. \A i \in known : lord[i].filled \in Nat /\ lord'[i].filled \in Nat
    BY <2>3, FilledNat
  <2>. QED BY <2>1, <2>4 DEF MonoStep, Mono
<1>. QED BY <1>1, FillsInvariant, PTL DEF Spec, LocalFillMonotone, FInv
=============================================================================
