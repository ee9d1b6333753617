--------------------------- MODULE LimiterProofs ---------------------------
(***************************************************************************)
(* Proofs about Limiter for every value of its constants.                  *)
(***************************************************************************)
EXTENDS Limiter, TLAPS

USE SizeAssumption, MinSizeAssumption, PointAssumption, SizeLimitsAssumption,
    TickerAssumption, BoundsAssumption

(***************************************************************************)
(* TypeOK alone is not inductive: CancelOk pushes an update for the active *)
(* order, which is a real order id only because every case that issues a  *)
(* cancel checks activeOrderID != "".                                      *)
(***************************************************************************)
TypeInv ==
    /\ TypeOK
    /\ pc = "cancel" => active \in OrderIds

\* The sizes the model uses are within 0..MaxSize.
LEMMA SizeBounds ==
    /\ MaxSize \in Nat /\ Size <= MaxSize /\ BaseMinSize <= MaxSize
    /\ OrderSizes \subseteq 0..MaxSize
    /\ SizeLimits \subseteq 0..MaxSize
BY DEF MaxSize, OrderSizes

\* Every order view the limiter can store (Get's answer, an old entry, the
\* placeholder of a forgotten id) is an LOrder.
LEMMA FetchedType ==
    ASSUME TypeOK, NEW S
    PROVE  Fetched(S) \in [OrderIds -> LOrder]
BY DEF Fetched, Snapshot, TypeOK, XOrder, LOrder

\* Save keeps the orderMap and its stored copy within the types.
LEMMA SaveStateType ==
    ASSUME TypeOK, NEW k, NEW lo, k \subseteq OrderIds,
           lo \in [OrderIds -> LOrder], SaveState(k, lo)
    PROVE  /\ known' \subseteq OrderIds /\ lord' \in [OrderIds -> LOrder]
           /\ dbKnown' \subseteq OrderIds /\ dbOrd' \in [OrderIds -> LOrder]
           /\ dbOffset' \in 0..MaxOrders /\ faults' \in 0..MaxErrors
<1>1. known' \subseteq OrderIds /\ dbKnown' \subseteq OrderIds
  BY DEF SaveState, CompactMap, CompactOf
<1>2. lord' \in [OrderIds -> LOrder] /\ dbOrd' \in [OrderIds -> LOrder]
  BY SizeBounds DEF SaveState, CompactMap, CompactOf, ForgetOutside, NoLOrder, LOrder
<1>3. dbOffset' \in 0..MaxOrders /\ faults' \in 0..MaxErrors
  BY DEF SaveState, TypeOK
<1>. QED BY <1>1, <1>2, <1>3

\* Either outcome of Save keeps the orderMap, the store and the fault count
\* within their types.
SavedOK ==
    /\ known' \subseteq OrderIds /\ lord' \in [OrderIds -> LOrder]
    /\ dbKnown' \subseteq OrderIds /\ dbOrd' \in [OrderIds -> LOrder]
    /\ dbOffset' \in 0..MaxOrders /\ faults' \in 0..MaxErrors

LEMMA SaveType ==
    ASSUME TypeOK, NEW lo \in [OrderIds -> LOrder],
           SaveState(known, lo) \/ SaveFails(lo)
    PROVE  SavedOK
<1>1. CASE SaveState(known, lo)
  BY <1>1, SaveStateType DEF TypeOK, SavedOK
<1>2. CASE SaveFails(lo)
  <2>1. faults' \in 0..MaxErrors
    BY <1>2 DEF SaveFails, TypeOK
  <2>2. known' \subseteq OrderIds /\ lord' \in [OrderIds -> LOrder]
    <3>1. CASE lord' = lo /\ UNCHANGED known
      BY <3>1 DEF TypeOK
    <3>2. CASE CompactMap(known, lo)
      BY <3>2, SizeBounds DEF CompactMap, CompactOf, ForgetOutside, NoLOrder,
         LOrder, TypeOK
    <3>. QED BY <1>2, <3>1, <3>2 DEF SaveFails
  <2>. QED BY <1>2, <2>1, <2>2 DEF SaveFails, dbVars, TypeOK, SavedOK
<1>. QED BY <1>1, <1>2

\* The order create() stores is one of the exchange's orders.
LEMMA PlacedIdType ==
    ASSUME TypeOK, NEW c \in 0..MaxOrders, ExchangePlace(c)
    PROVE  /\ PlacedId(c) \in 1..xn'
           /\ xn' \in 0..MaxOrders
           /\ xord' \in [OrderIds -> XOrder]
<1>1. CASE HasCid(c) /\ UNCHANGED <<xn, xord>>
  BY <1>1 DEF PlacedId, HasCid, TypeOK
<1>2. CASE ~HasCid(c) /\ xn < MaxOrders /\ CreateSize \in OrderSizes
           /\ xn' = xn + 1
           /\ xord' = [xord EXCEPT ![xn + 1] = [cid |-> c, size |-> CreateSize,
                                                filled |-> 0, done |-> FALSE]]
  <2>1. xord'[xn + 1].cid = c
    BY <1>2 DEF TypeOK, OrderIds
  <2>2. xord' \in [OrderIds -> XOrder]
    BY <1>2, SizeBounds DEF TypeOK, XOrder, OrderIds
  <2>. QED BY <1>2, <2>1, <2>2 DEF PlacedId, TypeOK
<1>. QED BY <1>1, <1>2 DEF ExchangePlace

\* The locals Run resets when it returns keep their types.
LEMMA ReturnType ==
    ASSUME NEW to, to \in {"idle", "done"}, ReturnFromRun(to)
    PROVE  /\ pc' \in PcValues /\ updates' \in Seq(Update)
           /\ active' \in 0..MaxOrders /\ dirty' \in BOOLEAN
           /\ lastSizeLimit' \in SizeLimits /\ newLimit' \in SizeLimits
           /\ tk' \in Int /\ why' \in Reasons
           /\ pc' # "cancel"
<1>1. Size \in SizeLimits
  BY SizeLimitsAssumption
<1>2. updates' \in Seq(Update)
  BY DEF ReturnFromRun
<1>3. pc' \in PcValues /\ pc' # "cancel"
  BY DEF ReturnFromRun, PcValues
<1>4. active' \in 0..MaxOrders /\ dirty' \in BOOLEAN
  <2>1. active' = 0
    BY DEF ReturnFromRun, ClearLocals, NoOrder
  <2>2. dirty' = FALSE
    BY DEF ReturnFromRun, ClearLocals
  <2>3. active' \in 0..MaxOrders
    BY <2>1
  <2>4. dirty' \in BOOLEAN
    BY <2>2
  <2>. QED BY <2>3, <2>4
<1>5. lastSizeLimit' \in SizeLimits /\ newLimit' \in SizeLimits
  BY <1>1 DEF ReturnFromRun, ClearLocals, ClearCase
<1>6. tk' \in Int /\ why' \in Reasons
  BY DEF ReturnFromRun, ClearLocals, ClearCase, Reasons
<1>. QED BY <1>2, <1>3, <1>4, <1>5, <1>6

(***************************************************************************)
(* TypeOK split into its data part and its Boolean part, which the provers *)
(* handle best separately.                                                 *)
(***************************************************************************)
DataOK ==
    /\ xn \in 0..MaxOrders
    /\ xord \in [OrderIds -> XOrder]
    /\ updates \in Seq(Update)
    /\ known \subseteq OrderIds
    /\ lord \in [OrderIds -> LOrder]
    /\ offset \in 0..MaxOrders
    /\ pc \in PcValues
    /\ active \in 0..MaxOrders
    /\ lastSizeLimit \in SizeLimits
    /\ tk \in Int
    /\ why \in Reasons
    /\ newLimit \in SizeLimits
    /\ sizeLimitOpt \in SizeLimits
    /\ dbKnown \subseteq OrderIds
    /\ dbOrd \in [OrderIds -> LOrder]
    /\ dbOffset \in 0..MaxOrders
    /\ crashes \in 0..MaxCrashes
    /\ faults \in 0..MaxErrors
FlagsOK == dirty \in BOOLEAN /\ hold \in BOOLEAN /\ ctxDone \in BOOLEAN
CancelOK == pc = "cancel" => active \in OrderIds

LEMMA TypeSplit == TypeInv <=> DataOK /\ FlagsOK /\ CancelOK
BY DEF TypeInv, TypeOK, DataOK, FlagsOK, CancelOK

\* Every Limiter step keeps the flags Boolean.
LEMMA FlagsStep ==
    ASSUME FlagsOK, [Next]_vars
    PROVE  FlagsOK'
<1>. USE DEF FlagsOK
<1>1. CASE RunFetchFails
  BY <1>1 DEF RunFetchFails, vars, exchangeVars, limiterVars, runVars, localVars, optVars, dbVars
<1>2. CASE RunComplete
  BY <1>2 DEF RunComplete, ReturnFromRun, ClearLocals, ClearCase, optVars
<1>3. CASE RunStart
  BY <1>3 DEF RunStart, optVars
<1>4. CASE Subscribe
  BY <1>4 DEF Subscribe, optVars
<1>5. CASE CtxDone
  BY <1>5 DEF CtxDone, ReturnFromRun, ClearLocals, ClearCase, optVars
<1>6. CASE Flush
  BY <1>6 DEF Flush, optVars
<1>7. CASE OrderUpdate
  BY <1>7 DEF OrderUpdate, optVars
<1>8. CASE \E t \in TickerPrices : Ticker(t)
  BY <1>8 DEF Ticker, optVars
<1>9. CASE CancelOk
  BY <1>9 DEF CancelOk, ReturnFromRun, ClearLocals, ClearCase, optVars
<1>10. CASE CancelFails
  BY <1>10 DEF CancelFails, ReturnFromRun, ClearLocals, ClearCase, optVars
<1>11. CASE CreateOk
  BY <1>11 DEF CreateOk, optVars
<1>12. CASE CreateFails
  BY <1>12 DEF CreateFails, ReturnFromRun, ClearLocals, ClearCase, optVars
<1>13. CASE Finish
  BY <1>13 DEF Finish, ReturnFromRun, ClearLocals, ClearCase, optVars
<1>14. CASE Crash
  BY <1>14 DEF Crash, ReturnFromRun, ClearLocals, ClearCase
<1>15. CASE \E i \in OrderIds, k \in 1..MaxSize : Fill(i, k)
  BY <1>15 DEF Fill, runVars, localVars, optVars
<1>16. CASE Pause \/ Resume
  BY <1>16 DEF Pause, Resume, runVars, localVars
<1>17. CASE \E b \in BOOLEAN : SetHold(b)
  BY <1>17 DEF SetHold, runVars, localVars
<1>18. CASE \E l \in SizeLimits : SetSizeLimit(l)
  BY <1>18 DEF SetSizeLimit, runVars, localVars
<1>19. CASE UNCHANGED vars
  BY <1>19 DEF vars, exchangeVars, limiterVars, runVars, localVars, optVars, dbVars
<1>. QED
  BY <1>1, <1>2, <1>3, <1>4, <1>5, <1>6, <1>7, <1>8, <1>9, <1>10, <1>11,
     <1>12, <1>13, <1>14, <1>15, <1>16, <1>17, <1>18, <1>19
  DEF Next, Limiter, Environment

\* Shorthand for the goal of the per-action type lemmas below.
DataStepOK == DataOK' /\ CancelOK'

\* RunFetchFails only refreshes part of the orderMap.
LEMMA RunFetchFailsType ==
    ASSUME TypeInv, RunFetchFails
    PROVE  DataStepOK
<1>1. PICK S \in SUBSET LocalLive : lord' = Fetched(S)
  BY DEF RunFetchFails, FetchOrderMapFails
<1>2. lord' \in [OrderIds -> LOrder]
  BY <1>1, FetchedType DEF TypeInv
<1>3. faults' \in 0..MaxErrors
  BY DEF RunFetchFails, FetchOrderMapFails, TypeInv, TypeOK
<1>. QED
  BY <1>2, <1>3 DEF RunFetchFails, TypeInv, TypeOK, DataStepOK, DataOK,
     CancelOK, exchangeVars, runVars, localVars, optVars, dbVars

\* RunComplete saves what it fetched and returns.
LEMMA RunCompleteType ==
    ASSUME TypeInv, RunComplete
    PROVE  DataStepOK
<1>. DEFINE lo == Fetched(LocalLive)
<1>1. lo \in [OrderIds -> LOrder]
  BY FetchedType DEF TypeInv
<1>2. /\ known' \subseteq OrderIds /\ lord' \in [OrderIds -> LOrder]
      /\ dbKnown' \subseteq OrderIds /\ dbOrd' \in [OrderIds -> LOrder]
      /\ dbOffset' \in 0..MaxOrders /\ faults' \in 0..MaxErrors
  <2>1. CASE LocalLive # {} /\ SaveState(known, lo)
    BY <2>1, <1>1, SaveStateType DEF TypeInv, TypeOK
  <2>2. CASE LocalLive # {} /\ SaveFails(lo)
    BY <2>2, <1>1, SaveType DEF TypeInv, SavedOK
  <2>3. CASE LocalLive = {} /\ UNCHANGED <<known, lord, dbVars, faults>>
    BY <2>3 DEF dbVars, TypeInv, TypeOK
  <2>. QED BY <2>1, <2>2, <2>3 DEF RunComplete
<1>3. ReturnFromRun("done")
  BY DEF RunComplete
<1>. QED
  BY <1>2, <1>3, ReturnType DEF RunComplete, TypeInv, TypeOK, DataStepOK,
     DataOK, CancelOK, optVars

\* RunStart stores the fetched orderMap and picks the active order.
LEMMA RunStartType ==
    ASSUME TypeInv, RunStart
    PROVE  DataStepOK
<1>. DEFINE lo == Fetched(LocalLive)
            live == {i \in known : ~lo[i].done}
<1>1. lord' \in [OrderIds -> LOrder]
  BY FetchedType DEF RunStart, TypeInv
<1>2. ActiveOf(live) \in 0..MaxOrders
  <2>1. live \subseteq 1..MaxOrders
    BY DEF TypeInv, TypeOK, OrderIds
  <2>2. CASE live # {}
    <3>1. (CHOOSE i \in live : TRUE) \in live
      BY <2>2
    <3>. QED BY <2>1, <3>1 DEF ActiveOf
  <2>. QED BY <2>2 DEF ActiveOf, NoOrder, TypeInv, TypeOK
<1>3. /\ active' \in 0..MaxOrders
      /\ pc' \in PcValues /\ pc' # "cancel"
  BY <1>2 DEF RunStart, TypeInv, TypeOK, PcValues
<1>. QED
  BY <1>1, <1>3 DEF RunStart, TypeInv, TypeOK, DataStepOK, DataOK, CancelOK,
     exchangeVars, optVars, dbVars

\* Subscribe takes the size limit it will compare against.
LEMMA SubscribeType ==
    ASSUME TypeInv, Subscribe
    PROVE  DataStepOK
BY DEF Subscribe, TypeInv, TypeOK, DataStepOK, DataOK, CancelOK, PcValues,
   limiterVars, optVars, dbVars

\* CtxDone goes on to cancel a real order, or saves and returns.
LEMMA CtxDoneType ==
    ASSUME TypeInv, CtxDone
    PROVE  DataStepOK
<1>1. CASE active # NoOrder
  <2>1. active \in OrderIds
    BY <1>1 DEF NoOrder, TypeInv, TypeOK, OrderIds
  <2>. QED
    BY <1>1, <2>1 DEF CtxDone, TypeInv, TypeOK, DataStepOK, DataOK, CancelOK,
       PcValues, Reasons, limiterVars, optVars, dbVars
<1>2. CASE active = NoOrder
  <2>1. SavedOK
    BY <1>2, SaveType DEF CtxDone, TypeInv, TypeOK
  <2>2. ReturnFromRun("idle")
    BY <1>2 DEF CtxDone
  <2>. QED
    BY <2>1, <2>2, ReturnType DEF CtxDone, SavedOK, TypeInv, TypeOK,
       DataStepOK, DataOK, CancelOK, optVars
<1>. QED BY <1>1, <1>2

\* Flush saves the orderMap.
LEMMA FlushType ==
    ASSUME TypeInv, Flush
    PROVE  DataStepOK
<1>1. SavedOK
  BY SaveType DEF Flush, TypeInv, TypeOK
<1>. QED
  BY <1>1 DEF Flush, SavedOK, TypeInv, TypeOK, DataStepOK, DataOK, CancelOK,
     exchangeVars, optVars

\* OrderUpdate applies the head of the stream to the orderMap.
LEMMA OrderUpdateType ==
    ASSUME TypeInv, OrderUpdate
    PROVE  DataStepOK
<1>. DEFINE u == Head(updates)
<1>1. u \in Update
  BY DEF OrderUpdate, TypeInv, TypeOK
<1>2. [filled |-> u.filled, done |-> u.done] \in LOrder
  BY <1>1 DEF Update, LOrder
<1>3. lord' \in [OrderIds -> LOrder]
  BY <1>2 DEF OrderUpdate, TypeInv, TypeOK
<1>4. updates' \in Seq(Update)
  BY DEF OrderUpdate, TypeInv, TypeOK
<1>5. active' \in 0..MaxOrders
  BY DEF OrderUpdate, NoOrder, TypeInv, TypeOK
<1>. QED
  BY <1>3, <1>4, <1>5 DEF OrderUpdate, InLoop, TypeInv, TypeOK, DataStepOK,
     DataOK, CancelOK, optVars, dbVars

\* A ticker only issues a cancel when there is an active order.
LEMMA TickerType ==
    ASSUME TypeInv, NEW t \in TickerPrices, Ticker(t)
    PROVE  DataStepOK
<1>1. t \in Int
  BY TickerAssumption
<1>2. pc' = "cancel" => active \in OrderIds
  BY DEF Ticker, NoOrder, TypeInv, TypeOK, OrderIds
<1>. QED
  BY <1>1, <1>2 DEF Ticker, TypeInv, TypeOK, DataStepOK, DataOK, CancelOK,
     PcValues, Reasons, exchangeVars, limiterVars, optVars, dbVars

\* CancelOk marks the active order done and pushes its update.
LEMMA CancelOkType ==
    ASSUME TypeInv, CancelOk
    PROVE  DataStepOK
<1>. DEFINE xo == [xord[active] EXCEPT !.done = TRUE]
            u  == [id |-> active, filled |-> xo.filled, done |-> TRUE]
<1>1. active \in OrderIds
  BY DEF CancelOk, TypeInv
<1>2. xo \in XOrder /\ u \in Update
  BY <1>1 DEF TypeInv, TypeOK, XOrder, Update
<1>3. xord' \in [OrderIds -> XOrder]
  BY <1>2 DEF CancelOk, TypeInv, TypeOK
<1>4. CASE why = "ctx"
  <2>1. SavedOK
    BY <1>4, SaveType DEF CancelOk, TypeInv, TypeOK
  <2>2. ReturnFromRun("idle")
    BY <1>4 DEF CancelOk
  <2>. QED
    BY <1>3, <2>1, <2>2, ReturnType DEF CancelOk, SavedOK, TypeInv, TypeOK,
       DataStepOK, DataOK, CancelOK, optVars
<1>5. CASE why # "ctx"
  <2>1. updates' \in Seq(Update)
    <3>1. updates' = IF xord[active].done THEN updates ELSE Append(updates, u)
      BY <1>5 DEF CancelOk
    <3>2. Append(updates, u) \in Seq(Update)
      BY <1>2 DEF TypeInv, TypeOK
    <3>. QED BY <3>1, <3>2 DEF TypeInv, TypeOK
  <2>2. pc' \in {"create", "loop"}
    BY <1>5 DEF CancelOk
  <2>3. lastSizeLimit' \in SizeLimits
    BY <1>5 DEF CancelOk, TypeInv, TypeOK
  <2>4. active' = NoOrder /\ tk' = Cancel /\ why' = "none" /\ newLimit' = Size
    BY <1>5 DEF CancelOk, ClearCase
  <2>5. /\ xn' \in 0..MaxOrders /\ offset' \in 0..MaxOrders
        /\ known' \subseteq OrderIds /\ lord' \in [OrderIds -> LOrder]
        /\ sizeLimitOpt' \in SizeLimits /\ dbKnown' \subseteq OrderIds
        /\ dbOrd' \in [OrderIds -> LOrder] /\ dbOffset' \in 0..MaxOrders
        /\ crashes' \in 0..MaxCrashes /\ faults' \in 0..MaxErrors
    BY <1>5 DEF CancelOk, TypeInv, TypeOK, dbVars, optVars
  <2>6. /\ active' \in 0..MaxOrders /\ tk' \in Int /\ why' \in Reasons
        /\ newLimit' \in SizeLimits /\ ~(pc' = "cancel")
    BY <2>2, <2>4 DEF NoOrder, Reasons, TypeInv, TypeOK
  <2>. QED
    BY <1>3, <2>1, <2>2, <2>3, <2>5, <2>6
    DEF DataStepOK, DataOK, CancelOK, PcValues
<1>. QED BY <1>4, <1>5

\* CancelFails returns without saving.
LEMMA CancelFailsType ==
    ASSUME TypeInv, CancelFails
    PROVE  DataStepOK
<1>1. faults' \in 0..MaxErrors
  BY DEF CancelFails, TypeInv, TypeOK
<1>2. ReturnFromRun("idle")
  BY DEF CancelFails
<1>. QED
  BY <1>1, <1>2, ReturnType DEF CancelFails, TypeInv, TypeOK, DataStepOK,
     DataOK, CancelOK, limiterVars, optVars, dbVars

\* CreateOk stores one of the exchange's orders as the active order.
LEMMA CreateOkType ==
    ASSUME TypeInv, CreateOk
    PROVE  DataStepOK
<1>. DEFINE id == PlacedId(offset)
<1>1. /\ id \in 1..xn' /\ xn' \in 0..MaxOrders
      /\ xord' \in [OrderIds -> XOrder]
  BY PlacedIdType DEF CreateOk, TypeInv, TypeOK
<1>2. id \in OrderIds
  BY <1>1 DEF OrderIds
<1>3. known' \subseteq OrderIds /\ lord' \in [OrderIds -> LOrder]
  BY <1>2, SizeBounds DEF CreateOk, TypeInv, TypeOK, LOrder
<1>4. active' \in 0..MaxOrders /\ offset' \in 0..MaxOrders
  BY <1>2 DEF CreateOk, TypeInv, TypeOK, OrderIds
<1>. QED
  BY <1>1, <1>3, <1>4 DEF CreateOk, TypeInv, TypeOK, DataStepOK, DataOK,
     CancelOK, PcValues, optVars, dbVars

\* CreateFails leaves at most a new exchange order behind.
LEMMA CreateFailsType ==
    ASSUME TypeInv, CreateFails
    PROVE  DataStepOK
<1>1. xn' \in 0..MaxOrders /\ xord' \in [OrderIds -> XOrder]
  <2>1. CASE offset < MaxOrders /\ ExchangePlace(offset)
    BY <2>1, PlacedIdType DEF TypeInv, TypeOK
  <2>. QED BY <2>1 DEF CreateFails, TypeInv, TypeOK
<1>2. faults' \in 0..MaxErrors
  BY DEF CreateFails, TypeInv, TypeOK
<1>3. ReturnFromRun("idle")
  BY DEF CreateFails
<1>. QED
  BY <1>1, <1>2, <1>3, ReturnType DEF CreateFails, TypeInv, TypeOK,
     DataStepOK, DataOK, CancelOK, limiterVars, optVars, dbVars

\* Finish fetches, saves and returns.
LEMMA FinishType ==
    ASSUME TypeInv, Finish
    PROVE  DataStepOK
<1>1. CASE FetchOrderMapFails /\ ReturnFromRun("idle")
           /\ UNCHANGED <<known, dbVars>>
  <2>1. PICK S \in SUBSET LocalLive : lord' = Fetched(S)
    BY <1>1 DEF FetchOrderMapFails
  <2>2. lord' \in [OrderIds -> LOrder]
    BY <2>1, FetchedType DEF TypeInv
  <2>3. faults' \in 0..MaxErrors
    BY <1>1 DEF FetchOrderMapFails, TypeInv, TypeOK
  <2>. QED
    BY <1>1, <2>2, <2>3, ReturnType DEF Finish, TypeInv, TypeOK, DataStepOK,
       DataOK, CancelOK, dbVars, optVars
<1>2. CASE /\ SaveState(known, Fetched(LocalLive)) \/ SaveFails(Fetched(LocalLive))
           /\ ReturnFromRun("done") \/ ReturnFromRun("idle")
  <2>1. SavedOK
    BY <1>2, SaveType, FetchedType DEF TypeInv
  <2>. QED
    BY <1>2, <2>1, ReturnType DEF Finish, SavedOK, TypeInv, TypeOK,
       DataStepOK, DataOK, CancelOK, optVars
<1>. QED BY <1>1, <1>2 DEF Finish

\* A restart reloads the saved orderMap and offset.
LEMMA CrashType ==
    ASSUME TypeInv, Crash
    PROVE  DataStepOK
<1>1. crashes' \in 0..MaxCrashes
  BY DEF Crash, TypeInv, TypeOK
<1>2. ReturnFromRun("idle")
  BY DEF Crash
<1>. QED
  BY <1>1, <1>2, ReturnType DEF Crash, TypeInv, TypeOK, DataStepOK, DataOK,
     CancelOK, dbVars

\* A fill never exceeds the order's size, and its update names a real order.
LEMMA FillType ==
    ASSUME TypeInv, NEW i \in OrderIds, NEW k \in 1..MaxSize, Fill(i, k)
    PROVE  DataStepOK
<1>. DEFINE xo == [xord[i] EXCEPT !.filled = @ + k,
                                  !.done = (xord[i].filled + k = xord[i].size)]
            v == [id |-> i, filled |-> xo.filled, done |-> xo.done]
<1>1. xord[i].filled + k \in 0..MaxSize
  <2>1. xord[i] \in XOrder
    BY DEF TypeInv, TypeOK
  <2>2. xord[i].filled \in 0..MaxSize /\ xord[i].size \in 0..MaxSize
    BY <2>1 DEF XOrder
  <2>3. k \in 1..(xord[i].size - xord[i].filled)
    BY DEF Fill
  <2>. QED BY <2>2, <2>3, SizeBounds
<1>2. (xord[i].filled + k = xord[i].size) \in BOOLEAN
  OBVIOUS
<1>3. xo \in XOrder
  BY <1>1, <1>2 DEF TypeInv, TypeOK, XOrder
<1>4. v \in Update
  BY <1>3 DEF XOrder, Update
<1>5. xord' \in [OrderIds -> XOrder]
  BY <1>3 DEF Fill, TypeInv, TypeOK
<1>6. updates' \in Seq(Update)
  <2>1. updates' = IF Subscribed THEN Append(updates, v) ELSE updates
    BY DEF Fill
  <2>2. Append(updates, v) \in Seq(Update)
    BY <1>4 DEF TypeInv, TypeOK
  <2>. QED BY <2>1, <2>2 DEF TypeInv, TypeOK
<1>. QED
  BY <1>5, <1>6 DEF Fill, TypeInv, TypeOK, DataStepOK, DataOK, CancelOK,
     limiterVars, runVars, localVars, optVars, dbVars

\* The control plane's steps change only the options and the context.
LEMMA ControlType ==
    ASSUME TypeInv,
           \/ Pause \/ Resume
           \/ \E b \in BOOLEAN : SetHold(b)
           \/ \E l \in SizeLimits : SetSizeLimit(l)
    PROVE  DataStepOK
BY DEF Pause, Resume, SetHold, SetSizeLimit, TypeInv, TypeOK, DataStepOK,
   DataOK, CancelOK, exchangeVars, limiterVars, runVars, localVars, dbVars

\* Every step keeps the data within their types and a cancel on a real order.
LEMMA DataStep ==
    ASSUME TypeInv, [Next]_vars
    PROVE  DataStepOK
<1>1. CASE UNCHANGED vars
  BY <1>1 DEF TypeInv, TypeOK, DataStepOK, DataOK, CancelOK, vars,
     exchangeVars, limiterVars, runVars, localVars, optVars, dbVars
<1>. QED
  BY <1>1, RunFetchFailsType, RunCompleteType, RunStartType, SubscribeType,
     CtxDoneType, FlushType, OrderUpdateType, TickerType, CancelOkType,
     CancelFailsType, CreateOkType, CreateFailsType, FinishType, CrashType,
     FillType, ControlType
  DEF Next, Limiter, Environment

\* The initial state has the declared types.
LEMMA InitType ==
    ASSUME Init
    PROVE  TypeInv
<1>1. Size \in SizeLimits /\ Size \in 0..MaxSize
  BY SizeBounds
<1>2. NoXOrder \in XOrder /\ NoLOrder \in LOrder
  BY SizeBounds DEF NoXOrder, XOrder, NoLOrder, LOrder
<1>3. DataOK /\ CancelOK
  BY <1>1, <1>2 DEF Init, DataOK, CancelOK, PcValues, Reasons, NoOrder
<1>4. FlagsOK
  BY DEF Init, FlagsOK
<1>. QED BY <1>3, <1>4, TypeSplit

\* Every step keeps the declared types.
LEMMA TypeStep ==
    ASSUME TypeInv, [Next]_vars
    PROVE  TypeInv'
<1>1. DataOK' /\ CancelOK'
  BY DataStep DEF DataStepOK
<1>2. FlagsOK'
  BY FlagsStep, TypeSplit
<1>. QED BY <1>1, <1>2 DEF TypeInv, TypeOK, DataOK, FlagsOK, CancelOK

(***************************************************************************)
(* Type correctness: every state the job reaches has the declared types,  *)
(* whatever the size, limits, prices and bounds.                          *)
(***************************************************************************)
THEOREM TypeCorrect == Spec => []TypeOK
<1>1. Init => TypeInv
  BY InitType
<1>2. TypeInv /\ [Next]_vars => TypeInv'
  BY TypeStep
<1>3. TypeInv => TypeOK
  BY DEF TypeInv
<1>. QED BY <1>1, <1>2, <1>3, PTL DEF Spec
=============================================================================
