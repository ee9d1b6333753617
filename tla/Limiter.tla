------------------------------ MODULE Limiter ------------------------------
(***************************************************************************)
(* The limit-order state machine of src/limiter/limiter.go: one Limiter    *)
(* job, its Run loop (reconcile, subscribe, the select over context,       *)
(* flush timer, order updates and tickers), its create/cancel/fetch RPCs,  *)
(* Save with compaction, and Load after a crash.  The exchange (order      *)
(* book, fills, idempotency on client-order-id, the order-update stream)   *)
(* and the key-value store are the environment.                            *)
(*                                                                         *)
(* Sizes are integers in units of the size quantum.  Prices matter only    *)
(* through comparisons with the point's cancel price.                      *)
(***************************************************************************)
EXTENDS Integers, Sequences, FiniteSetsExt

CONSTANTS
    Size,          \* point.Size
    Price,         \* point.Price
    Cancel,        \* point.Cancel
    BaseMinSize,   \* product.BaseMinSize()
    SizeLimits,    \* values the size-limit option can take
    TickerPrices,  \* ticker prices the product may report
    MaxOrders,     \* bound on exchange orders and on client-order-ids
    MaxCrashes,    \* bound on process crashes
    MaxErrors      \* bound on transient RPC and database failures

ASSUME SizeAssumption == Size \in Nat \ {0}
ASSUME MinSizeAssumption == BaseMinSize \in Nat \ {0}
ASSUME PointAssumption == Price \in Int /\ Cancel \in Int /\ Price # Cancel
\* The option's values; an unset option limits nothing, like the point size.
ASSUME SizeLimitsAssumption == SizeLimits \subseteq 1..Size /\ Size \in SizeLimits
ASSUME TickerAssumption == TickerPrices \subseteq Int
ASSUME BoundsAssumption ==
    MaxOrders \in Nat /\ MaxCrashes \in Nat /\ MaxErrors \in Nat

VARIABLES
    \* exchange (environment)
    xn,            \* number of orders the exchange has accepted: ids 1..xn
    xord,          \* xord[i]: client id, size, filled size, done of order i
    updates,       \* the order-update stream of the current subscription
    \* limiter object (limiter.go Limiter)
    known,         \* DOMAIN of orderMap
    lord,          \* orderMap[i] as the limiter last saw it
    offset,        \* idgen offset
    \* locals of Run
    pc,            \* where Run is
    active,        \* activeOrderID (NoOrder for "")
    dirty,         \* dirty > 0
    lastSizeLimit, \* lastSizeLimit
    tk,            \* price of the ticker being handled
    why,           \* why the pending cancel was issued
    newLimit,      \* x := v.sizeLimit() read before a size-limit cancel
    \* options and context (set by the job control plane)
    hold,          \* holdOpt
    sizeLimitOpt,  \* the size-limit option
    ctxDone,       \* ctx.Done() is closed
    \* durable state at /limiters/<uid>
    dbKnown, dbOrd, dbOffset,
    \* fault budget
    crashes, faults

exchangeVars == <<xn, xord, updates>>
limiterVars == <<known, lord, offset>>
localVars == <<active, dirty, lastSizeLimit, tk, why, newLimit>>
runVars == <<pc, localVars>>
optVars == <<hold, sizeLimitOpt, ctxDone>>
dbVars == <<dbKnown, dbOrd, dbOffset>>
vars == <<exchangeVars, limiterVars, runVars, optVars, dbVars, crashes, faults>>

NoOrder == 0
OrderIds == 1..MaxOrders
MaxSize == IF Size > BaseMinSize THEN Size ELSE BaseMinSize
OrderSizes == BaseMinSize..MaxSize
PcValues == {"idle", "fetched", "loop", "cancel", "create", "done"}
Reasons == {"none", "hold", "limit", "cross", "ctx"}

XOrder == [cid : 0..MaxOrders, size : 0..MaxSize, filled : 0..MaxSize,
           done : BOOLEAN]
LOrder == [filled : 0..MaxSize, done : BOOLEAN]
Update == [id : OrderIds, filled : 0..MaxSize, done : BOOLEAN]
NoXOrder == [cid |-> 0, size |-> 0, filled |-> 0, done |-> TRUE]
NoLOrder == [filled |-> 0, done |-> TRUE]

(***************************************************************************)
(* point.Side(): BUY when cancel > price, SELL when cancel < price.        *)
(***************************************************************************)
IsSell == Cancel < Price
IsBuy == Cancel > Price

(***************************************************************************)
(* isTickerSideReady: a SELL is ready above the cancel price, a BUY below. *)
(* The cancel branches of the ticker case fire exactly when it is not.     *)
(***************************************************************************)
IsTickerSideReady(t) == (IsSell /\ t > Cancel) \/ (IsBuy /\ t < Cancel)

(***************************************************************************)
(* Pending(): point.Size minus the filled sizes of the orderMap.           *)
(***************************************************************************)
PendingOf(k, lo) == Size - MapThenSumSet(LAMBDA i : lo[i].filled, k)
Pending == PendingOf(known, lord)

(***************************************************************************)
(* create(): the pending size, clamped to the size limit, raised to the    *)
(* product's minimum size.                                                 *)
(***************************************************************************)
CreateSize ==
    LET s == IF Pending > sizeLimitOpt THEN sizeLimitOpt ELSE Pending
    IN  IF s < BaseMinSize THEN BaseMinSize ELSE s

(***************************************************************************)
(* The exchange's view of order i, as returned by Get.                     *)
(***************************************************************************)
Snapshot(i) == [filled |-> xord[i].filled, done |-> xord[i].done]

\* The order-update stream exists while Run is subscribed.
Subscribed == pc \in {"loop", "cancel", "create"}

\* Mutant: compaction drops every done order, filled or not.
CompactOfDone(k, lo) == k \ {i \in k : lo[i].done}

(***************************************************************************)
(* compactOrderMap: drop done orders that filled nothing.                  *)
(***************************************************************************)
CompactOf(k, lo) == k \ {i \in k : lo[i].done /\ lo[i].filled = 0}
ForgetOutside(lo, k) == [i \in OrderIds |-> IF i \in k THEN lo[i] ELSE NoLOrder]

(***************************************************************************)
(* Save: compact the orderMap in memory first, then write the orderMap and *)
(* the idgen offset to the store in one transaction.                       *)
(***************************************************************************)
CompactMap(k, lo) ==
    /\ known' = CompactOf(k, lo)
    /\ lord' = ForgetOutside(lo, CompactOf(k, lo))
SaveState(k, lo) ==
    /\ CompactMap(k, lo)
    /\ dbKnown' = known'
    /\ dbOrd' = lord'
    /\ dbOffset' = offset
    /\ UNCHANGED faults

(***************************************************************************)
(* A failed WithReadWriter: nothing is written.  The transaction may fail  *)
(* before it calls Save or after Save has compacted the map in memory.     *)
(***************************************************************************)
SaveFails(lo) ==
    /\ faults < MaxErrors
    /\ faults' = faults + 1
    /\ \/ lord' = lo /\ UNCHANGED known
       \/ CompactMap(known, lo)
    /\ UNCHANGED dbVars

(***************************************************************************)
(* fetchOrderMap: Get every order of the orderMap that is not done and     *)
(* store the exchange's answer.  A failed Get returns at once: the orders  *)
(* fetched before it (in map order, so any subset) keep their new value.   *)
(***************************************************************************)
LocalLive == {i \in known : ~lord[i].done}
Fetched(S) == [i \in OrderIds |-> IF i \in S THEN Snapshot(i) ELSE lord[i]]
FetchOrderMapFails ==
    /\ faults < MaxErrors
    /\ faults' = faults + 1
    /\ \E S \in SUBSET LocalLive : S # LocalLive /\ lord' = Fetched(S)

\* The locals of a Run that is not running, or of a case that is over.
ClearCase ==
    /\ tk' = Cancel
    /\ why' = "none"
    /\ newLimit' = Size
ClearLocals ==
    /\ active' = NoOrder
    /\ dirty' = FALSE
    /\ lastSizeLimit' = Size
    /\ ClearCase

\* Mutant: the order-update stream of a Run outlives it (stopUpdates is not
\* deferred), so its queued updates are still there for the next Run.
ReturnFromRunKeepsUpdates(to) ==
    /\ pc' = to
    /\ UNCHANGED updates
    /\ ClearLocals

\* Leaving Run: the deferred stopTickers/stopUpdates end the subscription.
ReturnFromRun(to) ==
    /\ pc' = to
    /\ updates' = <<>>
    /\ ClearLocals

(***************************************************************************)
(* The exchange's answer to LimitBuy/LimitSell with client id c: the order *)
(* that already carries c (client ids are idempotency keys), or a new      *)
(* order of the size create() computed.                                    *)
(***************************************************************************)
HasCid(c) == \E i \in 1..xn : xord[i].cid = c
ExchangePlace(c) ==
    \/ /\ HasCid(c)
       /\ UNCHANGED <<xn, xord>>
    \/ /\ ~HasCid(c)
       /\ xn < MaxOrders
       /\ CreateSize \in OrderSizes
       /\ xn' = xn + 1
       /\ xord' = [xord EXCEPT ![xn + 1] = [cid |-> c, size |-> CreateSize,
                                            filled |-> 0, done |-> FALSE]]
PlacedId(c) == CHOOSE i \in 1..xn' : xord'[i].cid = c

-----------------------------------------------------------------------------
\* Mutant: the live order found on the exchange is not reused as active.
ActiveOfNone(live) == NoOrder
\* The order reused as the active order: the only live one, if any.
ActiveOf(live) == IF live = {} THEN NoOrder ELSE CHOOSE i \in live : TRUE

(***************************************************************************)
(* Run: from the lock to the subscription.  Reconcile with fetchOrderMap;  *)
(* return complete when nothing is pending (saving if anything was         *)
(* fetched); fail when more than one order is live; otherwise take the     *)
(* live order, if any, as the active order.                                *)
(***************************************************************************)
RunFetchFails ==
    /\ pc = "idle" /\ ~ctxDone
    /\ FetchOrderMapFails
    /\ UNCHANGED <<exchangeVars, known, offset, runVars, optVars, dbVars,
                   crashes>>

RunComplete ==
    /\ pc = "idle" /\ ~ctxDone
    /\ LET lo == Fetched(LocalLive) IN
       /\ PendingOf(known, lo) = 0
       /\ IF LocalLive # {}
          THEN SaveState(known, lo) \/ SaveFails(lo)
          ELSE UNCHANGED <<known, lord, dbVars, faults>>
    /\ ReturnFromRun("done")
    /\ UNCHANGED <<xn, xord, offset, optVars, crashes>>

RunStart ==
    /\ pc = "idle" /\ ~ctxDone
    /\ LET lo == Fetched(LocalLive)
           live == {i \in known : ~lo[i].done}
       IN  /\ PendingOf(known, lo) # 0
           /\ lord' = lo
           /\ IF Cardinality(live) > 1
              THEN UNCHANGED <<pc, active>>
              ELSE /\ pc' = "fetched"
                   /\ active' = ActiveOf(live)
    /\ UNCHANGED <<exchangeVars, known, offset, dirty, lastSizeLimit, tk, why,
                   newLimit, optVars, dbVars, crashes, faults>>

\* TickerCh(), OrderUpdatesCh(), then lastSizeLimit := v.sizeLimit().
Subscribe ==
    /\ pc = "fetched"
    /\ pc' = "loop"
    /\ updates' = <<>>
    /\ lastSizeLimit' = sizeLimitOpt
    /\ UNCHANGED <<xn, xord, limiterVars, active, dirty, tk, why, newLimit,
                   optVars, dbVars, crashes, faults>>

-----------------------------------------------------------------------------
(***************************************************************************)
(* The select of Run's loop; each case runs only while the pending size is *)
(* not zero.                                                               *)
(***************************************************************************)
InLoop == pc = "loop" /\ Pending # 0

(***************************************************************************)
(* case <-ctx.Done(): cancel the active order (under the detached          *)
(* context), save, return the cause.                                       *)
(***************************************************************************)
CtxDone ==
    /\ InLoop /\ ctxDone
    /\ IF active # NoOrder
       THEN /\ pc' = "cancel"
            /\ why' = "ctx"
            /\ UNCHANGED <<updates, limiterVars, active, dirty, lastSizeLimit,
                           tk, newLimit, dbVars, faults>>
       ELSE /\ SaveState(known, lord) \/ SaveFails(lord)
            /\ ReturnFromRun("idle")
    /\ UNCHANGED <<xn, xord, offset, optVars, crashes>>

(***************************************************************************)
(* case <-flushCh: save when dirty; a failed save stays dirty.             *)
(***************************************************************************)
Flush ==
    /\ InLoop /\ dirty
    /\ \/ SaveState(known, lord) /\ dirty' = FALSE
       \/ SaveFails(lord) /\ UNCHANGED dirty
    /\ UNCHANGED <<exchangeVars, offset, pc, active, lastSizeLimit, tk,
                   why, newLimit, optVars, crashes>>

(***************************************************************************)
(* case order := <-orderUpdatesCh: updateOrderMap (orders of the map only) *)
(* and clear the active order when it is done.                             *)
(***************************************************************************)
OrderUpdate ==
    /\ InLoop /\ updates # <<>>
    /\ LET u == Head(updates) IN
       /\ lord' = IF u.id \in known
                  THEN [lord EXCEPT ![u.id] = [filled |-> u.filled,
                                               done |-> u.done]]
                  ELSE lord
       /\ active' = IF u.done /\ u.id = active THEN NoOrder ELSE active
    /\ updates' = Tail(updates)
    /\ dirty' = TRUE
    /\ UNCHANGED <<xn, xord, known, offset, pc, lastSizeLimit, tk, why,
                   newLimit, optVars, dbVars, crashes, faults>>

(***************************************************************************)
(* case ticker := <-tickerCh.  With hold set: cancel the active order and  *)
(* create nothing.  Otherwise cancel the active order when the size limit  *)
(* changed (then go on to create) or when the ticker is on the cancel side *)
(* of the point; create an order when there is none and the ticker is on  *)
(* the ready side.  Any other ticker changes nothing.                      *)
(***************************************************************************)
Ticker(t) ==
    /\ InLoop
    /\ \/ /\ hold /\ active # NoOrder
          /\ pc' = "cancel" /\ why' = "hold"
          /\ UNCHANGED <<tk, newLimit>>
       \/ /\ ~hold /\ active # NoOrder /\ lastSizeLimit # sizeLimitOpt
          /\ pc' = "cancel" /\ why' = "limit"
          /\ newLimit' = sizeLimitOpt /\ tk' = t
       \/ /\ ~hold /\ active # NoOrder /\ lastSizeLimit = sizeLimitOpt
          /\ ~IsTickerSideReady(t)
          /\ pc' = "cancel" /\ why' = "cross"
          /\ UNCHANGED <<tk, newLimit>>
       \/ /\ ~hold /\ active = NoOrder /\ IsTickerSideReady(t)
          /\ pc' = "create"
          /\ UNCHANGED <<tk, why, newLimit>>
    /\ UNCHANGED <<exchangeVars, limiterVars, active, dirty, lastSizeLimit,
                   optVars, dbVars, crashes, faults>>

\* Mutant: after the ctx case's cancel, Run goes back to its loop instead of
\* saving and returning.
CancelOkCtxLoops ==
    /\ pc = "cancel"
    /\ LET xo == [xord[active] EXCEPT !.done = TRUE]
           u  == [id |-> active, filled |-> xo.filled, done |-> TRUE]
           upd == IF xord[active].done THEN updates ELSE Append(updates, u)
       IN  /\ xord' = [xord EXCEPT ![active] = xo]
           /\ IF why = "ctx"
              THEN /\ pc' = "loop"
                   /\ UNCHANGED <<updates, limiterVars, active, dirty,
                                  lastSizeLimit, tk, why, newLimit, dbVars,
                                  faults>>
              ELSE /\ updates' = upd
                   /\ active' = NoOrder
                   /\ dirty' = TRUE
                   /\ lastSizeLimit' = IF why = "limit" THEN newLimit
                                       ELSE lastSizeLimit
                   /\ pc' = IF why = "limit" /\ IsTickerSideReady(tk)
                            THEN "create" ELSE "loop"
                   /\ ClearCase
                   /\ UNCHANGED <<known, lord, dbVars, faults>>
    /\ UNCHANGED <<xn, offset, optVars, crashes>>

(***************************************************************************)
(* cancel(active) succeeds: the exchange cancels a live order and pushes   *)
(* its done update; a done order is reported canceled as it is.  Then the  *)
(* case that issued it goes on.                                            *)
(***************************************************************************)
CancelOk ==
    /\ pc = "cancel"
    /\ LET xo == [xord[active] EXCEPT !.done = TRUE]
           u  == [id |-> active, filled |-> xo.filled, done |-> TRUE]
           upd == IF xord[active].done THEN updates ELSE Append(updates, u)
       IN  /\ xord' = [xord EXCEPT ![active] = xo]
           /\ IF why = "ctx"
              THEN /\ SaveState(known, lord) \/ SaveFails(lord)
                   /\ ReturnFromRun("idle")
              ELSE /\ updates' = upd
                   /\ active' = NoOrder
                   /\ dirty' = TRUE
                   /\ lastSizeLimit' = IF why = "limit" THEN newLimit
                                       ELSE lastSizeLimit
                   /\ pc' = IF why = "limit" /\ IsTickerSideReady(tk)
                            THEN "create" ELSE "loop"
                   /\ ClearCase
                   /\ UNCHANGED <<known, lord, dbVars, faults>>
    /\ UNCHANGED <<xn, offset, optVars, crashes>>

(***************************************************************************)
(* cancel(active) fails, transiently or because the exchange refuses to    *)
(* cancel a done order: Run returns the error without saving.              *)
(***************************************************************************)
CancelFails ==
    /\ pc = "cancel"
    /\ \/ faults < MaxErrors /\ faults' = faults + 1
       \/ xord[active].done /\ UNCHANGED faults
    /\ ReturnFromRun("idle")
    /\ UNCHANGED <<xn, xord, limiterVars, optVars, dbVars, crashes>>

\* Mutant: the idgen offset is not advanced, so the next create() reuses
\* the client id of this order.
CreateOkNoNextID ==
    /\ pc = "create"
    /\ offset < MaxOrders
    /\ ExchangePlace(offset)
    /\ LET id == PlacedId(offset) IN
       /\ known' = known \cup {id}
       /\ lord' = [lord EXCEPT ![id] = [filled |-> 0, done |-> FALSE]]
       /\ active' = id
    /\ dirty' = TRUE
    /\ pc' = "loop"
    /\ UNCHANGED <<updates, offset, lastSizeLimit, tk, why, newLimit, optVars,
                   dbVars, crashes, faults>>

(***************************************************************************)
(* create() succeeds: NextID, LimitBuy/LimitSell, store the returned order *)
(* in the orderMap as the active order.                                    *)
(***************************************************************************)
CreateOk ==
    /\ pc = "create"
    /\ offset < MaxOrders
    /\ ExchangePlace(offset)
    /\ LET id == PlacedId(offset) IN
       /\ known' = known \cup {id}
       /\ lord' = [lord EXCEPT ![id] = [filled |-> 0, done |-> FALSE]]
       /\ active' = id
    /\ offset' = offset + 1
    /\ dirty' = TRUE
    /\ pc' = "loop"
    /\ UNCHANGED <<updates, lastSizeLimit, tk, why, newLimit, optVars, dbVars,
                   crashes, faults>>

\* Mutant: a failed create() does not call RevertID.
CreateFailsNoRevert ==
    /\ pc = "create"
    /\ faults < MaxErrors /\ faults' = faults + 1
    /\ \/ UNCHANGED <<xn, xord>>
       \/ offset < MaxOrders /\ ExchangePlace(offset)
    /\ offset' = offset + 1
    /\ ReturnFromRun("idle")
    /\ UNCHANGED <<known, lord, optVars, dbVars, crashes>>

\* Mutant: RevertID runs twice, undoing an earlier NextID as well.
CreateFailsDoubleRevert ==
    /\ pc = "create"
    /\ faults < MaxErrors /\ faults' = faults + 1
    /\ \/ UNCHANGED <<xn, xord>>
       \/ offset < MaxOrders /\ ExchangePlace(offset)
    /\ offset' = offset - 1
    /\ ReturnFromRun("idle")
    /\ UNCHANGED <<known, lord, optVars, dbVars, crashes>>

(***************************************************************************)
(* create() fails: the request was rejected, or the exchange placed it and *)
(* the reply was lost.  The idgen offset is reverted; Run returns the      *)
(* error.  Run passes localCtx = context.Background() (line 308), so a    *)
(* pause does not cut the request short.                                   *)
(***************************************************************************)
CreateFails ==
    /\ pc = "create"
    /\ faults < MaxErrors /\ faults' = faults + 1
    /\ \/ UNCHANGED <<xn, xord>>
       \/ offset < MaxOrders /\ ExchangePlace(offset)
    /\ ReturnFromRun("idle")
    /\ UNCHANGED <<limiterVars, optVars, dbVars, crashes>>

(***************************************************************************)
(* The loop ends when nothing is pending: fetchOrderMap, save, return nil. *)
(* Either failure returns the error instead.                               *)
(***************************************************************************)
Finish ==
    /\ pc = "loop" /\ Pending = 0
    /\ \/ /\ FetchOrderMapFails
          /\ ReturnFromRun("idle")
          /\ UNCHANGED <<known, dbVars>>
       \/ /\ SaveState(known, Fetched(LocalLive))
          /\ ReturnFromRun("done")
       \/ /\ SaveFails(Fetched(LocalLive))
          /\ ReturnFromRun("idle")
    /\ UNCHANGED <<xn, xord, offset, optVars, crashes>>

-----------------------------------------------------------------------------
(***************************************************************************)
(* The process dies anywhere; on restart the job is rebuilt by Load from   *)
(* the store and run again.                                                *)
(***************************************************************************)
Crash ==
    /\ crashes < MaxCrashes
    /\ crashes' = crashes + 1
    /\ known' = dbKnown
    /\ lord' = dbOrd
    /\ offset' = dbOffset
    /\ ReturnFromRun("idle")
    /\ ctxDone' = FALSE
    /\ UNCHANGED <<xn, xord, hold, sizeLimitOpt, dbVars, faults>>

(***************************************************************************)
(* Environment: the exchange fills part of a live order and pushes the     *)
(* update to a subscribed Run; the control plane pauses and resumes the    *)
(* job and sets the hold and size-limit options.                           *)
(***************************************************************************)
Fill(i, k) ==
    /\ i \in 1..xn
    /\ ~xord[i].done
    /\ k \in 1..(xord[i].size - xord[i].filled)
    /\ LET xo == [xord[i] EXCEPT !.filled = @ + k,
                                 !.done = (xord[i].filled + k = xord[i].size)]
       IN  /\ xord' = [xord EXCEPT ![i] = xo]
           /\ updates' = IF Subscribed
                         THEN Append(updates, [id |-> i, filled |-> xo.filled,
                                               done |-> xo.done])
                         ELSE updates
    /\ UNCHANGED <<xn, limiterVars, runVars, optVars, dbVars, crashes, faults>>

Pause ==
    /\ ~ctxDone
    /\ ctxDone' = TRUE
    /\ UNCHANGED <<exchangeVars, limiterVars, runVars, hold, sizeLimitOpt,
                   dbVars, crashes, faults>>

Resume ==
    /\ ctxDone /\ pc = "idle"
    /\ ctxDone' = FALSE
    /\ UNCHANGED <<exchangeVars, limiterVars, runVars, hold, sizeLimitOpt,
                   dbVars, crashes, faults>>

SetHold(b) ==
    /\ hold' = b
    /\ UNCHANGED <<exchangeVars, limiterVars, runVars, sizeLimitOpt, ctxDone,
                   dbVars, crashes, faults>>

SetSizeLimit(l) ==
    /\ sizeLimitOpt' = l
    /\ UNCHANGED <<exchangeVars, limiterVars, runVars, hold, ctxDone, dbVars,
                   crashes, faults>>

-----------------------------------------------------------------------------
(***************************************************************************)
(* New(): empty orderMap, idgen offset 0; the Looper saves it at once.     *)
(***************************************************************************)
Init ==
    /\ xn = 0
    /\ xord = [i \in OrderIds |-> NoXOrder]
    /\ updates = <<>>
    /\ known = {}
    /\ lord = [i \in OrderIds |-> NoLOrder]
    /\ offset = 0
    /\ pc = "idle"
    /\ active = NoOrder
    /\ dirty = FALSE
    /\ lastSizeLimit = Size
    /\ tk = Cancel
    /\ why = "none"
    /\ newLimit = Size
    /\ hold = FALSE
    /\ sizeLimitOpt = Size
    /\ ctxDone = FALSE
    /\ dbKnown = {}
    /\ dbOrd = lord
    /\ dbOffset = 0
    /\ crashes = 0
    /\ faults = 0

Limiter ==
    \/ RunFetchFails \/ RunComplete \/ RunStart \/ Subscribe
    \/ CtxDone \/ Flush \/ OrderUpdate \/ \E t \in TickerPrices : Ticker(t)
    \/ CancelOk \/ CancelFails \/ CreateOk \/ CreateFails \/ Finish

Environment ==
    \/ Crash
    \/ \E i \in OrderIds, k \in 1..MaxSize : Fill(i, k)
    \/ Pause \/ Resume
    \/ \E b \in BOOLEAN : SetHold(b)
    \/ \E l \in SizeLimits : SetSizeLimit(l)

Next == Limiter \/ Environment

Spec == Init /\ [][Next]_vars

(***************************************************************************)
(* Fairness.  Run's goroutine takes a step whenever one is enabled (weak   *)
(* fairness of Limiter).  Go's select picks among ready cases at random,   *)
(* so the ctx case, ready again each time the loop comes back to the       *)
(* select, is eventually taken (strong fairness of CtxDone).  The exchange *)
(* and the control plane get no fairness.                                  *)
(***************************************************************************)
FairSpec == Spec /\ WF_vars(Limiter) /\ SF_vars(CtxDone)

-----------------------------------------------------------------------------
(***************************************************************************)
(* Type invariant.                                                         *)
(***************************************************************************)
TypeOK ==
    /\ xn \in 0..MaxOrders
    /\ xord \in [OrderIds -> XOrder]
    /\ updates \in Seq(Update)
    /\ known \subseteq OrderIds
    /\ lord \in [OrderIds -> LOrder]
    /\ offset \in 0..MaxOrders
    /\ pc \in PcValues
    /\ active \in 0..MaxOrders
    /\ dirty \in BOOLEAN
    /\ lastSizeLimit \in SizeLimits
    /\ tk \in Int
    /\ why \in Reasons
    /\ newLimit \in SizeLimits
    /\ hold \in BOOLEAN
    /\ sizeLimitOpt \in SizeLimits
    /\ ctxDone \in BOOLEAN
    /\ dbKnown \subseteq OrderIds
    /\ dbOrd \in [OrderIds -> LOrder]
    /\ dbOffset \in 0..MaxOrders
    /\ crashes \in 0..MaxCrashes
    /\ faults \in 0..MaxErrors

-----------------------------------------------------------------------------
LiveOnExchange(i) == i \in 1..xn /\ ~xord[i].done

(***************************************************************************)
(* At most one order of the job is live on the exchange, across create    *)
(* failures whose reply was lost, crashes that roll the idgen offset back  *)
(* to the last save, and Run restarts that reuse a live order.  Broken,   *)
(* two orders would rest at once and both could fill.                      *)
(***************************************************************************)
ExchangeAtMostOneLive ==
    \A i, j \in 1..xn : LiveOnExchange(i) /\ LiveOnExchange(j) => i = j

(***************************************************************************)
(* No order is lost track of: every exchange order whose client id lies    *)
(* below the idgen offset, and that is still live or has filled, is in the *)
(* orderMap, and likewise for the saved orderMap and offset.  Orders above *)
(* the offset are found again because create() reuses their client ids.   *)
(* This is what RevertID, the atomic Save of map and offset, and the       *)
(* compaction rule (done and unfilled only) together guarantee.            *)
(***************************************************************************)
Tracked(k, off) ==
    \A i \in 1..xn :
        xord[i].cid < off /\ (~xord[i].done \/ xord[i].filled > 0) => i \in k
NoOrderForgotten == Tracked(known, offset) /\ Tracked(dbKnown, dbOffset)

(***************************************************************************)
(* Apart from a restart, the filled size the limiter records for an order  *)
(* never goes down: order updates are applied in stream order and a Get    *)
(* never overtakes a queued update.  A decrease would raise Pending and    *)
(* make create() order again what was already bought or sold.             *)
(***************************************************************************)
LocalFillMonotone ==
    [][crashes' = crashes =>
         \A i \in known \cap known' : lord'[i].filled >= lord[i].filled]_vars

-----------------------------------------------------------------------------
(***************************************************************************)
(* The invariant behind ExchangeAtMostOneLive and NoOrderForgotten, strong *)
(* enough to be inductive.  Order i carries client id i - 1 (ids are      *)
(* handed out in order, and the exchange only adds an order for an unused *)
(* id), so "client id below the offset" is "i <= offset".                 *)
(***************************************************************************)
CidIsIndex == \A i \in 1..xn : xord[i].cid = i - 1

\* The stored offset never runs ahead of memory, nor memory ahead of the
\* exchange.
OffsetOrder == dbOffset <= offset /\ offset <= xn

\* Every orderMap entry has a client id below the offset, and what it says
\* done is done on the exchange, with the exchange's final filled size.
KnownSound(k, lo, off) ==
    \A i \in k : /\ i <= off
                 /\ lo[i].done => xord[i].done /\ lo[i].filled = xord[i].filled

\* Every order below the offset that is live, or has filled, is in the map;
\* a live one is not done there.
LiveTracked(k, lo, off) ==
    \A i \in 1..xn : i <= off =>
        /\ ~xord[i].done => i \in k /\ ~lo[i].done
        /\ xord[i].filled > 0 => i \in k

\* A queued update names an exchange order, and a done update carries its
\* final state.
UpdatesSound ==
    \A n \in 1..Len(updates) :
        LET u == updates[n] IN
        /\ u.id \in 1..xn
        /\ u.done => xord[u.id].done /\ u.filled = xord[u.id].filled

\* The active order is an entry of the map that is not done there.
ActiveSound == active # NoOrder => active \in known /\ ~lord[active].done

\* While Run holds the lock, the only live order below the offset is the
\* active one; before create() there is none, and outside Run no order is
\* active.
ActiveTracksLive ==
    /\ pc \in {"idle", "done"} => active = NoOrder
    /\ pc \in {"fetched", "loop", "cancel", "create"} =>
           \A i \in 1..xn : i <= offset /\ ~xord[i].done => i = active
    /\ pc = "create" => active = NoOrder
    /\ pc = "cancel" => active # NoOrder

IInv ==
    /\ TypeOK
    /\ CidIsIndex
    /\ OffsetOrder
    /\ KnownSound(known, lord, offset)
    /\ KnownSound(dbKnown, dbOrd, dbOffset)
    /\ LiveTracked(known, lord, offset)
    /\ LiveTracked(dbKnown, dbOrd, dbOffset)
    /\ UpdatesSound
    /\ ActiveSound
    /\ ActiveTracksLive
    /\ ExchangeAtMostOneLive

(***************************************************************************)
(* Why LocalFillMonotone holds, in a form strong enough to be inductive.   *)
(* The order-update stream exists only while Run is subscribed.  Both     *)
(* orderMaps record at most what the exchange has filled.  A queued update *)
(* carries at most the exchange's filled size and at least what the       *)
(* orderMap records for its order, and the updates of one order are       *)
(* queued in increasing fill.  So neither applying an update nor a Get,   *)
(* which returns the exchange's filled size, lowers a recorded fill.      *)
(***************************************************************************)
FillsBelowExchange(k, lo) == \A i \in k : lo[i].filled <= xord[i].filled
FillsOrdered ==
    /\ ~Subscribed => updates = <<>>
    /\ FillsBelowExchange(known, lord)
    /\ FillsBelowExchange(dbKnown, dbOrd)
    /\ \A n \in 1..Len(updates) :
        LET u == updates[n] IN
        /\ u.filled <= xord[u.id].filled
        /\ u.id \in known => lord[u.id].filled <= u.filled
        /\ \A m \in 1..(n - 1) :
               updates[m].id = u.id => updates[m].filled <= u.filled

(***************************************************************************)
(* The exchange never fills more than point.Size over all the job's        *)
(* orders (spec: pending_size >= 0 and pending + filled = size).           *)
(***************************************************************************)
NoOverfill == MapThenSumSet(LAMBDA i : xord[i].filled, 1..xn) <= Size

(***************************************************************************)
(* create() never asks for more than the pending size (spec: order size =  *)
(* min(pending, size_limit, max(base_min_size, pending))).                *)
(***************************************************************************)
CreateWithinPending ==
    [][xn' > xn => xord'[xn'].size <= Pending]_vars

(***************************************************************************)
(* At most one order of the orderMap is not done (spec, section 3 and      *)
(* testable property 1).                                                   *)
(***************************************************************************)
AtMostOneLiveLocal == Cardinality(LocalLive) <= 1

-----------------------------------------------------------------------------
(***************************************************************************)
(* Refinement: the job's pending size, in memory and in the store, behaves *)
(* as LimiterAbstract says.  It fails if an update, a fetch or compaction  *)
(* could raise Pending, or if a save wrote a pending size other than the   *)
(* one in memory.                                                          *)
(***************************************************************************)
ALim == INSTANCE LimiterAbstract WITH
            pending <- Pending, savedPending <- PendingOf(dbKnown, dbOrd)

\* The Looper relies on this: a pending size the job has reached stays
\* reached until a restart, and a restart goes back to the last save.
Refines == ALim!ASpec

(***************************************************************************)
(* A paused job stops: once its context is canceled, Run returns, whether  *)
(* it is fetching, subscribed, cancelling its active order (which may fail *)
(* or find the order done) or creating one.  create() runs under           *)
(* localCtx and is not interrupted: Run returns after it, from the ctx     *)
(* case of the select.  The Looper's Run and the pause command wait on     *)
(* this return.  The one state excused is the model's own bound: a create  *)
(* with every order id and every failure of the instance used up has no   *)
(* step left in the model, while the code's request always returns.       *)
(***************************************************************************)
CreateBoundReached ==
    pc = "create" /\ offset = MaxOrders /\ faults = MaxErrors
CanceledRunReturns == ctxDone ~> (pc \in {"idle", "done"} \/ CreateBoundReached)


=============================================================================
