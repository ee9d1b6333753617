------------------------------- MODULE Looper -------------------------------
(***************************************************************************)
(* The buy-low/sell-high loop of src/looper/looper.go: Run's dispatch over *)
(* the last buy and the last sell, addNewBuy (wait for the ticker to rise  *)
(* above the buy price) and addNewSell with their transactional Save and   *)
(* the rollback of the append when it fails, the retry of a failed step,   *)
(* and Load after a restart.                                               *)
(*                                                                         *)
(* Each limiter is seen through its pending size, as LimiterAbstract says: *)
(* it goes down while the job runs, a save records it, and a restart       *)
(* resumes from what was saved.  Limiter i of a side has uid buy-i or      *)
(* sell-i (path.Join(key, "buy-%06d")), so a limiter is its index.         *)
(***************************************************************************)
EXTENDS Integers

CONSTANTS
    BuySize,       \* buyPoint.Size
    SellSize,      \* sellPoint.Size
    MaxCycles,     \* bound on the limiters of each side
    MaxCrashes,    \* bound on process crashes
    MaxErrors,     \* bound on failed saves and failed limiter runs
    Overfill       \* bound on how far below zero a limiter's pending goes

ASSUME SizesAssumption == BuySize \in Nat \ {0} /\ SellSize \in Nat \ {0}
ASSUME LooperBoundsAssumption ==
    /\ MaxCycles \in Nat \ {0} /\ MaxCrashes \in Nat /\ MaxErrors \in Nat
    /\ Overfill \in Nat

VARIABLES
    nb, ns,        \* len(v.buys), len(v.sells)
    bp, sp,        \* bp[i]: Pending() of the in-memory limiter buy-i
    dbNb, dbNs,    \* the buys and sells listed under the looper's key
    dbBp, dbSp,    \* dbBp[i]: pending size stored under /limiters/buy-i
    pc,            \* where Run is
    ctxDone,       \* ctx.Err() != nil
    crashes, faults

memVars == <<nb, ns, bp, sp>>
dbVars == <<dbNb, dbNs, dbBp, dbSp>>
lvars == <<memVars, dbVars, pc, ctxDone, crashes, faults>>

Cycles == 0..(MaxCycles - 1)
\* "loop": top of Run's for; "waitbuy": addNewBuy's ticker wait; "runbuy",
\* "runsell": last.Run of the last buy or sell; "stopped": Run returned.
LooperPc == {"loop", "waitbuy", "runbuy", "runsell", "stopped"}

LastBuyDone == nb > 0 /\ bp[nb - 1] = 0
LastSellDone == ns > 0 /\ sp[ns - 1] = 0

(***************************************************************************)
(* Looper.Save in one WithReadWriter transaction: every limiter of buys    *)
(* and sells saves itself, then the list of their uids is written.         *)
(***************************************************************************)
SaveLooperKeysOnly ==
    /\ dbNb' = nb' /\ dbNs' = ns'
    /\ UNCHANGED <<dbBp, dbSp>>
SaveLooper ==
    /\ dbNb' = nb' /\ dbNs' = ns'
    /\ dbBp' = [i \in Cycles |-> IF i < nb' THEN bp'[i] ELSE dbBp[i]]
    /\ dbSp' = [i \in Cycles |-> IF i < ns' THEN sp'[i] ELSE dbSp[i]]

\* A failed transaction writes nothing; Run logs, sleeps and goes round.
SaveFails ==
    /\ faults < MaxErrors
    /\ faults' = faults + 1
    /\ UNCHANGED dbVars

(***************************************************************************)
(* Run's dispatch, in the order of its ifs.                                *)
(***************************************************************************)
\* Mutant: a new buy is started without checking that the last sell exists.
WaitForBuyNoSellCheck ==
    /\ pc = "loop" /\ ~ctxDone
    /\ nb = 0 \/ LastBuyDone
    /\ pc' = "waitbuy"
    /\ UNCHANGED <<memVars, dbVars, ctxDone, crashes, faults>>

WaitForBuy ==
    /\ pc = "loop" /\ ~ctxDone
    /\ nb = 0 \/ (LastBuyDone /\ ns >= nb /\ LastSellDone)
    /\ pc' = "waitbuy"
    /\ UNCHANGED <<memVars, dbVars, ctxDone, crashes, faults>>

\* Mutant: the last buy is run again without checking that it is pending.
RunLastBuyNoPendingCheck ==
    /\ pc = "loop" /\ ~ctxDone
    /\ nb > 0
    /\ pc' = "runbuy"
    /\ UNCHANGED <<memVars, dbVars, ctxDone, crashes, faults>>

RunLastBuy ==
    /\ pc = "loop" /\ ~ctxDone
    /\ nb > 0 /\ bp[nb - 1] # 0
    /\ pc' = "runbuy"
    /\ UNCHANGED <<memVars, dbVars, ctxDone, crashes, faults>>

RunLastSell ==
    /\ pc = "loop" /\ ~ctxDone
    /\ LastBuyDone /\ ns >= nb /\ ns > 0 /\ sp[ns - 1] # 0
    /\ pc' = "runsell"
    /\ UNCHANGED <<memVars, dbVars, ctxDone, crashes, faults>>

\* for ctx.Err() == nil ends: Run returns context.Cause(ctx).
Stop ==
    /\ pc \in {"loop", "waitbuy"} /\ ctxDone
    /\ pc' = "stopped"
    /\ UNCHANGED <<memVars, dbVars, ctxDone, crashes, faults>>

\* Mutant: a failed save does not roll the append back.
AppendNoRollback(isBuy) ==
    /\ IF isBuy
       THEN nb' = nb + 1 /\ bp' = [bp EXCEPT ![nb] = BuySize] /\ UNCHANGED <<ns, sp>>
       ELSE ns' = ns + 1 /\ sp' = [sp EXCEPT ![ns] = SellSize] /\ UNCHANGED <<nb, bp>>
    /\ \/ SaveLooper /\ UNCHANGED faults
       \/ SaveFails

\* Mutant: addNewSell creates its limiter at the buy point.
AppendWrongPoint(isBuy) ==
    \/ /\ IF isBuy
          THEN nb' = nb + 1 /\ bp' = [bp EXCEPT ![nb] = BuySize] /\ UNCHANGED <<ns, sp>>
          ELSE ns' = ns + 1 /\ sp' = [sp EXCEPT ![ns] = BuySize] /\ UNCHANGED <<nb, bp>>
       /\ SaveLooper
       /\ UNCHANGED faults
    \/ SaveFails /\ UNCHANGED memVars

(***************************************************************************)
(* limiter.New, append, Save; on a failed save the append is undone.       *)
(***************************************************************************)
Append(isBuy) ==
    \/ /\ IF isBuy
          THEN nb' = nb + 1 /\ bp' = [bp EXCEPT ![nb] = BuySize] /\ UNCHANGED <<ns, sp>>
          ELSE ns' = ns + 1 /\ sp' = [sp EXCEPT ![ns] = SellSize] /\ UNCHANGED <<nb, bp>>
       /\ SaveLooper
       /\ UNCHANGED faults
    \/ SaveFails /\ UNCHANGED memVars

(***************************************************************************)
(* addNewBuy: a ticker above the buy price ends the wait.  The select may  *)
(* take the ticker even when ctx is also done.  Tickers at or below the    *)
(* price leave the state as it is.                                         *)
(***************************************************************************)
AddNewBuy ==
    /\ pc = "waitbuy"
    /\ nb < MaxCycles
    /\ Append(TRUE)
    /\ pc' = "loop"
    /\ UNCHANGED <<ctxDone, crashes>>

\* addNewSell: no wait (the ticker wait is commented out).
AddNewSell ==
    /\ pc = "loop" /\ ~ctxDone
    /\ LastBuyDone /\ ns < nb
    /\ Append(FALSE)
    /\ UNCHANGED <<pc, ctxDone, crashes>>

(***************************************************************************)
(* last.Run of the limiter being run, seen through LimiterAbstract: fills  *)
(* lower its pending size, and the job may save it as it goes.  Pending()  *)
(* has no floor: an overfill (a create sized from a stale Pending, or      *)
(* raised to BaseMinSize) takes it below zero.                             *)
(***************************************************************************)
LimiterProgress ==
    /\ pc \in {"runbuy", "runsell"}
    /\ IF pc = "runbuy"
       THEN \E v \in -Overfill..bp[nb - 1] :
               /\ bp' = [bp EXCEPT ![nb - 1] = v]
               /\ dbBp' \in {dbBp, [dbBp EXCEPT ![nb - 1] = v]}
               /\ UNCHANGED <<sp, dbSp>>
       ELSE \E v \in -Overfill..sp[ns - 1] :
               /\ sp' = [sp EXCEPT ![ns - 1] = v]
               /\ dbSp' \in {dbSp, [dbSp EXCEPT ![ns - 1] = v]}
               /\ UNCHANGED <<bp, dbBp>>
    /\ UNCHANGED <<nb, ns, dbNb, dbNs, pc, ctxDone, crashes, faults>>

\* Mutant: a failed limiter run ends the Looper's Run instead of a retry.
LimiterReturnsStops ==
    /\ pc \in {"runbuy", "runsell"}
    /\ LET p == IF pc = "runbuy" THEN bp[nb - 1] ELSE sp[ns - 1] IN
       \/ p = 0 /\ UNCHANGED faults /\ pc' = "loop"
       \/ ctxDone /\ UNCHANGED faults /\ pc' = "loop"
       \/ p # 0 /\ faults < MaxErrors /\ faults' = faults + 1 /\ pc' = "stopped"
    /\ UNCHANGED <<memVars, dbVars, ctxDone, crashes>>

\* The limiter's Run returns: nil when nothing is pending, its error, or
\* the cancellation cause.  On an error the Looper sleeps and goes round.
LimiterReturns ==
    /\ pc \in {"runbuy", "runsell"}
    /\ LET p == IF pc = "runbuy" THEN bp[nb - 1] ELSE sp[ns - 1] IN
       \/ p = 0 /\ UNCHANGED faults
       \/ ctxDone /\ UNCHANGED faults
       \/ p # 0 /\ faults < MaxErrors /\ faults' = faults + 1
    /\ pc' = "loop"
    /\ UNCHANGED <<memVars, dbVars, ctxDone, crashes>>

(***************************************************************************)
(* The market fills the rest of the limiter's order and the limiter        *)
(* finishes: Finish saves and Run returns nil.  An overfilled limiter      *)
(* cannot: its loop (limiter.go:318) runs while Pending is not zero.       *)
(***************************************************************************)
LimiterCompletes ==
    /\ pc \in {"runbuy", "runsell"}
    /\ IF pc = "runbuy"
       THEN /\ bp[nb - 1] >= 0
            /\ bp' = [bp EXCEPT ![nb - 1] = 0]
            /\ dbBp' = [dbBp EXCEPT ![nb - 1] = 0]
            /\ UNCHANGED <<sp, dbSp>>
       ELSE /\ sp[ns - 1] >= 0
            /\ sp' = [sp EXCEPT ![ns - 1] = 0]
            /\ dbSp' = [dbSp EXCEPT ![ns - 1] = 0]
            /\ UNCHANGED <<bp, dbBp>>
    /\ pc' = "loop"
    /\ UNCHANGED <<nb, ns, dbNb, dbNs, ctxDone, crashes, faults>>

(***************************************************************************)
(* A restart: Load reads the uid list, loads each limiter from its own key *)
(* and splits them by side, keeping their order; the job is run again.     *)
(***************************************************************************)
Crash ==
    /\ crashes < MaxCrashes
    /\ crashes' = crashes + 1
    /\ nb' = dbNb /\ ns' = dbNs
    /\ bp' = dbBp /\ sp' = dbSp
    /\ pc' = "loop"
    /\ ctxDone' = FALSE
    /\ UNCHANGED <<dbVars, faults>>

\* The job is paused (ctx canceled) and later resumed (Run called again).
Pause ==
    /\ ~ctxDone
    /\ ctxDone' = TRUE
    /\ UNCHANGED <<memVars, dbVars, pc, crashes, faults>>

Resume ==
    /\ pc = "stopped"
    /\ ctxDone' = FALSE
    /\ pc' = "loop"
    /\ UNCHANGED <<memVars, dbVars, crashes, faults>>

-----------------------------------------------------------------------------
\* New: no limiters yet; the job is saved when it is added.
LInit ==
    /\ nb = 0 /\ ns = 0
    /\ bp = [i \in Cycles |-> BuySize]
    /\ sp = [i \in Cycles |-> SellSize]
    /\ dbNb = 0 /\ dbNs = 0
    /\ dbBp = bp /\ dbSp = sp
    /\ pc = "loop"
    /\ ctxDone = FALSE
    /\ crashes = 0 /\ faults = 0

LooperSteps ==
    \/ WaitForBuy \/ RunLastBuy \/ RunLastSell \/ Stop
    \/ AddNewBuy \/ AddNewSell \/ LimiterProgress \/ LimiterReturns

LNext ==
    \/ LooperSteps \/ LimiterCompletes
    \/ Crash \/ Pause \/ Resume

LSpec == LInit /\ [][LNext]_lvars

(***************************************************************************)
(* Fairness.  Run is a goroutine that keeps running while it has a step;   *)
(* the market is assumed to fill a resting order eventually and to take   *)
(* the ticker above the buy price eventually.  Pause, Resume and crashes   *)
(* are not fair: they are the operator's and the machine's.               *)
(***************************************************************************)
FairSpec ==
    /\ LSpec
    /\ WF_lvars(WaitForBuy) /\ WF_lvars(RunLastBuy) /\ WF_lvars(RunLastSell)
    /\ WF_lvars(Stop) /\ WF_lvars(AddNewSell) /\ WF_lvars(LimiterReturns)
    /\ WF_lvars(AddNewBuy) /\ WF_lvars(LimiterCompletes)

-----------------------------------------------------------------------------
LTypeOK ==
    /\ nb \in 0..MaxCycles /\ ns \in 0..MaxCycles
    /\ bp \in [Cycles -> -Overfill..BuySize] /\ sp \in [Cycles -> -Overfill..SellSize]
    /\ dbNb \in 0..MaxCycles /\ dbNs \in 0..MaxCycles
    /\ dbBp \in [Cycles -> -Overfill..BuySize] /\ dbSp \in [Cycles -> -Overfill..SellSize]
    /\ pc \in LooperPc
    /\ ctxDone \in BOOLEAN
    /\ crashes \in 0..MaxCrashes /\ faults \in 0..MaxErrors

(***************************************************************************)
(* The buys and sells alternate: there are as many sells as buys, or one  *)
(* buy more, in memory and in the stored uid list (spec: |buys| - |sells| *)
(* in {0, 1}).  Broken, two buys would be open with no sell between them. *)
(***************************************************************************)
CyclesBalanced ==
    /\ nb - ns \in {0, 1}
    /\ dbNb - dbNs \in {0, 1}

(***************************************************************************)
(* Every limiter the Looper has moved past is complete, in memory and in   *)
(* the store: each sell's buy, and each buy's previous sell.  The stored   *)
(* half holds because Looper.Save writes every limiter with the uid list, *)
(* so a restart never resumes a cycle whose buy the store thinks is open. *)
(***************************************************************************)
PassedComplete(n, m, b, s) ==
    /\ \A i \in 0..(m - 1) : b[i] = 0
    /\ \A i \in 0..(n - 2) : s[i] = 0
DoneBeforeNext ==
    /\ PassedComplete(nb, ns, bp, sp)
    /\ PassedComplete(dbNb, dbNs, dbBp, dbSp)

(***************************************************************************)
(* The Looper only runs limiters the store lists: an append whose save    *)
(* failed is rolled back.  Otherwise a limiter could trade, the process   *)
(* restart, and addNewBuy recreate the same uid from nothing, losing the   *)
(* orders the first one placed.                                            *)
(***************************************************************************)
ListsSaved == nb = dbNb /\ ns = dbNs

(***************************************************************************)
(* Liveness, as spec.md's Looper promises it: unless the job stays paused, *)
(* the Looper runs all its cycles to completion, across failed saves,      *)
(* failed limiter runs and restarts.  An overfilled limiter breaks it: its *)
(* Run never returns nil and Run's dispatch (line 109) reruns it forever.  *)
(***************************************************************************)
AllCyclesComplete ==
    (<>[]~ctxDone) => <>(ns = MaxCycles /\ LastSellDone)

(***************************************************************************)
(* The same, for the behaviours in which no limiter is overfilled: then    *)
(* the retries, the rollbacks and the restarts never keep the Looper from  *)
(* finishing its cycles.                                                   *)
(***************************************************************************)
Overfilled == \E i \in Cycles : bp[i] < 0 \/ sp[i] < 0
CyclesCompleteUnlessOverfilled ==
    (<>[]~ctxDone /\ []~Overfilled) => <>(ns = MaxCycles /\ LastSellDone)

(***************************************************************************)
(* The invariant behind CyclesBalanced, DoneBeforeNext and ListsSaved,     *)
(* strong enough to be inductive.  Run is on the last buy only while its   *)
(* sell does not exist yet, and on the last sell only once the cycle has   *)
(* both; the ticker wait of addNewBuy keeps the condition Run checked      *)
(* before it, since nothing else of the Looper moves meanwhile.            *)
(***************************************************************************)
RunningLast ==
    /\ pc = "runbuy" => nb > 0 /\ ns = nb - 1
    /\ pc = "runsell" => ns > 0 /\ ns = nb
WaitingAfterCycle ==
    pc = "waitbuy" => nb = 0 \/ (LastBuyDone /\ ns >= nb /\ LastSellDone)
LInv ==
    /\ LTypeOK
    /\ CyclesBalanced
    /\ DoneBeforeNext
    /\ ListsSaved
    /\ RunningLast
    /\ WaitingAfterCycle

(***************************************************************************)
(* The limiter slots beyond the lists are untouched, in memory and in the  *)
(* store: limiter buy-i does not exist before the i-th append is saved,   *)
(* so a restart never loads a trace of an append that was rolled back.    *)
(***************************************************************************)
SlotsFresh ==
    \A i \in Cycles :
        /\ i >= nb => bp[i] = BuySize /\ dbBp[i] = BuySize
        /\ i >= ns => sp[i] = SellSize /\ dbSp[i] = SellSize

(***************************************************************************)
(* Refinement: every limiter the Looper runs keeps its own contract        *)
(* (LimiterAbstract) across the Looper's saves, rollbacks and restarts:    *)
(* its pending size only goes down, the Looper's save records it, and a    *)
(* restart resumes from what its key holds.  Broken, addNewBuy would       *)
(* recreate a limiter that had already traded under the same uid and      *)
(* order its size again.                                                   *)
(***************************************************************************)
BuyLim(i) == INSTANCE LimiterAbstract WITH
                 Size <- BuySize, pending <- bp[i], savedPending <- dbBp[i]
SellLim(i) == INSTANCE LimiterAbstract WITH
                  Size <- SellSize, pending <- sp[i], savedPending <- dbSp[i]
\* \A i \in Cycles : BuyLim(i)!ASpec /\ SellLim(i)!ASpec, with the quantifier
\* moved inside the box (the slots are a constant set).
SlotsInit == \A i \in Cycles : BuyLim(i)!AInit /\ SellLim(i)!AInit
SlotStep ==
    \A i \in Cycles : /\ [BuyLim(i)!ANext]_(BuyLim(i)!avars)
                     /\ [SellLim(i)!ANext]_(SellLim(i)!avars)
SlotsRefine == SlotsInit /\ [][SlotStep]_lvars

=============================================================================
