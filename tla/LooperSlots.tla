----------------------------- MODULE LooperSlots -----------------------------
(***************************************************************************)
(* Proofs, for every size and bound, that every limiter slot of the Looper *)
(* keeps the contract of LimiterAbstract (SlotsRefine), with the slots     *)
(* beyond the lists untouched (SlotsFresh) as the invariant it rests on.  *)
(***************************************************************************)
EXTENDS LooperProofs

USE SizesAssumption, LooperBoundsAssumption

\* The two moves of a limiter's pending size, on the Looper's variables.
SlotProgress(p, d, i) == p'[i] <= p[i] /\ d'[i] \in {d[i], p'[i]}
SlotRestart(p, d, i) == p'[i] = d[i] /\ d'[i] = d[i]
SlotMoves(i) ==
    /\ SlotProgress(bp, dbBp, i) \/ SlotRestart(bp, dbBp, i)
    /\ SlotProgress(sp, dbSp, i) \/ SlotRestart(sp, dbSp, i)

\* Those moves are the steps of the two instances of LimiterAbstract.
LEMMA SlotMovesAbstract ==
    ASSUME NEW i \in Cycles, SlotMoves(i)
    PROVE  /\ [BuyLim(i)!ANext]_(BuyLim(i)!avars)
           /\ [SellLim(i)!ANext]_(SellLim(i)!avars)
  BY DEF SlotMoves, SlotProgress, SlotRestart, BuyLim!ANext, BuyLim!Progress,
         BuyLim!Restart, SellLim!ANext, SellLim!Progress, SellLim!Restart

\* What each step of the Looper is shown to satisfy.
SlotsGoal == SlotsFresh' /\ \A i \in Cycles : SlotMoves(i)

\* A step that touches neither the lists nor the store moves no slot.
LEMMA FrozenSlots ==
    ASSUME LInvCore, SlotsFresh, UNCHANGED <<memVars, dbVars>>
    PROVE  SlotsGoal
<1>1. UNCHANGED <<nb, ns, bp, sp, dbNb, dbNs, dbBp, dbSp>>
  BY DEF memVars, dbVars
<1>2. SlotsFresh'
  BY <1>1 DEF SlotsFresh
<1>3. ASSUME NEW i \in Cycles PROVE SlotMoves(i)
  <2>1. bp[i] \in Int /\ sp[i] \in Int
    BY DEF LInvCore, LNumType
  <2>. QED BY <1>1, <2>1 DEF SlotMoves, SlotProgress
<1>. QED BY <1>2, <1>3 DEF SlotsGoal

\* addNewBuy's saved append: the new buy is the fresh slot nb, so its
\* pending size stays BuySize; Looper.Save records the listed slots.
LEMMA AppendBuySlots ==
    ASSUME LInvCore, SlotsFresh, nb < MaxCycles,
           nb' = nb + 1, bp' = [bp EXCEPT ![nb] = BuySize],
           UNCHANGED <<ns, sp>>, SaveLooper
    PROVE  SlotsGoal
<1>. USE DEF LInvCore, LNumType, Cycles
<1>1. /\ dbNb' = nb' /\ dbNs' = ns'
      /\ dbBp' = [i \in Cycles |-> IF i < nb' THEN bp'[i] ELSE dbBp[i]]
      /\ dbSp' = [i \in Cycles |-> IF i < ns' THEN sp'[i] ELSE dbSp[i]]
  BY DEF SaveLooper
<1>2. nb \in Cycles /\ bp[nb] = BuySize
  BY DEF SlotsFresh
<1>3. \A i \in Cycles : bp'[i] = bp[i]
  BY <1>2
<1>4. SlotsFresh'
  BY <1>1, <1>3 DEF SlotsFresh
<1>5. ASSUME NEW i \in Cycles PROVE SlotMoves(i)
  <2>1. SlotProgress(bp, dbBp, i)
    BY <1>1, <1>3 DEF SlotProgress
  <2>2. SlotProgress(sp, dbSp, i)
    BY <1>1 DEF SlotProgress
  <2>. QED BY <2>1, <2>2 DEF SlotMoves
<1>. QED BY <1>4, <1>5 DEF SlotsGoal

\* addNewSell's saved append, the same for the fresh sell slot ns.
LEMMA AppendSellSlots ==
    ASSUME LInvCore, SlotsFresh, ns < nb,
           ns' = ns + 1, sp' = [sp EXCEPT ![ns] = SellSize],
           UNCHANGED <<nb, bp>>, SaveLooper
    PROVE  SlotsGoal
<1>. USE DEF LInvCore, LNumType, Cycles
<1>1. /\ dbNb' = nb' /\ dbNs' = ns'
      /\ dbBp' = [i \in Cycles |-> IF i < nb' THEN bp'[i] ELSE dbBp[i]]
      /\ dbSp' = [i \in Cycles |-> IF i < ns' THEN sp'[i] ELSE dbSp[i]]
  BY DEF SaveLooper
<1>2. ns \in Cycles /\ sp[ns] = SellSize
  BY DEF SlotsFresh
<1>3. \A i \in Cycles : sp'[i] = sp[i]
  BY <1>2
<1>4. SlotsFresh'
  BY <1>1, <1>3 DEF SlotsFresh
<1>5. ASSUME NEW i \in Cycles PROVE SlotMoves(i)
  <2>1. SlotProgress(bp, dbBp, i)
    BY <1>1 DEF SlotProgress
  <2>2. SlotProgress(sp, dbSp, i)
    BY <1>1, <1>3 DEF SlotProgress
  <2>. QED BY <2>1, <2>2 DEF SlotMoves
<1>. QED BY <1>4, <1>5 DEF SlotsGoal

\* last.Run moves the last listed limiter of the side Run is on, only.
LEMMA ProgressSlots ==
    ASSUME LInvCore, SlotsFresh, LimiterProgress
    PROVE  SlotsGoal
<1>0. /\ nb \in 0..MaxCycles /\ ns \in 0..MaxCycles
      /\ bp \in [Cycles -> -Overfill..BuySize] /\ sp \in [Cycles -> -Overfill..SellSize]
      /\ dbBp \in [Cycles -> -Overfill..BuySize] /\ dbSp \in [Cycles -> -Overfill..SellSize]
  BY DEF LInvCore, LNumType
<1>1. UNCHANGED <<nb, ns, dbNb, dbNs>> /\ pc \in {"runbuy", "runsell"}
  BY DEF LimiterProgress
<1>2. CASE pc = "runbuy"
  <2>1. PICK v \in -Overfill..bp[nb - 1] :
            /\ bp' = [bp EXCEPT ![nb - 1] = v]
            /\ dbBp' \in {dbBp, [dbBp EXCEPT ![nb - 1] = v]}
            /\ UNCHANGED <<sp, dbSp>>
    BY <1>2 DEF LimiterProgress
  <2>2. /\ nb \in 1..MaxCycles /\ BuySize \in Nat
        /\ bp \in [Cycles -> -Overfill..BuySize] /\ dbBp \in [Cycles -> -Overfill..BuySize]
    BY <1>2 DEF LInvCore, LNumType, RunningLast
  <2>3. \A i \in Cycles : /\ bp'[i] <= bp[i]
                          /\ dbBp'[i] \in {dbBp[i], bp'[i]}
                          /\ i # nb - 1 => bp'[i] = bp[i] /\ dbBp'[i] = dbBp[i]
    <3>1. CASE dbBp' = dbBp
      BY <2>1, <2>2, <3>1 DEF Cycles
    <3>2. CASE dbBp' = [dbBp EXCEPT ![nb - 1] = v]
      BY <2>1, <2>2, <3>2 DEF Cycles
    <3>. QED BY <2>1, <3>1, <3>2
  <2>4. SlotsFresh'
    BY <1>0, <1>1, <2>1, <2>3 DEF SlotsFresh, Cycles
  <2>5. ASSUME NEW i \in Cycles PROVE SlotMoves(i)
    <3>1. SlotProgress(bp, dbBp, i)
      BY <2>3 DEF SlotProgress
    <3>2. SlotProgress(sp, dbSp, i)
      BY <1>0, <2>1 DEF SlotProgress
    <3>. QED BY <3>1, <3>2 DEF SlotMoves
  <2>. QED BY <2>4, <2>5 DEF SlotsGoal
<1>3. CASE pc = "runsell"
  <2>1. PICK v \in -Overfill..sp[ns - 1] :
            /\ sp' = [sp EXCEPT ![ns - 1] = v]
            /\ dbSp' \in {dbSp, [dbSp EXCEPT ![ns - 1] = v]}
            /\ UNCHANGED <<bp, dbBp>>
    BY <1>3 DEF LimiterProgress
  <2>2. /\ ns \in 1..MaxCycles /\ SellSize \in Nat
        /\ sp \in [Cycles -> -Overfill..SellSize] /\ dbSp \in [Cycles -> -Overfill..SellSize]
    BY <1>3 DEF LInvCore, LNumType, RunningLast
  <2>3. \A i \in Cycles : /\ sp'[i] <= sp[i]
                          /\ dbSp'[i] \in {dbSp[i], sp'[i]}
                          /\ i # ns - 1 => sp'[i] = sp[i] /\ dbSp'[i] = dbSp[i]
    <3>1. CASE dbSp' = dbSp
      BY <2>1, <2>2, <3>1 DEF Cycles
    <3>2. CASE dbSp' = [dbSp EXCEPT ![ns - 1] = v]
      BY <2>1, <2>2, <3>2 DEF Cycles
    <3>. QED BY <2>1, <3>1, <3>2
  <2>4. SlotsFresh'
    BY <1>0, <1>1, <2>1, <2>3 DEF SlotsFresh, Cycles
  <2>5. ASSUME NEW i \in Cycles PROVE SlotMoves(i)
    <3>1. SlotProgress(bp, dbBp, i)
      BY <1>0, <2>1 DEF SlotProgress
    <3>2. SlotProgress(sp, dbSp, i)
      BY <2>3 DEF SlotProgress
    <3>. QED BY <3>1, <3>2 DEF SlotMoves
  <2>. QED BY <2>4, <2>5 DEF SlotsGoal
<1>. QED BY <1>1, <1>2, <1>3

\* Finish writes the completed limiter, in memory and under its key; only a
\* limiter that is not overfilled completes, so its pending size goes down.
LEMMA CompletesSlots ==
    ASSUME LInvCore, SlotsFresh, LimiterCompletes
    PROVE  SlotsGoal
<1>0. /\ nb \in 0..MaxCycles /\ ns \in 0..MaxCycles
      /\ bp \in [Cycles -> -Overfill..BuySize] /\ sp \in [Cycles -> -Overfill..SellSize]
      /\ dbBp \in [Cycles -> -Overfill..BuySize] /\ dbSp \in [Cycles -> -Overfill..SellSize]
  BY DEF LInvCore, LNumType
<1>1. UNCHANGED <<nb, ns, dbNb, dbNs>> /\ pc \in {"runbuy", "runsell"}
  BY DEF LimiterCompletes
<1>2. CASE pc = "runbuy"
  <2>1. /\ bp[nb - 1] >= 0
        /\ bp' = [bp EXCEPT ![nb - 1] = 0]
        /\ dbBp' = [dbBp EXCEPT ![nb - 1] = 0]
        /\ UNCHANGED <<sp, dbSp>>
    BY <1>2 DEF LimiterCompletes
  <2>2. /\ nb \in 1..MaxCycles /\ BuySize \in Nat
        /\ bp \in [Cycles -> -Overfill..BuySize] /\ dbBp \in [Cycles -> -Overfill..BuySize]
    BY <1>2 DEF LInvCore, LNumType, RunningLast
  <2>3. SlotsFresh'
    BY <1>0, <1>1, <2>1, <2>2 DEF SlotsFresh, Cycles
  <2>4. ASSUME NEW i \in Cycles PROVE SlotMoves(i)
    <3>1. SlotProgress(bp, dbBp, i)
      BY <2>1, <2>2 DEF SlotProgress
    <3>2. SlotProgress(sp, dbSp, i)
      BY <1>0, <2>1 DEF SlotProgress
    <3>. QED BY <3>1, <3>2 DEF SlotMoves
  <2>. QED BY <2>3, <2>4 DEF SlotsGoal
<1>3. CASE pc = "runsell"
  <2>1. /\ sp[ns - 1] >= 0
        /\ sp' = [sp EXCEPT ![ns - 1] = 0]
        /\ dbSp' = [dbSp EXCEPT ![ns - 1] = 0]
        /\ UNCHANGED <<bp, dbBp>>
    BY <1>3 DEF LimiterCompletes
  <2>2. /\ ns \in 1..MaxCycles /\ SellSize \in Nat
        /\ sp \in [Cycles -> -Overfill..SellSize] /\ dbSp \in [Cycles -> -Overfill..SellSize]
    BY <1>3 DEF LInvCore, LNumType, RunningLast
  <2>3. SlotsFresh'
    BY <1>0, <1>1, <2>1, <2>2 DEF SlotsFresh, Cycles
  <2>4. ASSUME NEW i \in Cycles PROVE SlotMoves(i)
    <3>1. SlotProgress(bp, dbBp, i)
      BY <1>0, <2>1 DEF SlotProgress
    <3>2. SlotProgress(sp, dbSp, i)
      BY <2>1, <2>2 DEF SlotProgress
    <3>. QED BY <3>1, <3>2 DEF SlotMoves
  <2>. QED BY <2>3, <2>4 DEF SlotsGoal
<1>. QED BY <1>1, <1>2, <1>3

\* A restart loads every limiter from its key: each slot restarts from
\* what it saved, and the lists are the stored ones (ListsSaved).
LEMMA CrashSlots ==
    ASSUME LInvCore, SlotsFresh, Crash
    PROVE  SlotsGoal
<1>1. /\ nb' = dbNb /\ ns' = dbNs /\ bp' = dbBp /\ sp' = dbSp
      /\ UNCHANGED <<dbNb, dbNs, dbBp, dbSp>>
  BY DEF Crash, dbVars
<1>2. nb = dbNb /\ ns = dbNs
  BY DEF LInvCore, ListsSaved
<1>3. SlotsFresh'
  BY <1>1, <1>2 DEF SlotsFresh
<1>4. \A i \in Cycles : SlotMoves(i)
  BY <1>1 DEF SlotMoves, SlotRestart
<1>. QED BY <1>3, <1>4 DEF SlotsGoal

LEMMA SlotsStep == LInv /\ SlotsFresh /\ [LNext]_lvars => SlotsGoal
<1>. SUFFICES ASSUME LInv, SlotsFresh, [LNext]_lvars PROVE SlotsGoal
  OBVIOUS
<1>1. LInvCore
  BY LInvParts
<1>2. CASE UNCHANGED lvars
  BY <1>1, <1>2, FrozenSlots DEF lvars
<1>3. CASE WaitForBuy \/ RunLastBuy \/ RunLastSell \/ Stop \/ LimiterReturns
           \/ Pause \/ Resume
  <2>1. UNCHANGED <<memVars, dbVars>>
    BY <1>3 DEF WaitForBuy, RunLastBuy, RunLastSell, Stop, LimiterReturns,
                Pause, Resume
  <2>. QED BY <1>1, <2>1, FrozenSlots
<1>4. CASE AddNewBuy
  <2>1. nb < MaxCycles
    BY <1>4 DEF AddNewBuy
  <2>2. CASE SaveFails /\ UNCHANGED memVars
    BY <1>1, <2>2, FrozenSlots DEF SaveFails
  <2>3. CASE /\ nb' = nb + 1 /\ bp' = [bp EXCEPT ![nb] = BuySize]
             /\ UNCHANGED <<ns, sp>> /\ SaveLooper /\ UNCHANGED faults
    BY <1>1, <2>1, <2>3, AppendBuySlots
  <2>. QED BY <1>4, <2>2, <2>3 DEF AddNewBuy, Append
<1>5. CASE AddNewSell
  <2>1. ns < nb
    BY <1>5 DEF AddNewSell
  <2>2. CASE SaveFails /\ UNCHANGED memVars
    BY <1>1, <2>2, FrozenSlots DEF SaveFails
  <2>3. CASE /\ ns' = ns + 1 /\ sp' = [sp EXCEPT ![ns] = SellSize]
             /\ UNCHANGED <<nb, bp>> /\ SaveLooper /\ UNCHANGED faults
    BY <1>1, <2>1, <2>3, AppendSellSlots
  <2>. QED BY <1>5, <2>2, <2>3 DEF AddNewSell, Append
<1>6. CASE LimiterProgress
  BY <1>1, <1>6, ProgressSlots
<1>7. CASE LimiterCompletes
  BY <1>1, <1>7, CompletesSlots
<1>8. CASE Crash
  BY <1>1, <1>8, CrashSlots
<1>. QED BY <1>2, <1>3, <1>4, <1>5, <1>6, <1>7, <1>8 DEF LNext, LooperSteps

LEMMA InitSlots == LInit => SlotsFresh /\ SlotsInit
  BY DEF LInit, SlotsFresh, SlotsInit, BuyLim!AInit, SellLim!AInit

(***************************************************************************)
(* The slots beyond the Looper's lists are untouched, in memory and in the *)
(* store (SlotsFresh), for every size and bound: addNewBuy and addNewSell  *)
(* take the next fresh slot, a failed save rolls the append back, and a    *)
(* restart loads the stored lists with the stored limiters.                *)
(***************************************************************************)
THEOREM SlotsAlwaysFresh == LSpec => [](LInv /\ SlotsFresh)
<1>1. LInit => LInv /\ SlotsFresh
  BY InitLInv, InitSlots
<1>2. LInv /\ SlotsFresh /\ [LNext]_lvars => (LInv /\ SlotsFresh)'
  BY NextLInv, SlotsStep DEF SlotsGoal
<1>. QED BY <1>1, <1>2, PTL DEF LSpec

(***************************************************************************)
(* Every limiter the Looper runs keeps the contract of LimiterAbstract     *)
(* (SlotsRefine), for every size and bound: across the Looper's appends,   *)
(* saves, rollbacks and restarts, a limiter's pending size only goes down  *)
(* or restarts from what its key holds, and a save records it.             *)
(***************************************************************************)
THEOREM LooperRefinesLimiters == LSpec => SlotsRefine
<1>1. LInit => SlotsInit
  BY InitSlots
<1>2. LInv /\ SlotsFresh /\ [LNext]_lvars => [SlotStep]_lvars
  <2>. SUFFICES ASSUME LInv, SlotsFresh, [LNext]_lvars PROVE SlotStep
    OBVIOUS
  <2>1. \A i \in Cycles : SlotMoves(i)
    BY SlotsStep DEF SlotsGoal
  <2>. QED BY <2>1, SlotMovesAbstract DEF SlotStep
<1>. QED BY <1>1, <1>2, SlotsAlwaysFresh, PTL DEF LSpec, SlotsRefine
=============================================================================
