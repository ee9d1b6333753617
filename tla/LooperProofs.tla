---------------------------- MODULE LooperProofs ----------------------------
(***************************************************************************)
(* Proofs, for every size and bound, that the Looper keeps its cycles      *)
(* balanced, never moves past an incomplete limiter and runs only listed   *)
(* limiters: LInv is inductive, with one lemma per action.                 *)
(***************************************************************************)
EXTENDS Looper, TLAPS

USE SizesAssumption, LooperBoundsAssumption

\* LTypeOK without the Boolean ctxDone, and LInv with it: the SMT solver
\* proves the arithmetic part of each step, Zenon the Boolean one.
LNumType ==
    /\ nb \in 0..MaxCycles /\ ns \in 0..MaxCycles
    /\ bp \in [Cycles -> -Overfill..BuySize] /\ sp \in [Cycles -> -Overfill..SellSize]
    /\ dbNb \in 0..MaxCycles /\ dbNs \in 0..MaxCycles
    /\ dbBp \in [Cycles -> -Overfill..BuySize] /\ dbSp \in [Cycles -> -Overfill..SellSize]
    /\ pc \in LooperPc
    /\ crashes \in 0..MaxCrashes /\ faults \in 0..MaxErrors
LInvCore ==
    /\ LNumType
    /\ CyclesBalanced
    /\ DoneBeforeNext
    /\ ListsSaved
    /\ RunningLast
    /\ WaitingAfterCycle

LEMMA LInvParts == LInv <=> LInvCore /\ ctxDone \in BOOLEAN
  BY Zenon DEF LInv, LInvCore, LTypeOK, LNumType

LEMMA InitCore == LInit => LInvCore
  BY DEF LInit, LInvCore, LNumType, Cycles, LooperPc, CyclesBalanced,
         DoneBeforeNext, PassedComplete, ListsSaved, RunningLast,
         WaitingAfterCycle

LEMMA InitLInv == LInit => LInv
<1>1. LInit => ctxDone \in BOOLEAN
  BY DEF LInit
<1>. QED BY <1>1, InitCore, LInvParts

\* Changing one limiter's pending size within its bound keeps the type.
LEMMA PendingType ==
    ASSUME NEW B \in Nat, NEW f \in [Cycles -> -Overfill..B], NEW x \in Cycles,
           NEW v \in -Overfill..B
    PROVE  [f EXCEPT ![x] = v] \in [Cycles -> -Overfill..B]
  OBVIOUS

\* The pending sizes Looper.Save writes: the listed ones from memory.
LEMMA SavedType ==
    ASSUME NEW B \in Nat, NEW f \in [Cycles -> -Overfill..B], NEW g \in [Cycles -> -Overfill..B],
           NEW n \in Int
    PROVE  [i \in Cycles |-> IF i < n THEN f[i] ELSE g[i]] \in [Cycles -> -Overfill..B]
  OBVIOUS

\* The dispatch steps move pc only.
LEMMA DispatchCore ==
    ASSUME LInvCore, WaitForBuy \/ RunLastBuy \/ RunLastSell \/ Stop
    PROVE  LInvCore'
<1>1. UNCHANGED <<nb, ns, bp, sp, dbNb, dbNs, dbBp, dbSp, crashes, faults>>
  BY DEF WaitForBuy, RunLastBuy, RunLastSell, Stop, memVars, dbVars
<1>2. CASE WaitForBuy
  <2>1. pc' = "waitbuy" /\ (nb = 0 \/ (LastBuyDone /\ ns >= nb /\ LastSellDone))
    BY <1>2 DEF WaitForBuy
  <2>. QED BY <1>1, <2>1 DEF LInvCore, LNumType, LooperPc, CyclesBalanced,
                          DoneBeforeNext, PassedComplete, ListsSaved,
                          RunningLast, WaitingAfterCycle, LastBuyDone,
                          LastSellDone
<1>3. CASE RunLastBuy
  <2>1. pc' = "runbuy" /\ nb > 0 /\ bp[nb - 1] # 0
    BY <1>3 DEF RunLastBuy
  <2>2. ns = nb - 1
    BY <2>1 DEF LInvCore, LNumType, CyclesBalanced, DoneBeforeNext,
                PassedComplete
  <2>. QED BY <1>1, <2>1, <2>2 DEF LInvCore, LNumType, LooperPc,
                                CyclesBalanced, DoneBeforeNext, PassedComplete,
                                ListsSaved, RunningLast, WaitingAfterCycle
<1>4. CASE RunLastSell
  <2>1. pc' = "runsell" /\ ns > 0 /\ ns >= nb
    BY <1>4 DEF RunLastSell
  <2>. QED BY <1>1, <2>1 DEF LInvCore, LNumType, LooperPc, CyclesBalanced,
                          DoneBeforeNext, PassedComplete, ListsSaved,
                          RunningLast, WaitingAfterCycle
<1>5. CASE Stop
  <2>1. pc' = "stopped"
    BY <1>5 DEF Stop
  <2>. QED BY <1>1, <2>1 DEF LInvCore, LNumType, LooperPc, CyclesBalanced,
                          DoneBeforeNext, PassedComplete, ListsSaved,
                          RunningLast, WaitingAfterCycle
<1>. QED BY <1>2, <1>3, <1>4, <1>5

\* A failed save of an append leaves the lists and the store as they are;
\* Run goes back to the top of its loop.
LEMMA SaveFailsCore ==
    ASSUME LInvCore, SaveFails, UNCHANGED memVars, UNCHANGED crashes,
           pc' = "loop"
    PROVE  LInvCore'
<1>1. UNCHANGED <<nb, ns, bp, sp, dbNb, dbNs, dbBp, dbSp, crashes>>
      /\ faults' = faults + 1 /\ faults < MaxErrors
  BY DEF SaveFails, memVars, dbVars
<1>. QED BY <1>1 DEF LInvCore, LNumType, LooperPc, CyclesBalanced,
                  DoneBeforeNext, PassedComplete, ListsSaved, RunningLast,
                  WaitingAfterCycle

\* addNewBuy after a complete cycle appends a fresh buy and saves it.
LEMMA AddNewBuyCore ==
    ASSUME LInvCore, AddNewBuy
    PROVE  LInvCore'
<1>1. pc = "waitbuy" /\ nb < MaxCycles /\ pc' = "loop" /\ UNCHANGED crashes
  BY DEF AddNewBuy
<1>2. CASE SaveFails /\ UNCHANGED memVars
  BY <1>1, <1>2, SaveFailsCore
<1>3. CASE /\ nb' = nb + 1 /\ bp' = [bp EXCEPT ![nb] = BuySize]
           /\ UNCHANGED <<ns, sp>> /\ SaveLooper /\ UNCHANGED faults
  <2>. USE DEF LInvCore, LNumType, Cycles
  <2>1. nb = 0 \/ (bp[nb - 1] = 0 /\ ns = nb /\ sp[ns - 1] = 0)
    BY <1>1 DEF WaitingAfterCycle, CyclesBalanced, LastBuyDone, LastSellDone
  <2>2. /\ dbNb' = nb' /\ dbNs' = ns'
        /\ dbBp' = [i \in Cycles |-> IF i < nb' THEN bp'[i] ELSE dbBp[i]]
        /\ dbSp' = [i \in Cycles |-> IF i < ns' THEN sp'[i] ELSE dbSp[i]]
    BY <1>3 DEF SaveLooper
  <2>3. /\ nb' = nb + 1 /\ ns' = ns /\ dbNb' = nb' /\ dbNs' = ns'
        /\ sp' = sp /\ faults' = faults /\ ns <= nb
    BY <1>3, <2>2 DEF CyclesBalanced
  <2>4. LNumType'
    <3>1. bp' \in [Cycles -> -Overfill..BuySize]
      BY <1>1, <1>3, PendingType
    <3>2. dbBp' \in [Cycles -> -Overfill..BuySize] /\ dbSp' \in [Cycles -> -Overfill..SellSize]
      BY <2>2, <2>3, <3>1, SavedType
    <3>3. /\ nb' \in 0..MaxCycles /\ ns' \in 0..MaxCycles
          /\ dbNb' \in 0..MaxCycles /\ dbNs' \in 0..MaxCycles
      BY <1>1, <2>3
    <3>4. crashes' \in 0..MaxCrashes /\ faults' \in 0..MaxErrors /\ pc' \in LooperPc
      BY <1>1, <2>3 DEF LooperPc
    <3>5. sp' \in [Cycles -> -Overfill..SellSize]
      BY <2>3
    <3>. QED BY <3>1, <3>2, <3>3, <3>4, <3>5
  <2>5. CyclesBalanced' /\ ListsSaved'
    BY <2>1, <2>3 DEF CyclesBalanced, ListsSaved
  <2>6. PassedComplete(nb, ns, bp, sp)'
    <3>1. \A i \in 0..(ns - 1) : bp'[i] = 0
      BY <1>1, <1>3, <2>3 DEF DoneBeforeNext, PassedComplete
    <3>2. \A i \in 0..(nb' - 2) : sp'[i] = 0
      <4>1. \A i \in 0..(nb - 2) : sp[i] = 0
        BY DEF DoneBeforeNext, PassedComplete
      <4>2. CASE nb = 0
        BY <2>3, <4>2
      <4>3. CASE bp[nb - 1] = 0 /\ ns = nb /\ sp[ns - 1] = 0
        <5>1. nb \in Nat /\ nb' = nb + 1 /\ sp' = sp /\ sp[nb - 1] = 0
          BY <2>3, <4>3
        <5>2. SUFFICES ASSUME NEW i \in 0..(nb - 1) PROVE sp[i] = 0
          BY <5>1
        <5>3. CASE i = nb - 1
          BY <5>1, <5>3
        <5>4. CASE i # nb - 1
          BY <4>1, <5>1, <5>4
        <5>. QED BY <5>3, <5>4
      <4>. QED BY <2>1, <4>2, <4>3
    <3>. QED BY <2>3, <3>1, <3>2 DEF PassedComplete
  <2>7. PassedComplete(dbNb, dbNs, dbBp, dbSp)'
    <3>1. \A i \in 0..(ns - 1) : dbBp'[i] = bp'[i]
      BY <1>1, <2>2, <2>3
    <3>2. \A i \in 0..(nb - 1) : dbSp'[i] = sp'[i]
      BY <1>1, <2>1, <2>2, <2>3
    <3>3. \A i \in 0..(dbNs' - 1) : dbBp'[i] = 0
      BY <2>3, <2>6, <3>1 DEF PassedComplete
    <3>4. \A i \in 0..(dbNb' - 2) : dbSp'[i] = 0
      BY <2>3, <2>6, <3>2 DEF PassedComplete
    <3>. QED BY <3>3, <3>4 DEF PassedComplete
  <2>8. RunningLast' /\ WaitingAfterCycle'
    BY <1>1 DEF RunningLast, WaitingAfterCycle
  <2>. QED BY <2>4, <2>5, <2>6, <2>7, <2>8 DEF DoneBeforeNext
<1>. QED BY <1>2, <1>3 DEF AddNewBuy, Append

\* addNewSell after a complete buy appends the cycle's sell and saves it.
LEMMA AddNewSellCore ==
    ASSUME LInvCore, AddNewSell
    PROVE  LInvCore'
<1>1. pc = "loop" /\ bp[nb - 1] = 0 /\ nb > 0 /\ ns < nb /\ UNCHANGED pc
      /\ UNCHANGED crashes
  BY DEF AddNewSell, LastBuyDone
<1>2. CASE SaveFails /\ UNCHANGED memVars
  BY <1>1, <1>2, SaveFailsCore
<1>3. CASE /\ ns' = ns + 1 /\ sp' = [sp EXCEPT ![ns] = SellSize]
           /\ UNCHANGED <<nb, bp>> /\ SaveLooper /\ UNCHANGED faults
  <2>. USE DEF LInvCore, LNumType, Cycles
  <2>1. ns = nb - 1
    BY <1>1 DEF CyclesBalanced
  <2>2. /\ dbNb' = nb' /\ dbNs' = ns'
        /\ dbBp' = [i \in Cycles |-> IF i < nb' THEN bp'[i] ELSE dbBp[i]]
        /\ dbSp' = [i \in Cycles |-> IF i < ns' THEN sp'[i] ELSE dbSp[i]]
    BY <1>3 DEF SaveLooper
  <2>3. /\ nb' = nb /\ ns' = ns + 1 /\ dbNb' = nb' /\ dbNs' = ns'
        /\ bp' = bp /\ faults' = faults
    BY <1>3, <2>2
  <2>4. LNumType'
    <3>1. sp' \in [Cycles -> -Overfill..SellSize]
      BY <1>1, <1>3, <2>1, PendingType
    <3>2. dbBp' \in [Cycles -> -Overfill..BuySize] /\ dbSp' \in [Cycles -> -Overfill..SellSize]
      BY <2>2, <2>3, <3>1, SavedType
    <3>3. /\ nb' \in 0..MaxCycles /\ ns' \in 0..MaxCycles
          /\ dbNb' \in 0..MaxCycles /\ dbNs' \in 0..MaxCycles
      BY <1>1, <2>1, <2>3
    <3>4. crashes' \in 0..MaxCrashes /\ faults' \in 0..MaxErrors /\ pc' \in LooperPc
      BY <1>1, <2>3 DEF LooperPc
    <3>5. bp' \in [Cycles -> -Overfill..BuySize]
      BY <2>3
    <3>. QED BY <3>1, <3>2, <3>3, <3>4, <3>5
  <2>5. CyclesBalanced' /\ ListsSaved'
    BY <2>1, <2>3 DEF CyclesBalanced, ListsSaved
  <2>6. PassedComplete(nb, ns, bp, sp)'
    <3>1. \A i \in 0..(ns' - 1) : bp'[i] = 0
      <4>1. \A i \in 0..(ns - 1) : bp[i] = 0
        BY DEF DoneBeforeNext, PassedComplete
      <4>. QED BY <1>1, <2>1, <2>3, <4>1
    <3>2. \A i \in 0..(nb' - 2) : sp'[i] = 0
      BY <1>3, <2>1, <2>3 DEF DoneBeforeNext, PassedComplete
    <3>. QED BY <3>1, <3>2 DEF PassedComplete
  <2>7. PassedComplete(dbNb, dbNs, dbBp, dbSp)'
    <3>1. \A i \in 0..(ns' - 1) : dbBp'[i] = bp'[i]
      BY <1>1, <2>1, <2>2, <2>3
    <3>2. \A i \in 0..(nb - 2) : dbSp'[i] = sp'[i]
      BY <1>1, <2>1, <2>2, <2>3
    <3>3. \A i \in 0..(dbNs' - 1) : dbBp'[i] = 0
      BY <2>3, <2>6, <3>1 DEF PassedComplete
    <3>4. \A i \in 0..(dbNb' - 2) : dbSp'[i] = 0
      BY <2>1, <2>3, <2>6, <3>2 DEF PassedComplete
    <3>. QED BY <3>3, <3>4 DEF PassedComplete
  <2>8. RunningLast' /\ WaitingAfterCycle'
    BY <1>1 DEF RunningLast, WaitingAfterCycle
  <2>. QED BY <2>4, <2>5, <2>6, <2>7, <2>8 DEF DoneBeforeNext
<1>. QED BY <1>2, <1>3 DEF AddNewSell, Append

\* The running limiter lowers its own pending size, in memory and maybe in
\* the store; it is never one the Looper has moved past.
LEMMA LimiterProgressCore ==
    ASSUME LInvCore, LimiterProgress
    PROVE  LInvCore'
<1>1. UNCHANGED <<nb, ns, dbNb, dbNs, pc, crashes, faults>>
      /\ pc \in {"runbuy", "runsell"}
  BY DEF LimiterProgress
<1>2. CASE pc = "runbuy"
  <2>1. PICK v \in -Overfill..bp[nb - 1] :
            /\ bp' = [bp EXCEPT ![nb - 1] = v]
            /\ dbBp' \in {dbBp, [dbBp EXCEPT ![nb - 1] = v]}
            /\ UNCHANGED <<sp, dbSp>>
    BY <1>2 DEF LimiterProgress
  <2>2. nb > 0 /\ ns = nb - 1 /\ dbNb = nb /\ dbNs = ns
    BY <1>2 DEF LInvCore, RunningLast, ListsSaved
  <2>3. LNumType'
    <3>1. nb - 1 \in Cycles /\ v \in -Overfill..BuySize
      BY <2>1, <2>2 DEF LInvCore, LNumType, Cycles
    <3>2. bp' \in [Cycles -> -Overfill..BuySize] /\ dbBp' \in [Cycles -> -Overfill..BuySize]
      BY <2>1, <3>1, PendingType DEF LInvCore, LNumType
    <3>3. /\ nb' \in 0..MaxCycles /\ ns' \in 0..MaxCycles
          /\ dbNb' \in 0..MaxCycles /\ dbNs' \in 0..MaxCycles
          /\ pc' \in LooperPc /\ crashes' \in 0..MaxCrashes
          /\ faults' \in 0..MaxErrors
          /\ sp' \in [Cycles -> -Overfill..SellSize] /\ dbSp' \in [Cycles -> -Overfill..SellSize]
      BY <1>1, <2>1 DEF LInvCore, LNumType, LooperPc
    <3>. QED BY <3>2, <3>3 DEF LNumType
  <2>4. CyclesBalanced' /\ ListsSaved'
    BY <1>1, <1>2, <2>1, <2>2 DEF LInvCore, LNumType, CyclesBalanced, ListsSaved
  <2>5. PassedComplete(nb, ns, bp, sp)'
    BY <1>1, <1>2, <2>1, <2>2 DEF LInvCore, LNumType, Cycles, DoneBeforeNext, PassedComplete
  <2>6. PassedComplete(dbNb, dbNs, dbBp, dbSp)'
    BY <1>1, <1>2, <2>1, <2>2, <2>5 DEF LInvCore, LNumType, Cycles, DoneBeforeNext,
                     PassedComplete
  <2>7. RunningLast' /\ WaitingAfterCycle'
    BY <1>1, <1>2, <2>1, <2>2 DEF LInvCore, LNumType, RunningLast, WaitingAfterCycle
  <2>. QED BY <2>3, <2>4, <2>5, <2>6, <2>7 DEF LInvCore, DoneBeforeNext
<1>3. CASE pc = "runsell"
  <2>1. PICK v \in -Overfill..sp[ns - 1] :
            /\ sp' = [sp EXCEPT ![ns - 1] = v]
            /\ dbSp' \in {dbSp, [dbSp EXCEPT ![ns - 1] = v]}
            /\ UNCHANGED <<bp, dbBp>>
    BY <1>3 DEF LimiterProgress
  <2>2. ns > 0 /\ ns = nb /\ dbNb = nb /\ dbNs = ns
    BY <1>3 DEF LInvCore, RunningLast, ListsSaved
  <2>3. LNumType'
    <3>1. ns - 1 \in Cycles /\ v \in -Overfill..SellSize
      BY <2>1, <2>2 DEF LInvCore, LNumType, Cycles
    <3>2. sp' \in [Cycles -> -Overfill..SellSize] /\ dbSp' \in [Cycles -> -Overfill..SellSize]
      BY <2>1, <3>1, PendingType DEF LInvCore, LNumType
    <3>3. /\ nb' \in 0..MaxCycles /\ ns' \in 0..MaxCycles
          /\ dbNb' \in 0..MaxCycles /\ dbNs' \in 0..MaxCycles
          /\ pc' \in LooperPc /\ crashes' \in 0..MaxCrashes
          /\ faults' \in 0..MaxErrors
          /\ bp' \in [Cycles -> -Overfill..BuySize] /\ dbBp' \in [Cycles -> -Overfill..BuySize]
      BY <1>1, <2>1 DEF LInvCore, LNumType, LooperPc
    <3>. QED BY <3>2, <3>3 DEF LNumType
  <2>4. CyclesBalanced' /\ ListsSaved'
    BY <1>1, <1>3, <2>1, <2>2 DEF LInvCore, LNumType, CyclesBalanced, ListsSaved
  <2>5. PassedComplete(nb, ns, bp, sp)'
    BY <1>1, <1>3, <2>1, <2>2 DEF LInvCore, LNumType, Cycles, DoneBeforeNext, PassedComplete
  <2>6. PassedComplete(dbNb, dbNs, dbBp, dbSp)'
    BY <1>1, <1>3, <2>1, <2>2, <2>5 DEF LInvCore, LNumType, Cycles, DoneBeforeNext,
                     PassedComplete
  <2>7. RunningLast' /\ WaitingAfterCycle'
    BY <1>1, <1>3, <2>1, <2>2 DEF LInvCore, LNumType, RunningLast, WaitingAfterCycle
  <2>. QED BY <2>3, <2>4, <2>5, <2>6, <2>7 DEF LInvCore, DoneBeforeNext
<1>. QED BY <1>1, <1>2, <1>3

\* The limiter's Run returns; the Looper is back at the top of its loop.
LEMMA LimiterReturnsCore ==
    ASSUME LInvCore, LimiterReturns
    PROVE  LInvCore'
<1>1. /\ UNCHANGED <<nb, ns, bp, sp, dbNb, dbNs, dbBp, dbSp, crashes>>
      /\ pc' = "loop"
      /\ faults' = faults \/ (faults < MaxErrors /\ faults' = faults + 1)
  BY Zenon DEF LimiterReturns, memVars, dbVars
<1>. QED BY <1>1 DEF LInvCore, LNumType, LooperPc, CyclesBalanced,
                  DoneBeforeNext, PassedComplete, ListsSaved, RunningLast,
                  WaitingAfterCycle

\* The running limiter completes, in memory and in the store.
LEMMA LimiterCompletesCore ==
    ASSUME LInvCore, LimiterCompletes
    PROVE  LInvCore'
<1>1. UNCHANGED <<nb, ns, dbNb, dbNs, crashes, faults>> /\ pc' = "loop"
      /\ pc \in {"runbuy", "runsell"}
  BY DEF LimiterCompletes
<1>2. CASE pc = "runbuy"
  <2>1. /\ bp' = [bp EXCEPT ![nb - 1] = 0] /\ dbBp' = [dbBp EXCEPT ![nb - 1] = 0]
        /\ UNCHANGED <<sp, dbSp>>
    BY <1>2 DEF LimiterCompletes
  <2>2. nb > 0 /\ ns = nb - 1 /\ dbNb = nb /\ dbNs = ns
    BY <1>2 DEF LInvCore, RunningLast, ListsSaved
  <2>3. LNumType'
    <3>1. nb - 1 \in Cycles
      BY <2>1, <2>2 DEF LInvCore, LNumType, Cycles
    <3>2. bp' \in [Cycles -> -Overfill..BuySize] /\ dbBp' \in [Cycles -> -Overfill..BuySize]
      BY <2>1, <3>1, PendingType DEF LInvCore, LNumType
    <3>3. /\ nb' \in 0..MaxCycles /\ ns' \in 0..MaxCycles
          /\ dbNb' \in 0..MaxCycles /\ dbNs' \in 0..MaxCycles
          /\ pc' \in LooperPc /\ crashes' \in 0..MaxCrashes
          /\ faults' \in 0..MaxErrors
          /\ sp' \in [Cycles -> -Overfill..SellSize] /\ dbSp' \in [Cycles -> -Overfill..SellSize]
      BY <1>1, <2>1 DEF LInvCore, LNumType, LooperPc
    <3>. QED BY <3>2, <3>3 DEF LNumType
  <2>4. CyclesBalanced' /\ ListsSaved'
    BY <1>1, <2>1, <2>2 DEF LInvCore, LNumType, CyclesBalanced, ListsSaved
  <2>5. PassedComplete(nb, ns, bp, sp)'
    BY <1>1, <2>1, <2>2 DEF LInvCore, LNumType, Cycles, DoneBeforeNext, PassedComplete
  <2>6. PassedComplete(dbNb, dbNs, dbBp, dbSp)'
    BY <1>1, <2>1, <2>2, <2>5 DEF LInvCore, LNumType, Cycles, DoneBeforeNext,
                     PassedComplete
  <2>7. RunningLast' /\ WaitingAfterCycle'
    BY <1>1, <2>1, <2>2 DEF LInvCore, LNumType, RunningLast, WaitingAfterCycle
  <2>. QED BY <2>3, <2>4, <2>5, <2>6, <2>7 DEF LInvCore, DoneBeforeNext
<1>3. CASE pc = "runsell"
  <2>1. /\ sp' = [sp EXCEPT ![ns - 1] = 0] /\ dbSp' = [dbSp EXCEPT ![ns - 1] = 0]
        /\ UNCHANGED <<bp, dbBp>>
    BY <1>3 DEF LimiterCompletes
  <2>2. ns > 0 /\ ns = nb /\ dbNb = nb /\ dbNs = ns
    BY <1>3 DEF LInvCore, RunningLast, ListsSaved
  <2>3. LNumType'
    <3>1. ns - 1 \in Cycles
      BY <2>1, <2>2 DEF LInvCore, LNumType, Cycles
    <3>2. sp' \in [Cycles -> -Overfill..SellSize] /\ dbSp' \in [Cycles -> -Overfill..SellSize]
      BY <2>1, <3>1, PendingType DEF LInvCore, LNumType
    <3>3. /\ nb' \in 0..MaxCycles /\ ns' \in 0..MaxCycles
          /\ dbNb' \in 0..MaxCycles /\ dbNs' \in 0..MaxCycles
          /\ pc' \in LooperPc /\ crashes' \in 0..MaxCrashes
          /\ faults' \in 0..MaxErrors
          /\ bp' \in [Cycles -> -Overfill..BuySize] /\ dbBp' \in [Cycles -> -Overfill..BuySize]
      BY <1>1, <2>1 DEF LInvCore, LNumType, LooperPc
    <3>. QED BY <3>2, <3>3 DEF LNumType
  <2>4. CyclesBalanced' /\ ListsSaved'
    BY <1>1, <2>1, <2>2 DEF LInvCore, LNumType, CyclesBalanced, ListsSaved
  <2>5. PassedComplete(nb, ns, bp, sp)'
    BY <1>1, <2>1, <2>2 DEF LInvCore, LNumType, Cycles, DoneBeforeNext, PassedComplete
  <2>6. PassedComplete(dbNb, dbNs, dbBp, dbSp)'
    BY <1>1, <2>1, <2>2, <2>5 DEF LInvCore, LNumType, Cycles, DoneBeforeNext,
                     PassedComplete
  <2>7. RunningLast' /\ WaitingAfterCycle'
    BY <1>1, <2>1, <2>2 DEF LInvCore, LNumType, RunningLast, WaitingAfterCycle
  <2>. QED BY <2>3, <2>4, <2>5, <2>6, <2>7 DEF LInvCore, DoneBeforeNext
<1>. QED BY <1>1, <1>2, <1>3

\* A restart loads what the store holds, which LInv already constrains.
LEMMA CrashCore ==
    ASSUME LInvCore, Crash
    PROVE  LInvCore'
<1>1. /\ nb' = dbNb /\ ns' = dbNs /\ bp' = dbBp /\ sp' = dbSp
      /\ UNCHANGED <<dbNb, dbNs, dbBp, dbSp, faults>>
      /\ pc' = "loop" /\ crashes < MaxCrashes /\ crashes' = crashes + 1
  BY DEF Crash, dbVars
<1>. QED BY <1>1 DEF LInvCore, LNumType, LooperPc, CyclesBalanced,
                  DoneBeforeNext, PassedComplete, ListsSaved, RunningLast,
                  WaitingAfterCycle

\* Pause and Resume touch the context and Run's return only.
LEMMA ControlCore ==
    ASSUME LInvCore, Pause \/ Resume
    PROVE  LInvCore'
<1>1. /\ UNCHANGED <<nb, ns, bp, sp, dbNb, dbNs, dbBp, dbSp, crashes, faults>>
      /\ pc' \in {pc, "loop"}
      /\ pc' # pc => pc = "stopped"
  BY DEF Pause, Resume, memVars, dbVars
<1>. QED BY <1>1 DEF LInvCore, LNumType, LooperPc, CyclesBalanced,
                  DoneBeforeNext, PassedComplete, ListsSaved, RunningLast,
                  WaitingAfterCycle, LastBuyDone, LastSellDone

\* Every step keeps ctxDone Boolean.
LEMMA NextBool == ctxDone \in BOOLEAN /\ [LNext]_lvars => ctxDone' \in BOOLEAN
  BY Zenon DEF LNext, LooperSteps, WaitForBuy, RunLastBuy, RunLastSell, Stop,
               AddNewBuy, AddNewSell, LimiterProgress, LimiterReturns,
               LimiterCompletes, Crash, Pause, Resume, lvars

LEMMA NextCore == LInvCore /\ [LNext]_lvars => LInvCore'
<1>. SUFFICES ASSUME LInvCore, [LNext]_lvars PROVE LInvCore'
  OBVIOUS
<1>1. CASE UNCHANGED lvars
  BY <1>1 DEF LInvCore, LNumType, CyclesBalanced, DoneBeforeNext,
              PassedComplete, ListsSaved, RunningLast, WaitingAfterCycle,
              LastBuyDone, LastSellDone, lvars, memVars, dbVars
<1>. QED
  BY <1>1, DispatchCore, AddNewBuyCore, AddNewSellCore, LimiterProgressCore,
     LimiterReturnsCore, LimiterCompletesCore, CrashCore, ControlCore
  DEF LNext, LooperSteps

LEMMA NextLInv == LInv /\ [LNext]_lvars => LInv'
<1>. SUFFICES ASSUME LInv, [LNext]_lvars PROVE LInv'
  OBVIOUS
<1>1. LInvCore /\ ctxDone \in BOOLEAN
  BY LInvParts
<1>2. LInvCore'
  BY <1>1, NextCore
<1>3. ctxDone' \in BOOLEAN
  BY <1>1, NextBool
<1>. QED BY <1>2, <1>3, Zenon DEF LInv, LInvCore, LTypeOK, LNumType

(***************************************************************************)
(* LInv holds in every state of every behaviour of the Looper.             *)
(***************************************************************************)
THEOREM LooperInductive == LSpec => []LInv
  BY InitLInv, NextLInv, PTL DEF LSpec

(***************************************************************************)
(* The buys and sells alternate (CyclesBalanced), for every size and       *)
(* bound: addNewSell only follows a complete buy and addNewBuy only a      *)
(* complete cycle, and a failed save rolls the append back.                *)
(***************************************************************************)
THEOREM BalancedCycles == LSpec => []CyclesBalanced
<1>1. LInv => CyclesBalanced
  BY DEF LInv
<1>. QED BY <1>1, LooperInductive, PTL

(***************************************************************************)
(* The Looper never starts a limiter before the one it moved past is       *)
(* complete, in memory and in the store (DoneBeforeNext): Looper.Save      *)
(* writes every limiter with the uid list.                                 *)
(***************************************************************************)
THEOREM PassedLimitersComplete == LSpec => []DoneBeforeNext
<1>1. LInv => DoneBeforeNext
  BY DEF LInv
<1>. QED BY <1>1, LooperInductive, PTL

(***************************************************************************)
(* The Looper runs only limiters the store lists (ListsSaved): an append   *)
(* whose save failed is undone before Run goes round.                      *)
(***************************************************************************)
THEOREM ListsAlwaysSaved == LSpec => []ListsSaved
<1>1. LInv => ListsSaved
  BY DEF LInv
<1>. QED BY <1>1, LooperInductive, PTL

(***************************************************************************)
(* Type correctness of the Looper.                                         *)
(***************************************************************************)
THEOREM LooperTypeCorrect == LSpec => []LTypeOK
<1>1. LInv => LTypeOK
  BY DEF LInv
<1>. QED BY <1>1, LooperInductive, PTL
=============================================================================
