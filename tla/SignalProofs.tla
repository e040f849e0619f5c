----------------------------- MODULE SignalProofs -----------------------------
(***************************************************************************)
(* Proofs about the two systems whose processes signal each other: the     *)
(* board's drivers and their programs (Board), for any number of process   *)
(* ids, keys and ticks and any number of programs that are started, and    *)
(* the two-process talk (TalkFork), for any number of lines typed on each  *)
(* side.                                                                   *)
(***************************************************************************)
EXTENDS Board, TalkFork, SequenceTheorems, TLAPS

-----------------------------------------------------------------------------
(* The board.                                                              *)

\* The programs and their calls.
LEMMA ScriptIs ==
  /\ DOMAIN Script = {"test", "sig", "other"}
  /\ Script["test"] = <<"signal", "open", "write">>
  /\ Script["sig"] = <<"open", "write", "signal">>
  /\ Script["other"] = <<>>
  /\ \A name \in DOMAIN Script : Len(Script[name]) \in 0 .. 3
BY DEF Script

\* A process at a call can make it.
LEMMA AtCall ==
  ASSUME TypeOK, NEW p \in Pids, NEW step, At(p, step)
  PROVE  /\ Runs(p) /\ pc[p] \in Nat /\ pc[p] + 1 \in 0 .. 3
         /\ pc[p] + 1 <= Len(Script[prog[p]]) /\ Script[prog[p]][pc[p] + 1] = step
<1>1. pc[p] \in 0 .. 3 /\ prog[p] \in DOMAIN Script /\ pc[p] < Len(Script[prog[p]])
  BY DEF At, Runs, TypeOK
<1>2. Len(Script[prog[p]]) \in 0 .. 3
  BY <1>1, ScriptIs
<1>. QED  BY <1>1, <1>2 DEF At

-----------------------------------------------------------------------------
(* Types.                                                                  *)

\* The end of a process keeps every type.
LEMMA TypeGone ==
  ASSUME TypeOK, NEW p \in Pids, Gone(p)
  PROVE  TypeOK'
<1>1. prog' \in [Pids -> DOMAIN Script \union {"none", "zombie"}]
  BY DEF Gone, TypeOK
<1>2. parent' \in [Pids -> Pids \union {0}]
  BY DEF Gone, TypeOK
<1>3. pc' \in [Pids -> 0 .. 3]
  BY DEF Gone, TypeOK
<1>4. handled' \in [Pids -> BOOLEAN] /\ opened' \in [Pids -> BOOLEAN] /\ pending' \in [Pids -> BOOLEAN]
  BY DEF Gone, TypeOK
<1>. QED  BY <1>1, <1>2, <1>3, <1>4 DEF Gone, TypeOK, driverVars

\* Every step keeps every type.
LEMMA TypeStep ==
  ASSUME TypeOK, [Next]_vars
  PROVE  TypeOK'
<1>. USE DEF driverVars, procVars
<1>1. CASE UNCHANGED vars
  BY <1>1 DEF vars, TypeOK
<1>2. CASE LoadLed
  BY <1>2 DEF LoadLed, TypeOK
<1>3. CASE LoadKey
  <2>1. irqs' \subseteq Keys
    BY <1>3 DEF LoadKey
  <2>2. probed' \in BOOLEAN /\ misused' \in BOOLEAN
    BY <1>3 DEF LoadKey
  <2>. QED  BY <1>3, <2>1, <2>2 DEF LoadKey, TypeOK
<1>4. CASE UnloadLed
  <2>1. timers' \subseteq {"own", "stray"} /\ counter' \in 0 .. Ticks
    BY <1>4, BoardAssumption DEF UnloadLed
  <2>2. misused' \in BOOLEAN
    BY <1>4 DEF UnloadLed
  <2>. QED  BY <1>4, <2>1, <2>2 DEF UnloadLed, TypeOK
<1>5. CASE UnloadKey
  <2>1. irqs' \subseteq Keys /\ strayIrqs' \subseteq Keys
    BY <1>5 DEF UnloadKey, TypeOK
  <2>. QED  BY <1>5, <2>1 DEF UnloadKey, TypeOK
<1>6. ASSUME Notify  PROVE pending' \in [Pids -> BOOLEAN]
  BY <1>6 DEF Notify, Runs, TypeOK
<1>7. CASE Tick
  <2>1. pending' \in [Pids -> BOOLEAN]
    BY <1>6, <1>7 DEF Tick, TypeOK
  <2>2. counter' \in 0 .. Ticks
    BY <1>7, BoardAssumption DEF Tick, TypeOK
  <2>. QED  BY <1>7, <2>1, <2>2 DEF Tick, TypeOK
<1>8. CASE StrayCall
  BY <1>8 DEF StrayCall, Breaks, TypeOK
<1>9. CASE Press
  BY <1>6, <1>9 DEF Press, TypeOK
<1>10. ASSUME NEW p \in Pids, StartProg(p)  PROVE TypeOK'
  <2>1. prog' \in [Pids -> DOMAIN Script \union {"none", "zombie"}]
    BY <1>10 DEF StartProg, TypeOK
  <2>2. /\ pc' \in [Pids -> 0 .. 3] /\ parent' \in [Pids -> Pids \union {0}]
        /\ starts' \in Nat
    BY <1>10 DEF StartProg, TypeOK
  <2>3. handled' \in [Pids -> BOOLEAN] /\ opened' \in [Pids -> BOOLEAN] /\ pending' \in [Pids -> BOOLEAN]
    BY <1>10 DEF StartProg, TypeOK
  <2>. QED  BY <1>10, <2>1, <2>2, <2>3 DEF StartProg, TypeOK
<1>11. ASSUME NEW p \in Pids, NEW step, At(p, step), pc' = [pc EXCEPT ![p] = @ + 1]
      PROVE  pc' \in [Pids -> 0 .. 3]
  <2>1. pc[p] + 1 \in 0 .. 3
    BY <1>11, AtCall
  <2>. QED  BY <1>11, <2>1 DEF TypeOK
<1>12. ASSUME NEW p \in Pids, SetHandler(p)  PROVE TypeOK'
  <2>1. pc' \in [Pids -> 0 .. 3]
    BY <1>11, <1>12 DEF SetHandler
  <2>2. handled' \in [Pids -> BOOLEAN]
    BY <1>12 DEF SetHandler, TypeOK
  <2>. QED  BY <1>12, <2>1, <2>2 DEF SetHandler, TypeOK
<1>13. ASSUME NEW p \in Pids, Open(p)  PROVE TypeOK'
  <2>1. pc' \in [Pids -> 0 .. 3]
    BY <1>11, <1>13 DEF Open
  <2>2. opened' \in [Pids -> BOOLEAN]
    BY <1>13 DEF Open, TypeOK
  <2>. QED  BY <1>13, <2>1, <2>2 DEF Open, TypeOK
<1>14. ASSUME NEW p \in Pids, WriteId(p)  PROVE TypeOK'
  <2>1. pc' \in [Pids -> 0 .. 3]
    BY <1>11, <1>14 DEF WriteId
  <2>2. /\ timers' \subseteq {"own", "stray"} /\ kernel' \in {"ok", "undefined"}
        /\ misused' \in BOOLEAN
    BY <1>14 DEF WriteId, WriteLed, TypeOK
  <2>. QED  BY <1>14, <2>1, <2>2 DEF WriteId, TypeOK
<1>15. ASSUME NEW p \in Pids, WriteFails(p)  PROVE TypeOK'
  <2>1. pc' \in [Pids -> 0 .. 3]
    BY <1>11, <1>15 DEF WriteFails
  <2>. QED  BY <1>15, <2>1 DEF WriteFails, TypeOK
<1>16. ASSUME NEW p \in Pids, End(p) \/ Killed(p)  PROVE TypeOK'
  BY <1>16, TypeGone DEF End, Killed
<1>17. ASSUME NEW p \in Pids, Count(p)  PROVE TypeOK'
  BY <1>17 DEF Count, TypeOK
<1>18. ASSUME NEW p \in Pids, Fork(p)  PROVE TypeOK'
  <2>1. CASE Gone(p)
    BY <2>1, TypeGone
  <2>2. ASSUME NEW q \in Free,
               /\ prog' = [prog EXCEPT ![q] = "sig"] /\ pc' = [pc EXCEPT ![q] = pc[p]]
               /\ handled' = [handled EXCEPT ![q] = TRUE]
               /\ opened' = [opened EXCEPT ![q] = opened[p]]
               /\ parent' = [parent EXCEPT ![q] = p]
               /\ pending' = [pending EXCEPT ![p] = FALSE, ![q] = FALSE]
               /\ UNCHANGED <<kernel, driverVars, starts, misused>>
        PROVE  TypeOK'
    <3>1. prog' \in [Pids -> DOMAIN Script \union {"none", "zombie"}]
      BY <2>2, ScriptIs DEF TypeOK
    <3>2. pc' \in [Pids -> 0 .. 3]
      BY <2>2 DEF TypeOK
    <3>3. parent' \in [Pids -> Pids \union {0}]
      BY <2>2 DEF TypeOK
    <3>4. /\ handled' \in [Pids -> BOOLEAN] /\ opened' \in [Pids -> BOOLEAN]
          /\ pending' \in [Pids -> BOOLEAN]
      BY <2>2 DEF TypeOK
    <3>. QED  BY <2>2, <3>1, <3>2, <3>3, <3>4 DEF TypeOK
  <2>. QED  BY <1>18, <2>1, <2>2 DEF Fork
<1>. QED
  BY <1>1, <1>2, <1>3, <1>4, <1>5, <1>7, <1>8, <1>9, <1>10, <1>12, <1>13, <1>14, <1>15, <1>16,
     <1>17, <1>18
  DEF Next, ProcStep, Deliver

-----------------------------------------------------------------------------
(* Families of processes.                                                  *)

\* A step that no process makes, and that signals only processes that run.
LEMMA FamiliesSame ==
  ASSUME TypeOK, Families, UNCHANGED procVars,
         \A p \in Pids : pending'[p] => pending[p] \/ Runs(p)
  PROVE  Families'
<1>1. UNCHANGED <<prog, pc, handled, opened, parent>>
  BY DEF procVars
<1>2. /\ \A p \in Pids : Runs(p)' <=> Runs(p)
      /\ \A p \in Pids, step \in {"signal"} : Made(p, step)' <=> Made(p, step)
  BY <1>1 DEF Runs, Made
<1>3. \A p \in Pids : parent[p] # 0 => parent[p] \in Pids
  BY DEF TypeOK
<1>. QED  BY <1>1, <1>2, <1>3 DEF Families

\* A process makes the next call of its program.
LEMMA FamiliesCall ==
  ASSUME TypeOK, Families, NEW p \in Pids, NEW step, At(p, step),
         UNCHANGED <<prog, parent, pending>>, pc' = [pc EXCEPT ![p] = @ + 1],
         \A q \in Pids : handled[q] => handled'[q],
         \A q \in Pids \ {p} : opened'[q] = opened[q],
         step = "signal" => handled'[p]
  PROVE  Families'
<1>1. /\ Runs(p) /\ pc[p] \in Nat /\ pc[p] + 1 <= Len(Script[prog[p]])
      /\ Script[prog[p]][pc[p] + 1] = step
  BY AtCall
<1>2. pc'[p] = pc[p] + 1 /\ \A q \in Pids \ {p} : pc'[q] = pc[q]
  BY DEF TypeOK
<1>3. \A q \in Pids : Runs(q)' <=> Runs(q)
  BY DEF Runs
<1>4. \A q \in Pids \ {p} : Made(q, "signal")' <=> Made(q, "signal")
  BY <1>2 DEF Made
<1>5. Made(p, "signal")' => Made(p, "signal") \/ step = "signal"
  <2>1. \A k \in 1 .. pc[p] + 1 : k \in 1 .. pc[p] \/ k = pc[p] + 1
    BY <1>1
  <2>2. Made(p, "signal")' <=> \E k \in 1 .. pc[p] + 1 : Script[prog[p]][k] = "signal"
    BY <1>2 DEF Made
  <2>. QED  BY <1>1, <2>1, <2>2 DEF Made
<1>6. \A q \in Pids : parent[q] # 0 => parent[q] \in Pids
  BY DEF TypeOK
<1>7. \A q \in Pids : ~ Runs(q)' => ~ pending'[q] /\ ~ opened'[q]
  BY <1>1, <1>3 DEF Families
<1>8. \A q \in Pids : Runs(q)' =>
        pc'[q] <= Len(Script[prog'[q]]) /\ (Made(q, "signal")' => handled'[q])
  BY <1>1, <1>2, <1>3, <1>4, <1>5 DEF Families
<1>9. \A q \in Pids : Runs(q)' /\ parent'[q] # 0 => Runs(parent[q])'
  BY <1>3, <1>6 DEF Families
<1>. QED  BY <1>7, <1>8, <1>9 DEF Families

\* A process ends.
LEMMA FamiliesGone ==
  ASSUME TypeOK, Families, NEW p \in Pids, Gone(p)
  PROVE  Families'
<1>1. /\ \A q \in Pids : parent[q] # 0 => parent[q] \in Pids
      /\ \A q \in Pids : q # 0
  BY BoardAssumption DEF TypeOK
<1>2. /\ prog'[p] \in {"none", "zombie"} /\ (prog'[p] = "zombie" => parent[p] # 0)
      /\ \A q \in Pids \ {p} :
           IF prog[q] = "zombie" /\ parent[q] = p THEN prog'[q] = "none" ELSE prog'[q] = prog[q]
  BY DEF Gone, TypeOK
<1>3. \A q \in Pids : parent'[q] = IF parent[q] = p THEN 0 ELSE parent[q]
  BY DEF Gone
<1>4. /\ ~ pending'[p] /\ ~ opened'[p]
      /\ \A q \in Pids \ {p} : /\ pending'[q] = pending[q] /\ opened'[q] = opened[q]
                             /\ pc'[q] = pc[q] /\ handled'[q] = handled[q]
  BY DEF Gone, TypeOK
<1>5. ~ Runs(p)' /\ \A q \in Pids \ {p} : Runs(q)' <=> Runs(q)
  BY <1>2, ScriptIs DEF Runs
<1>6. \A q \in Pids \ {p} : Runs(q) => prog'[q] = prog[q]
  BY <1>2, ScriptIs DEF Runs
<1>7. \A q \in Pids : parent'[q] # q
  BY <1>1, <1>3 DEF Families
<1>8. \A q \in Pids : prog'[q] = "zombie" => parent'[q] # 0
  BY <1>2, <1>3 DEF Families
<1>9. \A q \in Pids : Runs(q)' /\ parent'[q] # 0 => prog'[parent'[q]] \in DOMAIN Script
  <2>1. SUFFICES ASSUME NEW q \in Pids, Runs(q)', parent'[q] # 0
                 PROVE  prog'[parent'[q]] \in DOMAIN Script
    OBVIOUS
  <2>2. q # p /\ Runs(q) /\ parent[q] # p /\ parent'[q] = parent[q] /\ parent[q] # 0
    BY <1>3, <1>5, <2>1
  <2>3. Runs(parent[q]) /\ parent[q] \in Pids \ {p}
    BY <1>1, <2>2 DEF Families
  <2>. QED  BY <1>6, <2>2, <2>3 DEF Runs
<1>10. \A q \in Pids : ~ Runs(q)' => ~ pending'[q] /\ ~ opened'[q]
  BY <1>4, <1>5 DEF Families
<1>11. \A q \in Pids : Runs(q)' =>
         pc'[q] <= Len(Script[prog'[q]]) /\ (Made(q, "signal")' => handled'[q])
  <2>1. \A q \in Pids \ {p} : Runs(q) => (Made(q, "signal")' <=> Made(q, "signal"))
    BY <1>4, <1>6 DEF Made
  <2>. QED  BY <1>4, <1>5, <1>6, <2>1 DEF Families
<1>. QED  BY <1>7, <1>8, <1>9, <1>10, <1>11 DEF Families, Runs

\* A program is started under an id that is free.
LEMMA FamiliesStart ==
  ASSUME TypeOK, Families, NEW p \in Pids, StartProg(p)
  PROVE  Families'
<1>1. /\ prog[p] = "none" /\ p # 0
      /\ prog'[p] \in DOMAIN Script /\ pc'[p] = 0 /\ parent'[p] = 0
      /\ \A q \in Pids \ {p} : /\ prog'[q] = prog[q] /\ pc'[q] = pc[q] /\ parent'[q] = parent[q]
                             /\ pending'[q] = pending[q] /\ opened'[q] = opened[q]
                             /\ handled'[q] = handled[q]
  <2>1. prog[p] = "none" /\ p # 0
    BY BoardAssumption DEF StartProg, Free
  <2>2. /\ prog'[p] \in DOMAIN Script /\ pc'[p] = 0 /\ parent'[p] = 0
        /\ \A q \in Pids \ {p} : prog'[q] = prog[q] /\ pc'[q] = pc[q] /\ parent'[q] = parent[q]
    BY DEF StartProg, TypeOK
  <2>3. \A q \in Pids \ {p} : /\ pending'[q] = pending[q] /\ opened'[q] = opened[q]
                            /\ handled'[q] = handled[q]
    BY DEF StartProg, TypeOK
  <2>. QED  BY <2>1, <2>2, <2>3
<1>2. ~ Runs(p) /\ Runs(p)' /\ \A q \in Pids \ {p} : Runs(q)' <=> Runs(q)
  BY <1>1, ScriptIs DEF Runs
<1>3. ~ Made(p, "signal")' /\ \A q \in Pids \ {p} : Made(q, "signal")' <=> Made(q, "signal")
  BY <1>1 DEF Made
<1>4. 0 <= Len(Script[prog'[p]])
  BY <1>1, ScriptIs
<1>5. prog'[p] # "zombie"
  BY <1>1, ScriptIs
<1>6. \A q \in Pids : Runs(q)' /\ parent'[q] # 0 => prog'[parent'[q]] \in DOMAIN Script
  <2>1. SUFFICES ASSUME NEW q \in Pids, Runs(q)', parent'[q] # 0
                 PROVE  prog'[parent'[q]] \in DOMAIN Script
    OBVIOUS
  <2>2. q # p /\ Runs(q) /\ parent'[q] = parent[q] /\ parent[q] # 0
    BY <1>1, <1>2, <2>1
  <2>3. Runs(parent[q]) /\ parent[q] \in Pids \ {p}
    BY <1>2, <2>2 DEF Families, TypeOK
  <2>. QED  BY <1>1, <2>2, <2>3 DEF Runs
<1>7. \A q \in Pids : ~ Runs(q)' => ~ pending'[q] /\ ~ opened'[q]
  BY <1>1, <1>2 DEF Families
<1>8. \A q \in Pids : Runs(q)' =>
        pc'[q] <= Len(Script[prog'[q]]) /\ (Made(q, "signal")' => handled'[q])
  BY <1>1, <1>2, <1>3, <1>4 DEF Families
<1>9. \A q \in Pids : parent'[q] # q /\ (prog'[q] = "zombie" => parent'[q] # 0)
  BY <1>1, <1>5 DEF Families
<1>. QED  BY <1>6, <1>7, <1>8, <1>9 DEF Families, Runs

\* The handler of sig.c forks: the child has its parent's place in the program.
LEMMA FamiliesFork ==
  ASSUME TypeOK, Families, NEW p \in Pids, prog[p] = "sig", NEW q \in Free,
         prog' = [prog EXCEPT ![q] = "sig"], pc' = [pc EXCEPT ![q] = pc[p]],
         handled' = [handled EXCEPT ![q] = TRUE], opened' = [opened EXCEPT ![q] = opened[p]],
         parent' = [parent EXCEPT ![q] = p],
         pending' = [pending EXCEPT ![p] = FALSE, ![q] = FALSE]
  PROVE  Families'
<1>1. q \in Pids /\ prog[q] = "none" /\ q # p /\ p # 0
  BY BoardAssumption DEF Free
<1>2. /\ prog'[q] = "sig" /\ pc'[q] = pc[p] /\ handled'[q] /\ parent'[q] = p
      /\ \A r \in Pids \ {q} : /\ prog'[r] = prog[r] /\ pc'[r] = pc[r] /\ handled'[r] = handled[r]
                             /\ parent'[r] = parent[r] /\ opened'[r] = opened[r]
  BY <1>1 DEF TypeOK
<1>3. \A r \in Pids : pending'[r] => pending[r]
  BY <1>1 DEF TypeOK
<1>4. /\ Runs(p) /\ ~ Runs(q) /\ Runs(q)' /\ Runs(p)'
      /\ \A r \in Pids \ {q} : Runs(r)' <=> Runs(r)
  BY <1>1, <1>2, ScriptIs DEF Runs
<1>5. \A r \in Pids \ {q} : Made(r, "signal")' <=> Made(r, "signal")
  BY <1>2 DEF Made
<1>6. \A r \in Pids : Runs(r)' /\ parent'[r] # 0 => prog'[parent'[r]] \in DOMAIN Script
  <2>1. SUFFICES ASSUME NEW r \in Pids \ {q}, Runs(r), parent[r] # 0
                 PROVE  prog'[parent[r]] \in DOMAIN Script
    BY <1>2, <1>4 DEF Runs
  <2>2. Runs(parent[r]) /\ parent[r] \in Pids \ {q}
    BY <1>4, <2>1 DEF Families, TypeOK
  <2>. QED  BY <1>2, <2>2 DEF Runs
<1>7. \A r \in Pids : ~ Runs(r)' => ~ pending'[r] /\ ~ opened'[r]
  BY <1>2, <1>3, <1>4 DEF Families
<1>8. \A r \in Pids : Runs(r)' =>
        pc'[r] <= Len(Script[prog'[r]]) /\ (Made(r, "signal")' => handled'[r])
  <2>1. pc[p] <= Len(Script["sig"])
    BY <1>4 DEF Families
  <2>. QED  BY <1>2, <1>4, <1>5, <2>1 DEF Families
<1>9. \A r \in Pids : parent'[r] # r /\ (prog'[r] = "zombie" => parent'[r] # 0)
  BY <1>1, <1>2 DEF Families
<1>. QED  BY <1>6, <1>7, <1>8, <1>9 DEF Families, Runs

\* Every step keeps them.
LEMMA FamiliesStep ==
  ASSUME TypeOK, Families, [Next]_vars
  PROVE  Families'
<1>. USE DEF driverVars
<1>1. CASE UNCHANGED vars
  BY <1>1, FamiliesSame DEF vars
<1>2. CASE LoadLed \/ LoadKey \/ UnloadLed \/ UnloadKey \/ StrayCall
  BY <1>2, FamiliesSame DEF LoadLed, LoadKey, UnloadLed, UnloadKey, StrayCall, Breaks
<1>3. CASE Tick \/ Press
  <2>1. \A p \in Pids : pending'[p] => pending[p] \/ Runs(p)
    BY <1>3 DEF Tick, Press, Notify
  <2>. QED  BY <1>3, <2>1, FamiliesSame DEF Tick, Press
<1>4. ASSUME NEW p \in Pids, StartProg(p)  PROVE Families'
  BY <1>4, FamiliesStart
<1>5. ASSUME NEW p \in Pids, SetHandler(p)  PROVE Families'
  <2>1. handled'[p] /\ \A q \in Pids : handled[q] => handled'[q]
    BY <1>5 DEF SetHandler, TypeOK
  <2>. QED  BY <1>5, <2>1, FamiliesCall DEF SetHandler
<1>6. ASSUME NEW p \in Pids, Open(p)  PROVE Families'
  <2>1. \A q \in Pids \ {p} : opened'[q] = opened[q]
    BY <1>6 DEF Open, TypeOK
  <2>. QED  BY <1>6, <2>1, FamiliesCall DEF Open
<1>7. ASSUME NEW p \in Pids, WriteId(p) \/ WriteFails(p)  PROVE Families'
  BY <1>7, FamiliesCall DEF WriteId, WriteFails
<1>8. ASSUME NEW p \in Pids, End(p) \/ Killed(p)  PROVE Families'
  BY <1>8, FamiliesGone DEF End, Killed
<1>9. ASSUME NEW p \in Pids, Count(p)  PROVE Families'
  <2>1. \A q \in Pids : pending'[q] => pending[q]
    BY <1>9 DEF Count, TypeOK
  <2>. QED  BY <1>9, <2>1, FamiliesSame DEF Count
<1>10. ASSUME NEW p \in Pids, Fork(p)  PROVE Families'
  BY <1>10, FamiliesGone, FamiliesFork DEF Fork
<1>. QED
  BY <1>1, <1>2, <1>3, <1>4, <1>5, <1>6, <1>7, <1>8, <1>9, <1>10 DEF Next, ProcStep, Deliver

-----------------------------------------------------------------------------
(* Drivers and the kernel.                                                 *)

\* The two together, which each step keeps or breaks together.
Driven == Fits /\ KernelSafe

\* A step that leaves the driver and the kernel alone, and after which nobody
\* has a device that had, or forked from one that had, none.
LEMMA DrivenSame ==
  ASSUME Driven, UNCHANGED <<kernel, module, timers, irqs, strayIrqs, probed, misused>>,
         \A q \in Pids : Runs(q)' /\ opened'[q] => module # "none"
  PROVE  Driven'
BY DEF Driven, Fits, KernelSafe

\* A driver is loaded or unloaded.
LEMMA DrivenLoads ==
  ASSUME TypeOK, Driven, LoadLed \/ LoadKey \/ UnloadLed \/ UnloadKey
  PROVE  Driven'
<1>1. \A q \in Pids : (Runs(q)' <=> Runs(q)) /\ opened'[q] = opened[q]
  BY DEF LoadLed, LoadKey, UnloadLed, UnloadKey, procVars, Runs
<1>2. CASE LoadLed
  BY <1>1, <1>2 DEF LoadLed, Driven, Fits, KernelSafe
<1>3. CASE LoadKey
  <2>1. PICK ks \in SUBSET (Keys \ strayIrqs) :
          irqs' = ks /\ probed' = (FirstKey \in ks) /\ misused' = (misused \/ ks # Keys)
    BY <1>3 DEF LoadKey
  <2>2. /\ module = "none" /\ module' = "key" /\ UNCHANGED <<kernel, timers, strayIrqs>>
    BY <1>3 DEF LoadKey
  <2>3. Fits'
    BY <1>1, <2>2 DEF Driven, Fits
  <2>4. ~ misused' => ~ misused /\ probed'
    BY <2>1, BoardAssumption
  <2>5. KernelSafe'
    BY <2>2, <2>4 DEF Driven, KernelSafe
  <2>. QED  BY <2>3, <2>5 DEF Driven
<1>4. CASE UnloadLed
  <2>1. /\ module = "led" /\ module' = "none" /\ ~ InUse
        /\ timers' = (IF timers = {} THEN {} ELSE {"stray"})
        /\ UNCHANGED <<kernel, irqs, strayIrqs, probed>>
    BY <1>4 DEF UnloadLed
  <2>2. ~ misused' => ~ misused /\ timers = {}
    BY <1>4 DEF UnloadLed
  <2>3. Fits'
    BY <1>1, <2>1 DEF Driven, Fits, InUse
  <2>4. KernelSafe'
    BY <2>1, <2>2 DEF Driven, KernelSafe
  <2>. QED  BY <2>3, <2>4 DEF Driven
<1>5. CASE UnloadKey
  <2>1. /\ module = "key" /\ module' = "none" /\ ~ InUse /\ irqs' = {} /\ probed' = FALSE
        /\ strayIrqs' = (IF probed THEN {} ELSE strayIrqs \union irqs)
        /\ UNCHANGED <<kernel, timers, misused>>
    BY <1>5 DEF UnloadKey
  <2>2. Fits'
    BY <1>1, <2>1 DEF Driven, Fits, InUse
  <2>3. KernelSafe'
    BY <2>1 DEF Driven, KernelSafe
  <2>. QED  BY <2>2, <2>3 DEF Driven
<1>. QED  BY <1>2, <1>3, <1>4, <1>5

\* Every step keeps both.
LEMMA DrivenStep ==
  ASSUME TypeOK, Families, Driven, [Next]_vars
  PROVE  Driven'
<1>. USE DEF driverVars
<1>1. ASSUME UNCHANGED procVars
      PROVE  \A q \in Pids : Runs(q)' /\ opened'[q] => module # "none"
  BY <1>1 DEF procVars, Runs, Driven, Fits
<1>2. CASE UNCHANGED vars
  BY <1>1, <1>2, DrivenSame DEF vars
<1>3. CASE LoadLed \/ LoadKey \/ UnloadLed \/ UnloadKey
  BY <1>3, DrivenLoads
<1>4. CASE Tick \/ Press
  BY <1>1, <1>4, DrivenSame DEF Tick, Press
<1>5. CASE StrayCall
  <2>1. misused
    BY <1>5 DEF StrayCall, Driven, KernelSafe
  <2>2. UNCHANGED <<module, timers, irqs, probed, misused, procVars>>
    BY <1>5 DEF StrayCall, Breaks
  <2>. QED  BY <1>1, <2>1, <2>2 DEF Driven, Fits, KernelSafe
<1>6. ASSUME NEW p \in Pids, Gone(p)  PROVE Driven'
  <2>1. \A q \in Pids : Runs(q)' /\ opened'[q] => Runs(q) /\ opened[q]
    BY <1>6, ScriptIs DEF Gone, Runs, TypeOK
  <2>2. \A q \in Pids : Runs(q)' /\ opened'[q] => module # "none"
    BY <2>1 DEF Driven, Fits
  <2>. QED  BY <1>6, <2>2, DrivenSame DEF Gone
<1>7. ASSUME NEW p \in Pids, StartProg(p)  PROVE Driven'
  <2>1. \A q \in Pids : Runs(q)' /\ opened'[q] => Runs(q) /\ opened[q]
    BY <1>7 DEF StartProg, Runs, TypeOK
  <2>2. \A q \in Pids : Runs(q)' /\ opened'[q] => module # "none"
    BY <2>1 DEF Driven, Fits
  <2>. QED  BY <1>7, <2>2, DrivenSame DEF StartProg
<1>8. ASSUME NEW p \in Pids, SetHandler(p) \/ WriteFails(p) \/ Count(p)  PROVE Driven'
  <2>1. \A q \in Pids : Runs(q)' /\ opened'[q] => module # "none"
    BY <1>8 DEF SetHandler, WriteFails, Count, procVars, Runs, Driven, Fits
  <2>. QED  BY <1>8, <2>1, DrivenSame DEF SetHandler, WriteFails, Count
<1>9. ASSUME NEW p \in Pids, Open(p)  PROVE Driven'
  <2>1. \A q \in Pids : Runs(q)' /\ opened'[q] => module # "none"
    BY <1>9 DEF Open, Runs, TypeOK, Driven, Fits
  <2>. QED  BY <1>9, <2>1, DrivenSame DEF Open
<1>10. ASSUME NEW p \in Pids, WriteId(p)  PROVE Driven'
  <2>1. \A q \in Pids : Runs(q)' /\ opened'[q] => module # "none"
    BY <1>10 DEF WriteId, Runs, Driven, Fits
  <2>2. CASE WriteLed
    <3>1. /\ module = "led" /\ timers' = timers \union {"own"}
          /\ UNCHANGED <<module, irqs, strayIrqs, probed>>
      BY <1>10, <2>2 DEF WriteId, WriteLed
    <3>2. ~ misused' => ~ misused /\ kernel' = kernel
      BY <2>2 DEF WriteLed
    <3>. QED  BY <2>1, <3>1, <3>2 DEF Driven, Fits, KernelSafe
  <2>3. CASE module = "key" /\ UNCHANGED <<timers, kernel, misused>>
    BY <1>10, <2>1, <2>3, DrivenSame DEF WriteId
  <2>. QED  BY <1>10, <2>2, <2>3 DEF WriteId
<1>11. ASSUME NEW p \in Pids, Fork(p)  PROVE Driven'
  <2>1. ASSUME NEW q \in Free,
               prog' = [prog EXCEPT ![q] = "sig"], opened' = [opened EXCEPT ![q] = opened[p]],
               UNCHANGED <<kernel, driverVars, starts, misused>>
        PROVE  Driven'
    <3>1. Runs(p)
      BY <1>11, ScriptIs DEF Fork, Runs
    <3>2. \A r \in Pids : Runs(r)' /\ opened'[r] => (Runs(r) /\ opened[r]) \/ opened[p]
      BY <2>1 DEF Runs, TypeOK
    <3>3. \A r \in Pids : Runs(r)' /\ opened'[r] => module # "none"
      BY <3>1, <3>2 DEF Driven, Fits
    <3>. QED  BY <2>1, <3>3, DrivenSame
  <2>. QED  BY <1>6, <1>11, <2>1 DEF Fork
<1>. QED
  BY <1>2, <1>3, <1>4, <1>5, <1>6, <1>7, <1>8, <1>9, <1>10, <1>11
  DEF Next, ProcStep, Deliver, End, Killed

-----------------------------------------------------------------------------
(* The theorems.                                                           *)

\* Nothing is loaded and nothing runs at first.
LEMMA InitIInv == Init => IInv
<1>. SUFFICES ASSUME Init  PROVE IInv
  OBVIOUS
<1>1. TypeOK
  <2>1. counter \in 0 .. Ticks /\ starts \in Nat
    BY BoardAssumption DEF Init
  <2>2. pc \in [Pids -> 0 .. 3] /\ parent \in [Pids -> Pids \union {0}]
    BY DEF Init
  <2>3. /\ handled \in [Pids -> BOOLEAN] /\ opened \in [Pids -> BOOLEAN]
        /\ pending \in [Pids -> BOOLEAN]
    BY DEF Init
  <2>4. prog \in [Pids -> DOMAIN Script \union {"none", "zombie"}]
    BY DEF Init
  <2>. QED  BY <2>1, <2>2, <2>3, <2>4 DEF Init, TypeOK
<1>2. \A p \in Pids : ~ Runs(p) /\ prog[p] = "none" /\ parent[p] = 0 /\ p # 0
  BY BoardAssumption, ScriptIs DEF Init, Runs
<1>3. Fits /\ KernelSafe
  BY <1>2 DEF Init, Fits, KernelSafe
<1>4. Families
  BY <1>2 DEF Init, Families
<1>. QED  BY <1>1, <1>3, <1>4 DEF IInv

\* The invariant is inductive.
LEMMA NextIInv == IInv /\ [Next]_vars => IInv'
<1>. SUFFICES ASSUME IInv, [Next]_vars  PROVE IInv'
  OBVIOUS
<1>1. TypeOK /\ Families /\ Driven
  BY DEF IInv, Driven
<1>2. TypeOK' /\ Families' /\ Driven'
  BY <1>1, TypeStep, FamiliesStep, DrivenStep
<1>. QED  BY <1>2 DEF IInv, Driven

\* However drivers are loaded and unloaded and programs come and go, fork and
\* are killed, the kernel calls into no driver that is gone, unless the timer
\* was written to twice or left running, or a key's interrupt was refused.
THEOREM IInvHolds == Spec => []IInv
<1>. QED  BY InitIInv, NextIInv, PTL DEF Spec

\* The signal kills no test.c, and sig.c only before it has called signal();
\* else it hits a process that never registered.
THEOREM KilledUnpreparedHolds == Spec => []KilledUnprepared
<1>1. IInv => KilledUnprepared
  <2>. SUFFICES ASSUME IInv, NEW p \in Pids, Runs(p), pending[p], ~ handled[p], Made(p, "write")
                PROVE  prog[p] = "sig" /\ pc[p] = 2
    BY DEF KilledUnprepared
  <2>1. /\ pc[p] \in 0 .. 3 /\ pc[p] <= Len(Script[prog[p]]) /\ ~ Made(p, "signal")
        /\ prog[p] \in {"test", "sig", "other"}
    BY ScriptIs DEF IInv, TypeOK, Families, Runs
  <2>2. PICK k \in 1 .. pc[p] : Script[prog[p]][k] = "write"
    BY DEF Made
  <2>3. CASE prog[p] = "test"
    <3>1. 1 \in 1 .. pc[p] /\ Script["test"][1] = "signal"
      BY <2>1, <2>2, ScriptIs
    <3>. QED  BY <2>1, <2>3, <3>1 DEF Made
  <2>4. CASE prog[p] = "sig"
    <3>1. pc[p] # 3
      <4>1. Script["sig"][3] = "signal"
        BY ScriptIs
      <4>2. SUFFICES ASSUME pc[p] = 3  PROVE FALSE
        OBVIOUS
      <4>3. 3 \in 1 .. pc[p]
        BY <4>2
      <4>. QED  BY <2>1, <2>4, <4>1, <4>3 DEF Made
    <3>2. k # 1
      BY <2>2, <2>4, ScriptIs
    <3>. QED  BY <2>1, <2>4, <3>1, <3>2
  <2>5. CASE prog[p] = "other"
    <3>1. Len(Script["other"]) = 0
      BY ScriptIs
    <3>. QED  BY <2>1, <2>2, <2>5, <3>1
  <2>. QED  BY <2>1, <2>3, <2>4, <2>5
<1>. QED  BY <1>1, IInvHolds, PTL

-----------------------------------------------------------------------------
(* The two-process talk: what is typed on one side is printed or under way *)
(* on the other, in order, up to and past its end, and which socket        *)
(* processes may be left spinning.                                         *)

\* There are two sides.
LEMMA OtherIs ==
  ASSUME NEW s \in Sides
  PROVE  /\ Other(s) \in Sides /\ Other(s) # s /\ Other(Other(s)) = s
         /\ \A t \in Sides : t = s \/ t = Other(s)
<1>1. \A t \in Sides : \E r \in Sides : r # t
  BY DEF Sides
<1>2. \A t \in Sides : Other(t) \in Sides /\ Other(t) # t
  BY <1>1 DEF Other
<1>. QED  BY <1>2 DEF Sides

-----------------------------------------------------------------------------
(* What was said.                                                          *)

\* t lines, and perhaps an "exit" behind them, make a sequence.
LEMMA LinesAndExit ==
  ASSUME NEW t \in Nat, NEW x \in BOOLEAN, NEW f,
         f = [k \in 1 .. t + (IF x THEN 1 ELSE 0) |-> IF k > t THEN 0 ELSE k]
  PROVE  /\ f \in Seq(Nat) /\ Len(f) = t + (IF x THEN 1 ELSE 0)
         /\ \A k \in 1 .. Len(f) : f[k] = IF k > t THEN 0 ELSE k
<1>. DEFINE n == t + (IF x THEN 1 ELSE 0)
<1>1. n \in Nat
  OBVIOUS
<1>2. f \in [1 .. n -> Nat] /\ DOMAIN f = 1 .. n
  BY <1>1
<1>3. f \in Seq(Nat)
  BY <1>1, <1>2, SeqDef
<1>4. Len(f) = n
  BY <1>1, <1>2, <1>3, LenProperties
<1>. QED  BY <1>3, <1>4

\* What a side has said is a sequence of which only the last is an "exit".
LEMMA SaidIs ==
  ASSUME TalkTypeOK, NEW s \in Sides
  PROVE  /\ Said(s) \in Seq(Nat)
         /\ Len(Said(s)) = typed[s] + (IF said[s] THEN 1 ELSE 0)
         /\ \A k \in 1 .. Len(Said(s)) : Said(s)[k] = IF k > typed[s] THEN 0 ELSE k
<1>1. typed[s] \in Nat /\ said[s] \in BOOLEAN
  BY DEF TalkTypeOK
<1>. QED  BY <1>1, LinesAndExit DEF Said

\* The same of what it has said after a step.
LEMMA SaidIsNext ==
  ASSUME TalkTypeOK', NEW s \in Sides
  PROVE  /\ Said(s)' \in Seq(Nat)
         /\ Len(Said(s)') = typed'[s] + (IF said'[s] THEN 1 ELSE 0)
         /\ \A k \in 1 .. Len(Said(s)') : Said(s)'[k] = IF k > typed'[s] THEN 0 ELSE k
<1>1. typed'[s] \in Nat /\ said'[s] \in BOOLEAN
  BY DEF TalkTypeOK
<1>. QED  BY <1>1, LinesAndExit DEF Said

\* What Append() makes, element by element.
LEMMA Appended ==
  ASSUME NEW S, NEW q \in Seq(S), NEW x \in S
  PROVE  /\ Append(q, x) \in Seq(S) /\ Len(Append(q, x)) = Len(q) + 1
         /\ \A k \in 1 .. Len(q) : Append(q, x)[k] = q[k]
         /\ Append(q, x)[Len(q) + 1] = x
<1>. QED  BY AppendProperties

\* What is typed comes behind what was said.
LEMMA SaysMore ==
  ASSUME TalkTypeOK, TalkTypeOK', NEW s \in Sides, ~ said[s], NEW line,
         \/ line = typed[s] + 1 /\ typed'[s] = typed[s] + 1 /\ ~ said'[s]
         \/ line = 0 /\ typed'[s] = typed[s] /\ said'[s]
  PROVE  line \in Nat /\ Said(s)' = Append(Said(s), line)
<1>1. typed[s] \in Nat
  BY DEF TalkTypeOK
<1>2. line \in Nat
  BY <1>1
<1>3. /\ Said(s) \in Seq(Nat) /\ Len(Said(s)) = typed[s]
      /\ \A k \in 1 .. typed[s] : Said(s)[k] = k
  BY <1>1, SaidIs
<1>4. /\ Said(s)' \in Seq(Nat) /\ Len(Said(s)') = typed[s] + 1
      /\ \A k \in 1 .. typed[s] : Said(s)'[k] = k
      /\ Said(s)'[typed[s] + 1] = line
  <2>1. /\ Said(s)' \in Seq(Nat)
        /\ Len(Said(s)') = typed'[s] + (IF said'[s] THEN 1 ELSE 0)
        /\ \A k \in 1 .. Len(Said(s)') : Said(s)'[k] = IF k > typed'[s] THEN 0 ELSE k
    BY SaidIsNext
  <2>2. Len(Said(s)') = typed[s] + 1
    BY <1>1, <2>1
  <2>3. \A k \in 1 .. typed[s] : Said(s)'[k] = k
    <3>1. \A k \in 1 .. typed[s] : k \in 1 .. Len(Said(s)') /\ ~ k > typed'[s]
      BY <1>1, <2>2
    <3>. QED  BY <2>1, <3>1
  <2>4. Said(s)'[typed[s] + 1] = line
    <3>1. typed[s] + 1 \in 1 .. Len(Said(s)')
      BY <1>1, <2>2
    <3>2. Said(s)'[typed[s] + 1] = IF typed[s] + 1 > typed'[s] THEN 0 ELSE typed[s] + 1
      BY <2>1, <3>1
    <3>. QED  BY <1>1, <3>2
  <2>. QED  BY <2>1, <2>2, <2>3, <2>4
<1>. DEFINE a == Append(Said(s), line)
<1>5. /\ a \in Seq(Nat) /\ Len(a) = typed[s] + 1
      /\ \A k \in 1 .. typed[s] : a[k] = k
      /\ a[typed[s] + 1] = line
  <2>1. /\ a \in Seq(Nat) /\ Len(a) = Len(Said(s)) + 1
        /\ \A k \in 1 .. Len(Said(s)) : a[k] = Said(s)[k]
        /\ a[Len(Said(s)) + 1] = line
    BY <1>2, <1>3, Appended
  <2>2. Len(Said(s)) = typed[s] /\ \A k \in 1 .. typed[s] : Said(s)[k] = k
    BY <1>3
  <2>. HIDE DEF a
  <2>3. Len(a) = typed[s] + 1 /\ a[typed[s] + 1] = line
    BY <2>1, <2>2
  <2>4. \A k \in 1 .. typed[s] : a[k] = k
    BY <2>1, <2>2
  <2>. QED  BY <2>1, <2>3, <2>4
<1>. HIDE DEF a
<1>6. \A k \in 1 .. Len(a) : Said(s)'[k] = a[k]
  <2>1. \A k \in 1 .. Len(a) : k \in 1 .. typed[s] \/ k = typed[s] + 1
    BY <1>1, <1>5
  <2>2. Said(s)'[typed[s] + 1] = a[typed[s] + 1]
    BY <1>4, <1>5
  <2>3. \A k \in 1 .. typed[s] : Said(s)'[k] = a[k]
    BY <1>4, <1>5
  <2>. QED  BY <2>1, <2>2, <2>3
<1>7. Said(s)' = a
  BY <1>4, <1>5, <1>6, SeqEqual
<1>. QED  BY <1>2, <1>7 DEF a

\* What may be under way: the numbers of lines.
Lines == Nat
Texts == Seq(Lines)

\* A line that is sent comes behind what is printed and under way.
LEMMA AppendBehind ==
  ASSUME NEW h \in Seq(Nat), NEW w \in Seq(Nat), NEW line \in Nat
  PROVE  h \o Append(w, line) = Append(h \o w, line)
<1>1. <<line>> \in Seq(Nat) /\ h \o w \in Seq(Nat)
  BY ConcatProperties
<1>2. Append(w, line) = w \o <<line>> /\ Append(h \o w, line) = (h \o w) \o <<line>>
  BY <1>1, AppendIsConcat
<1>. QED  BY <1>1, <1>2, ConcatAssociative

\* Three sequences in a row.
LEMMA Grouped ==
  ASSUME NEW h \in Texts, NEW a \in Texts, NEW b \in Texts
  PROVE  (h \o a) \o b = h \o (a \o b)
<1>. QED  BY ConcatAssociative DEF Texts

\* What is read of a sequence and what is left of it make the same.
LEMMA SplitBehind ==
  ASSUME NEW h \in Seq(Lines), NEW w \in Seq(Lines), NEW n \in 1 .. Len(w)
  PROVE  /\ SubSeq(w, 1, n) \in Seq(Lines) /\ SubSeq(w, n + 1, Len(w)) \in Seq(Lines)
         /\ Len(SubSeq(w, 1, n)) = n /\ \A k \in 1 .. n : SubSeq(w, 1, n)[k] = w[k]
         /\ (h \o SubSeq(w, 1, n)) \o SubSeq(w, n + 1, Len(w)) = h \o w
         /\ n = Len(w) => SubSeq(w, n + 1, Len(w)) = <<>>
<1>1. Len(w) \in Nat /\ \A k \in 1 .. Len(w) : w[k] \in Lines
  BY LenProperties, ElementOfSeq
<1>2. /\ SubSeq(w, 1, n) \in Seq(Lines) /\ Len(SubSeq(w, 1, n)) = n
      /\ \A k \in 1 .. n : SubSeq(w, 1, n)[k] = w[k]
  BY <1>1, SubSeqProperties
<1>3. SubSeq(w, n + 1, Len(w)) \in Seq(Lines)
  BY <1>1, SubSeqProperties
<1>4. SubSeq(w, 1, n) \o SubSeq(w, n + 1, Len(w)) = w
  BY <1>1, ConcatAdjacentSubSeq, SubSeqFull
<1>5. n = Len(w) => SubSeq(w, n + 1, Len(w)) = <<>>
  BY <1>1, SubSeqEmpty
<1>. DEFINE a == SubSeq(w, 1, n)
            b == SubSeq(w, n + 1, Len(w))
<1>6. (h \o a) \o b = h \o w
  <2>1. h \in Texts /\ a \in Texts /\ b \in Texts /\ a \o b = w
    BY <1>2, <1>3, <1>4 DEF Texts
  <2>. HIDE DEF a, b
  <2>2. (h \o a) \o b = h \o (a \o b)
    BY <2>1, Grouped
  <2>. QED  BY <2>1, <2>2
<1>. QED  BY <1>2, <1>3, <1>5, <1>6

\* What is left of lines without their last n.
LEMMA WithoutIs ==
  ASSUME NEW q \in Texts, NEW n \in 0 .. Len(q)
  PROVE  /\ Without(q, n) \in Texts /\ Len(Without(q, n)) = Len(q) - n
         /\ \A k \in 1 .. Len(q) - n : Without(q, n)[k] = q[k]
         /\ n = 0 => Without(q, n) = q
         /\ q = <<>> => Without(q, n) = <<>>
<1>1. Len(q) \in Nat /\ \A k \in 1 .. Len(q) : q[k] \in Lines
  BY LenProperties, ElementOfSeq DEF Texts
<1>2. /\ Without(q, n) \in Texts /\ Len(Without(q, n)) = Len(q) - n
      /\ \A k \in 1 .. Len(q) - n : Without(q, n)[k] = q[k]
  BY <1>1, SubSeqProperties DEF Without, Texts
<1>3. n = 0 => Without(q, n) = q
  BY <1>1, SubSeqFull DEF Without, Texts
<1>4. q = <<>> => Without(q, n) = <<>>
  BY <1>1, SubSeqEmpty DEF Without
<1>. QED  BY <1>2, <1>3, <1>4

\* If what was printed and what is under way were all that was said but for n
\* lines, they are all but for m + n when m of them are lost.
LEMMA WithoutBehind ==
  ASSUME NEW h \in Texts, NEW w \in Texts, NEW x \in Texts,
         NEW m \in 0 .. Len(w), NEW n \in 0 .. Len(x), h \o w = Without(x, n)
  PROVE  m + n \in 0 .. Len(x) /\ h \o Without(w, m) = Without(x, m + n)
<1>1. Len(h) \in Nat /\ Len(w) \in Nat /\ Len(x) \in Nat
  BY LenProperties DEF Texts
<1>2. /\ Len(h \o w) = Len(h) + Len(w)
      /\ \A k \in 1 .. Len(h) + Len(w) : (h \o w)[k] = IF k <= Len(h) THEN h[k] ELSE w[k - Len(h)]
  BY <1>1, ConcatProperties DEF Texts
<1>3. Len(h) + Len(w) = Len(x) - n /\ \A k \in 1 .. Len(x) - n : (h \o w)[k] = x[k]
  BY <1>2, WithoutIs
<1>4. m + n \in 0 .. Len(x)
  BY <1>1, <1>3
<1>. DEFINE a == Without(w, m)
            b == Without(x, m + n)
<1>5. /\ a \in Texts /\ Len(a) = Len(w) - m /\ Len(a) \in Nat
      /\ \A k \in 1 .. Len(w) - m : a[k] = w[k]
  BY <1>1, WithoutIs
<1>6. /\ b \in Texts /\ Len(b) = Len(x) - (m + n)
      /\ \A k \in 1 .. Len(x) - (m + n) : b[k] = x[k]
  BY <1>4, WithoutIs
<1>. HIDE DEF a, b
<1>7. /\ h \o a \in Texts /\ Len(h \o a) = Len(h) + Len(a)
      /\ \A k \in 1 .. Len(h) + Len(a) : (h \o a)[k] = IF k <= Len(h) THEN h[k] ELSE a[k - Len(h)]
  BY <1>1, <1>5, ConcatProperties DEF Texts
<1>8. Len(h \o a) = Len(b)
  BY <1>1, <1>3, <1>5, <1>6, <1>7
<1>9. ASSUME NEW k \in 1 .. Len(h \o a)  PROVE (h \o a)[k] = b[k]
  <2>1. k \in 1 .. Len(h) + Len(a) /\ k \in 1 .. Len(x) - n /\ k \in 1 .. Len(x) - (m + n)
    BY <1>1, <1>3, <1>5, <1>7
  <2>2. b[k] = x[k] /\ (h \o w)[k] = x[k]
    BY <1>3, <1>6, <2>1
  <2>3. k > Len(h) => a[k - Len(h)] = w[k - Len(h)]
    <3>1. k > Len(h) => k - Len(h) \in 1 .. Len(w) - m
      BY <1>1, <1>5, <2>1
    <3>. QED  BY <1>5, <3>1
  <2>4. k \in 1 .. Len(h) + Len(w)
    BY <1>3, <2>1
  <2>. QED  BY <1>1, <1>2, <1>7, <2>1, <2>2, <2>3, <2>4
<1>10. h \o a = b
  BY <1>6, <1>7, <1>8, <1>9, SeqEqual DEF Texts
<1>. QED  BY <1>4, <1>10 DEF a, b

-----------------------------------------------------------------------------
(* Types.                                                                  *)

\* The end of processes keeps every type.
LEMMA TypeLeaves ==
  ASSUME TalkTypeOK, NEW s \in Sides, NEW left, Leaves(s, left)
  PROVE  TalkTypeOK'
<1>1. /\ kpc' \in [Sides -> {"type", "kill", "gone"}]
      /\ spc' \in [Sides -> {"read", "kill", "gone"}]
  <2>1. /\ kpc \in [Sides -> {"type", "kill", "gone"}]
        /\ spc \in [Sides -> {"read", "kill", "gone"}]
        /\ \E x \in {kpc[s], "gone"} : kpc' = [kpc EXCEPT ![s] = x]
        /\ \E x \in {spc[s], "gone"} : spc' = [spc EXCEPT ![s] = x]
    BY DEF Leaves, TalkTypeOK
  <2>. QED  BY <2>1
<1>2. wire' \in [Sides -> Seq(Nat)] /\ cut' \in [Sides -> BOOLEAN]
  <2>1. wire \in [Sides -> Seq(Nat)] /\ cut \in [Sides -> BOOLEAN]
    BY DEF TalkTypeOK
  <2>2. CASE UNCHANGED <<wire, cut>>
    BY <2>1, <2>2
  <2>3. ASSUME NEW n \in 0 .. Len(wire[Other(s)]),
               wire' = [wire EXCEPT ![s] = <<>>, ![Other(s)] = Without(@, n)],
               cut' = [cut EXCEPT ![Other(s)] = @ \/ n > 0]
        PROVE  wire' \in [Sides -> Seq(Nat)] /\ cut' \in [Sides -> BOOLEAN]
    <3>1. wire[Other(s)] \in Texts
      BY <2>1, OtherIs DEF Texts, Lines
    <3>2. Without(wire[Other(s)], n) \in Seq(Nat) /\ <<>> \in Seq(Nat)
      BY <3>1, WithoutIs, EmptySeq DEF Texts, Lines
    <3>3. wire' = [[wire EXCEPT ![s] = <<>>] EXCEPT ![Other(s)] = Without(wire[Other(s)], n)]
      BY <2>1, <2>3, OtherIs
    <3>4. wire' \in [Sides -> Seq(Nat)]
      BY <2>1, <3>2, <3>3
    <3>5. cut' \in [Sides -> BOOLEAN]
      BY <2>1, <2>3
    <3>. QED  BY <3>4, <3>5
  <2>. QED  BY <2>2, <2>3 DEF Leaves
<1>3. link' \in [Sides -> {"open", "fin", "err", "rst"}]
  <2>1. link \in [Sides -> {"open", "fin", "err", "rst"}]
    BY DEF TalkTypeOK
  <2>2. \/ link' = link
        \/ \E x \in {link[Other(s)], "fin", "err"} : link' = [link EXCEPT ![Other(s)] = x]
    BY DEF Leaves
  <2>. QED  BY <2>1, <2>2, OtherIs
<1>. QED  BY <1>1, <1>2, <1>3 DEF Leaves, TalkTypeOK

\* So does a write().
LEMMA TypeSend ==
  ASSUME TalkTypeOK, NEW s \in Sides, NEW line \in Nat, Send(s, line)
  PROVE  /\ wire' \in [Sides -> Seq(Nat)] /\ cut' \in [Sides -> BOOLEAN]
         /\ link' \in [Sides -> {"open", "fin", "err", "rst"}]
<1>1. wire \in [Sides -> Seq(Nat)] /\ cut \in [Sides -> BOOLEAN]
  BY DEF TalkTypeOK
<1>2. ASSUME UNCHANGED <<wire, cut>>
      PROVE  wire' \in [Sides -> Seq(Nat)] /\ cut' \in [Sides -> BOOLEAN]
  BY <1>1, <1>2
<1>3. ASSUME wire' = [wire EXCEPT ![Other(s)] = Append(@, line)], UNCHANGED cut
      PROVE  wire' \in [Sides -> Seq(Nat)] /\ cut' \in [Sides -> BOOLEAN]
  <2>1. Append(wire[Other(s)], line) \in Seq(Nat)
    BY <1>1, OtherIs, AppendProperties
  <2>. QED  BY <1>1, <1>3, <2>1
<1>4. ASSUME NEW n \in 0 .. Len(wire[s]), wire' = [wire EXCEPT ![s] = Without(@, n)],
             cut' = [cut EXCEPT ![s] = @ \/ n > 0]
      PROVE  wire' \in [Sides -> Seq(Nat)] /\ cut' \in [Sides -> BOOLEAN]
  <2>1. wire[s] \in Texts
    BY <1>1 DEF Texts, Lines
  <2>2. Without(wire[s], n) \in Seq(Nat)
    BY <2>1, WithoutIs DEF Texts, Lines
  <2>3. wire' \in [Sides -> Seq(Nat)]
    BY <1>1, <1>4, <2>2
  <2>4. cut' \in [Sides -> BOOLEAN]
    BY <1>1, <1>4
  <2>. QED  BY <2>3, <2>4
<1>5. wire' \in [Sides -> Seq(Nat)] /\ cut' \in [Sides -> BOOLEAN]
  BY <1>2, <1>3, <1>4 DEF Send
<1>6. link' \in [Sides -> {"open", "fin", "err", "rst"}]
  BY DEF Send, TalkTypeOK
<1>. QED  BY <1>5, <1>6

\* So does a read().
LEMMA TypeRead ==
  ASSUME TalkTypeOK, NEW s \in Sides, Read(s)
  PROVE  TalkTypeOK'
<1>1. PICK n \in 1 .. Len(wire[s]) :
        /\ heard' = [heard EXCEPT ![s] = @ \o SubSeq(wire[s], 1, n)]
        /\ wire' = [wire EXCEPT ![s] = SubSeq(@, n + 1, Len(@))]
        /\ spc' = [spc EXCEPT ![s] = IF wire[s][1] = 0 THEN "kill" ELSE @]
        /\ missed' = [missed EXCEPT ![s] = \E k \in 2 .. n : wire[s][k] = 0]
  BY DEF Read
<1>2. wire[s] \in Seq(Lines) /\ heard[s] \in Seq(Lines)
  BY DEF TalkTypeOK, Lines
<1>3. SubSeq(wire[s], 1, n) \in Seq(Lines) /\ SubSeq(wire[s], n + 1, Len(wire[s])) \in Seq(Lines)
  BY <1>2, SplitBehind
<1>4. heard[s] \o SubSeq(wire[s], 1, n) \in Seq(Lines)
  BY <1>2, <1>3, ConcatProperties
<1>5. wire' \in [Sides -> Seq(Nat)] /\ heard' \in [Sides -> Seq(Nat)]
  BY <1>1, <1>3, <1>4 DEF TalkTypeOK, Lines
<1>6. spc' \in [Sides -> {"read", "kill", "gone"}] /\ missed' \in [Sides -> BOOLEAN]
  BY <1>1 DEF TalkTypeOK
<1>. QED  BY <1>5, <1>6 DEF Read, TalkTypeOK

\* Every step keeps every type.
LEMMA TalkTypeStep ==
  ASSUME TalkTypeOK, [TalkNext]_talkVars
  PROVE  TalkTypeOK'
<1>1. CASE UNCHANGED talkVars
  BY <1>1 DEF talkVars, TalkTypeOK
<1>2. ASSUME NEW s \in Sides, Type(s)  PROVE TalkTypeOK'
  <2>1. typed[s] + 1 \in Nat
    BY DEF TalkTypeOK
  <2>2. typed' \in [Sides -> Nat]
    BY <1>2, <2>1 DEF Type, TalkTypeOK
  <2>3. /\ wire' \in [Sides -> Seq(Nat)] /\ cut' \in [Sides -> BOOLEAN]
        /\ link' \in [Sides -> {"open", "fin", "err", "rst"}]
    BY <1>2, <2>1, TypeSend DEF Type
  <2>. QED  BY <1>2, <2>2, <2>3 DEF Type, TalkTypeOK
<1>3. ASSUME NEW s \in Sides, TypeExit(s)  PROVE TalkTypeOK'
  <2>1. /\ wire' \in [Sides -> Seq(Nat)] /\ cut' \in [Sides -> BOOLEAN]
        /\ link' \in [Sides -> {"open", "fin", "err", "rst"}]
    BY <1>3, TypeSend DEF TypeExit
  <2>2. /\ kpc' \in [Sides -> {"type", "kill", "gone"}]
        /\ said' \in [Sides -> BOOLEAN]
    BY <1>3 DEF TypeExit, TalkTypeOK
  <2>. QED  BY <1>3, <2>1, <2>2 DEF TypeExit, TalkTypeOK
<1>4. ASSUME NEW s \in Sides, ReadError(s)  PROVE TalkTypeOK'
  BY <1>4 DEF ReadError, TalkTypeOK
<1>. QED  BY <1>1, <1>2, <1>3, <1>4, TypeLeaves, TypeRead
          DEF TalkNext, Step, UserStep, TypeKills, Quit, EndOfFile, Interrupt, QuitParent

-----------------------------------------------------------------------------
(* Each step and the connection.                                           *)

\* What a step leaves alone of a side keeps its end of the connection.
LEMMA Untouched ==
  ASSUME NEW s \in Sides, Connected(s),
         /\ kpc'[s] = kpc[s] /\ spc'[s] = spc[s] /\ wire'[s] = wire[s]
         /\ heard'[s] = heard[s] /\ missed'[s] = missed[s] /\ said'[s] = said[s]
         /\ cut'[s] = cut[s],
         Closed(Other(s)) => Closed(Other(s))',
         typed'[Other(s)] = typed[Other(s)] /\ said'[Other(s)] = said[Other(s)],
         link'[s] = "open" <=> ~ Closed(Other(s))'
  PROVE  Connected(s)'
<1>1. Said(Other(s))' = Said(Other(s)) /\ (Closed(s)' <=> Closed(s))
  BY DEF Said, Closed
<1>. QED  BY <1>1 DEF Connected

\* What a side that is there has printed and what is under way to it stays what
\* was said but for last lines, when n of them are lost to a reset.
LEMMA LostBehind ==
  ASSUME TalkTypeOK, NEW s \in Sides, Connected(s), ~ Closed(s),
         NEW n \in 0 .. Len(wire[s]),
         Said(Other(s))' = Said(Other(s)), heard'[s] = heard[s],
         wire'[s] = Without(wire[s], n), cut'[s] <=> cut[s] \/ n > 0
  PROVE  \E m \in 0 .. Len(Said(Other(s))') :
           /\ heard'[s] \o wire'[s] = Without(Said(Other(s))', m)
           /\ m > 0 => cut'[s]
<1>1. PICK m \in 0 .. Len(Said(Other(s))) :
        heard[s] \o wire[s] = Without(Said(Other(s)), m) /\ (m > 0 => cut[s])
  BY DEF Connected
<1>2. Said(Other(s)) \in Texts /\ heard[s] \in Texts /\ wire[s] \in Texts
  BY OtherIs, SaidIs DEF TalkTypeOK, Texts, Lines
<1>3. Len(Said(Other(s))) \in Nat /\ Len(wire[s]) \in Nat
  BY <1>2, LenProperties DEF Texts
<1>4. /\ n + m \in 0 .. Len(Said(Other(s)))
      /\ heard[s] \o Without(wire[s], n) = Without(Said(Other(s)), n + m)
  BY <1>1, <1>2, WithoutBehind
<1>5. n + m > 0 => cut'[s]
  BY <1>1, <1>3
<1>. QED  BY <1>4, <1>5

\* The end of processes. The side that is left keeps what is on its way, but for
\* the last lines if the connection is reset.
LEMMA KeptByLeaves ==
  ASSUME TalkInv, NEW s \in Sides, NEW left, Leaves(s, left), ~ Closed(s)
  PROVE  \A t \in Sides : Connected(t)'
<1>. DEFINE o == Other(s)
<1>1. /\ o \in Sides /\ o # s /\ Other(o) = s /\ \A t \in Sides : t = s \/ t = o
  BY OtherIs
<1>. HIDE DEF o
<1>2. TalkTypeOK /\ Connected(s) /\ Connected(o)
  BY <1>1 DEF TalkInv
<1>3. /\ kpc'[o] = kpc[o] /\ spc'[o] = spc[o]
      /\ heard' = heard /\ missed' = missed /\ said' = said /\ typed' = typed
      /\ link'[s] = link[s]
  BY <1>1, <1>2 DEF Leaves, TalkTypeOK, o
<1>4. kpc'[s] \in {kpc[s], "gone"} /\ spc'[s] \in {spc[s], "gone"}
  BY <1>2 DEF Leaves, TalkTypeOK
<1>5. /\ wire \in [Sides -> Seq(Nat)] /\ cut \in [Sides -> BOOLEAN]
      /\ link \in [Sides -> {"open", "fin", "err", "rst"}]
      /\ wire[o] \in Texts /\ Len(wire[o]) \in Nat
  BY <1>1, <1>2, LenProperties DEF TalkTypeOK, Texts, Lines
<1>6. PICK n \in 0 .. Len(wire[o]) :
        /\ wire'[o] = Without(wire[o], n) /\ (cut'[o] <=> cut[o] \/ n > 0)
        /\ cut'[s] = cut[s]
        /\ Closed(s)' => wire'[s] = <<>> /\ link'[o] # "open"
        /\ ~ Closed(s)' => wire'[s] = wire[s] /\ link'[o] = link[o] /\ n = 0
  <2>1. CASE ~ Closed(s)'
    <3>1. UNCHANGED <<wire, link, cut>>
      BY <2>1 DEF Leaves, Closed
    <3>2. 0 \in 0 .. Len(wire[o]) /\ Without(wire[o], 0) = wire[o]
      BY <1>5, WithoutIs
    <3>. QED  BY <1>1, <1>5, <2>1, <3>1, <3>2
  <2>2. CASE Closed(s)'
    <3>1. PICK n \in 0 .. Len(wire[o]) :
            /\ wire' = [wire EXCEPT ![s] = <<>>, ![o] = Without(@, n)]
            /\ cut' = [cut EXCEPT ![o] = @ \/ n > 0]
      BY <2>2 DEF Leaves, Closed, o
    <3>2. link'[o] # "open"
      BY <1>1, <1>5, <2>2 DEF Leaves, Closed, o
    <3>3. wire'[s] = <<>> /\ wire'[o] = Without(wire[o], n)
      BY <1>1, <1>5, <3>1
    <3>4. cut'[s] = cut[s] /\ (cut'[o] <=> cut[o] \/ n > 0)
      BY <1>1, <1>5, <3>1
    <3>. QED  BY <2>2, <3>2, <3>3, <3>4
  <2>. QED  BY <2>1, <2>2
<1>7. /\ Closed(o)' <=> Closed(o)
      /\ Said(o)' = Said(o) /\ Said(s)' = Said(s)
  BY <1>3 DEF Closed, Said
<1>8. Connected(o)'
  <2>1. link'[o] = "open" <=> ~ Closed(s)'
    BY <1>1, <1>2, <1>6 DEF Connected
  <2>2. ~ Closed(o) =>
          \E m \in 0 .. Len(Said(Other(o))') :
            heard'[o] \o wire'[o] = Without(Said(Other(o))', m) /\ (m > 0 => cut'[o])
    BY <1>1, <1>2, <1>3, <1>6, <1>7, LostBehind
  <2>3. wire[o] = <<>> => wire'[o] = <<>>
    BY <1>5, <1>6, WithoutIs
  <2>4. cut'[o] => Closed(s)'
    <3>1. cut[o] => Closed(s)
      BY <1>1, <1>2 DEF Connected
    <3>. QED  BY <1>5, <1>6, <3>1
  <2>. QED  BY <1>1, <1>2, <1>3, <1>7, <2>1, <2>2, <2>3, <2>4 DEF Connected
<1>9. Connected(s)'
  <2>1. kpc'[s] # "type" \/ kpc'[s] = kpc[s]
    BY <1>4
  <2>2. ~ Closed(s)' =>
          \E m \in 0 .. Len(Said(Other(s))') :
            heard'[s] \o wire'[s] = Without(Said(Other(s))', m) /\ (m > 0 => cut'[s])
    BY <1>2, <1>3, <1>6, <1>7 DEF Connected, o
  <2>. QED  BY <1>2, <1>3, <1>4, <1>6, <1>7, <2>1, <2>2 DEF Connected, o
<1>. QED  BY <1>1, <1>8, <1>9

\* A line or an "exit" is typed: it is under way if the other side is there.
LEMMA KeptBySend ==
  ASSUME TalkInv, TalkTypeOK', NEW s \in Sides, NEW line, Send(s, line), kpc[s] = "type",
         UNCHANGED <<spc, heard, missed>>,
         \A t \in Sides \ {s} : kpc'[t] = kpc[t] /\ typed'[t] = typed[t] /\ said'[t] = said[t],
         \/ /\ line = typed[s] + 1 /\ typed'[s] = typed[s] + 1
            /\ said'[s] = said[s] /\ kpc'[s] = kpc[s]
         \/ /\ line = 0 /\ typed'[s] = typed[s] /\ said'[s] = TRUE /\ kpc'[s] = "kill"
  PROVE  \A t \in Sides : Connected(t)'
<1>. DEFINE o == Other(s)
<1>1. /\ o \in Sides /\ o # s /\ Other(o) = s /\ \A t \in Sides : t = s \/ t = o
  BY OtherIs
<1>. HIDE DEF o
<1>2. TalkTypeOK /\ Connected(s) /\ Connected(o) /\ ~ said[s]
  BY <1>1 DEF TalkInv, Connected
<1>3. /\ ~ Closed(s) /\ ~ Closed(s)'
      /\ Closed(o)' <=> Closed(o)
  BY <1>1 DEF Closed
<1>4. /\ wire \in [Sides -> Seq(Nat)] /\ cut \in [Sides -> BOOLEAN]
      /\ link \in [Sides -> {"open", "fin", "err", "rst"}]
      /\ wire[s] \in Texts /\ Len(wire[s]) \in Nat
  BY <1>2, LenProperties DEF TalkTypeOK, Texts, Lines
<1>5. PICK n \in 0 .. Len(wire[s]) :
        /\ wire'[s] = Without(wire[s], n) /\ (cut'[s] <=> cut[s] \/ n > 0)
        /\ n > 0 => link[s] # "open"
  <2>1. CASE wire'[s] = wire[s] /\ cut' = cut
    <3>1. 0 \in 0 .. Len(wire[s]) /\ Without(wire[s], 0) = wire[s]
      BY <1>4, WithoutIs
    <3>. QED  BY <1>4, <2>1, <3>1
  <2>2. ASSUME NEW n \in 0 .. Len(wire[s]), link[s] = "fin",
               wire' = [wire EXCEPT ![s] = Without(@, n)], cut' = [cut EXCEPT ![s] = @ \/ n > 0]
        PROVE  /\ wire'[s] = Without(wire[s], n) /\ (cut'[s] <=> cut[s] \/ n > 0)
               /\ n > 0 => link[s] # "open"
    <3>1. wire'[s] = Without(wire[s], n)
      BY <1>4, <2>2
    <3>2. cut'[s] <=> cut[s] \/ n > 0
      BY <1>4, <2>2
    <3>. QED  BY <2>2, <3>1, <3>2
  <2>3. \/ wire'[s] = wire[s] /\ cut' = cut
        \/ /\ link[s] = "fin"
           /\ \E n \in 0 .. Len(wire[s]) :
                /\ wire' = [wire EXCEPT ![s] = Without(@, n)]
                /\ cut' = [cut EXCEPT ![s] = @ \/ n > 0]
    BY <1>1, <1>4 DEF Send, o
  <2>. QED  BY <2>1, <2>2, <2>3
<1>6. cut'[o] = cut[o] /\ link'[o] = link[o]
  BY <1>1, <1>4 DEF Send, o
<1>7. link'[s] = "open" <=> link[s] = "open"
  <2>1. \/ link[s] = "open" /\ link' = link
        \/ link[s] # "open" /\ (link' = link \/ link' = [link EXCEPT ![s] = "rst"])
    BY <1>4 DEF Send
  <2>. QED  BY <1>4, <2>1
<1>8. Connected(s)'
  <2>1. Said(o)' = Said(o)
    BY <1>1 DEF Said
  <2>2. \E m \in 0 .. Len(Said(Other(s))') :
          heard'[s] \o wire'[s] = Without(Said(Other(s))', m) /\ (m > 0 => cut'[s])
    BY <1>2, <1>3, <1>5, <2>1, LostBehind DEF o
  <2>3. wire[s] = <<>> => wire'[s] = <<>>
    BY <1>4, <1>5, WithoutIs
  <2>4. cut'[s] => Closed(o)
    <3>1. (cut[s] => Closed(o)) /\ (link[s] # "open" => Closed(o))
      BY <1>2 DEF Connected, o
    <3>. QED  BY <1>4, <1>5, <3>1
  <2>. QED  BY <1>1, <1>2, <1>3, <1>7, <2>1, <2>2, <2>3, <2>4 DEF Connected, o
<1>9. line \in Nat /\ Said(s)' = Append(Said(s), line)
  <2>1. \/ line = typed[s] + 1 /\ typed'[s] = typed[s] + 1 /\ ~ said'[s]
        \/ line = 0 /\ typed'[s] = typed[s] /\ said'[s]
    BY <1>2
  <2>. QED  BY <1>2, <2>1, SaysMore
<1>10. Connected(o)'
  <2>1. link[o] = "open" /\ ~ missed[o] /\ ~ cut[o]
    BY <1>1, <1>2, <1>3 DEF Connected
  <2>2. CASE Closed(o)
    <3>1. link[s] # "open"
      BY <1>2, <2>2 DEF Connected, o
    <3>2. wire'[o] = wire[o]
      BY <1>1, <1>4, <3>1 DEF Send, o
    <3>. QED  BY <1>1, <1>2, <1>3, <1>6, <2>1, <2>2, <3>2 DEF Connected
  <2>3. CASE ~ Closed(o)
    <3>1. link[s] = "open"
      BY <1>2, <2>3 DEF Connected, o
    <3>2. wire'[o] = Append(wire[o], line)
      BY <1>1, <1>4, <3>1 DEF Send, o
    <3>3. heard[o] \in Seq(Nat) /\ wire[o] \in Seq(Nat) /\ Said(s) \in Texts /\ Len(Said(s)) \in Nat
      BY <1>1, <1>2, SaidIs, LenProperties DEF TalkTypeOK, Texts, Lines
    <3>4. heard[o] \o wire[o] = Said(s)
      <4>1. PICK m \in 0 .. Len(Said(s)) :
              heard[o] \o wire[o] = Without(Said(s), m) /\ (m > 0 => cut[o])
        BY <1>1, <1>2, <2>3 DEF Connected
      <4>2. m = 0
        BY <2>1, <3>3, <4>1
      <4>. QED  BY <3>3, <4>1, <4>2, WithoutIs
    <3>5. heard[o] \o wire'[o] = Said(s)'
      <4>1. heard[o] \in Seq(Nat) /\ wire[o] \in Seq(Nat) /\ line \in Nat
        BY <1>9, <3>3
      <4>2. heard[o] \o Append(wire[o], line) = Append(heard[o] \o wire[o], line)
        BY <4>1, AppendBehind
      <4>. QED  BY <1>9, <3>2, <3>4, <4>2
    <3>6. Said(s)' \in Texts /\ Len(Said(s)') \in Nat
      BY SaidIsNext, LenProperties DEF Texts, Lines
    <3>7. 0 \in 0 .. Len(Said(s)') /\ heard[o] \o wire'[o] = Without(Said(s)', 0)
      BY <3>5, <3>6, WithoutIs
    <3>8. \E m \in 0 .. Len(Said(s)') :
            heard'[o] \o wire'[o] = Without(Said(s)', m) /\ (m > 0 => cut'[o])
      BY <3>7
    <3>. QED  BY <1>1, <1>2, <1>3, <1>6, <2>1, <2>3, <3>8 DEF Connected
  <2>. QED  BY <2>2, <2>3
<1>. QED  BY <1>1, <1>8, <1>10

\* Lines are read, and with them an "exit" in front, behind another line, or
\* none.
LEMMA KeptByRead ==
  ASSUME TalkInv, TalkTypeOK', NEW s \in Sides, Read(s)
  PROVE  \A t \in Sides : Connected(t)'
<1>. DEFINE o == Other(s)
<1>1. /\ o \in Sides /\ o # s /\ Other(o) = s /\ \A t \in Sides : t = s \/ t = o
  BY OtherIs
<1>. HIDE DEF o
<1>2. TalkTypeOK /\ Connected(s) /\ Connected(o) /\ spc[s] = "read" /\ ~ Closed(s)
  BY <1>1 DEF TalkInv, Read, Closed
<1>3. PICK n \in 1 .. Len(wire[s]) :
        /\ heard' = [heard EXCEPT ![s] = @ \o SubSeq(wire[s], 1, n)]
        /\ wire' = [wire EXCEPT ![s] = SubSeq(@, n + 1, Len(@))]
        /\ spc' = [spc EXCEPT ![s] = IF wire[s][1] = 0 THEN "kill" ELSE @]
        /\ missed' = [missed EXCEPT ![s] = \E k \in 2 .. n : wire[s][k] = 0]
        /\ UNCHANGED <<kpc, link, typed, said, cut>>
  BY DEF Read
<1>. DEFINE h == heard[s]
            w == wire[s]
            a == SubSeq(w, 1, n)
            b == SubSeq(w, n + 1, Len(w))
<1>4. /\ h \in Seq(Lines) /\ w \in Seq(Lines) /\ Len(h) \in Nat /\ Len(w) \in Nat
      /\ n \in 1 .. Len(w) /\ n <= Len(w)
  BY <1>2, LenProperties DEF TalkTypeOK, Lines
<1>5. /\ heard'[s] = h \o a /\ wire'[s] = b
      /\ spc'[s] = (IF w[1] = 0 THEN "kill" ELSE "read")
      /\ missed'[s] = \E k \in 2 .. n : w[k] = 0
  BY <1>2, <1>3 DEF TalkTypeOK
<1>6. /\ a \in Seq(Lines) /\ b \in Seq(Lines) /\ Len(a) = n /\ \A k \in 1 .. n : a[k] = w[k]
      /\ (h \o a) \o b = h \o w
      /\ n = Len(w) => b = <<>>
  <2>. HIDE DEF h, w
  <2>. QED  BY <1>4, SplitBehind
<1>7. /\ kpc'[o] = kpc[o] /\ spc'[o] = spc[o] /\ wire'[o] = wire[o]
      /\ heard'[o] = heard[o] /\ missed'[o] = missed[o]
  BY <1>1, <1>2, <1>3 DEF TalkTypeOK
<1>8. ~ Closed(s)' /\ (Closed(o)' <=> Closed(o))
  BY <1>2, <1>3, <1>5, <1>7 DEF Closed
<1>9. Said(o)' = Said(o) /\ Said(s)' = Said(s)
  BY <1>3 DEF Said
<1>10. Connected(o)'
  BY <1>1, <1>2, <1>3, <1>7, <1>8, <1>9 DEF Connected
<1>11. PICK m \in 0 .. Len(Said(o)) : h \o w = Without(Said(o), m) /\ (m > 0 => cut[s])
  BY <1>2 DEF Connected, o
<1>12. ~ missed[s]
  <2>1. w # <<>>
    BY <1>3, <1>4, EmptySeq
  <2>. QED  BY <1>2, <2>1 DEF Connected
<1>13. \A k \in 1 .. Len(h) : h[k] # 0
  BY <1>2, <1>12 DEF Connected
<1>. HIDE DEF a, b, h, w
<1>14. spc'[s] = "read" /\ ~ missed'[s] => \A k \in 1 .. Len(heard'[s]) : heard'[s][k] # 0
  <2>1. SUFFICES ASSUME w[1] # 0, \A k \in 2 .. n : w[k] # 0, NEW k \in 1 .. Len(h \o a)
                 PROVE  (h \o a)[k] # 0
    BY <1>5
  <2>2. k \in 1 .. Len(h) + n /\ (h \o a)[k] = IF k <= Len(h) THEN h[k] ELSE a[k - Len(h)]
    <3>1. Len(h \o a) = Len(h) + n
      BY <1>4, <1>6, ConcatProperties
    <3>. QED  BY <1>4, <1>6, <3>1, ConcatProperties
  <2>3. CASE k <= Len(h)
    BY <1>4, <1>13, <2>2, <2>3
  <2>4. CASE k > Len(h)
    <3>1. k - Len(h) \in 1 .. n
      BY <1>4, <2>2, <2>4
    <3>2. a[k - Len(h)] = w[k - Len(h)] /\ w[k - Len(h)] # 0
      BY <1>3, <1>6, <2>1, <3>1
    <3>. QED  BY <1>4, <2>2, <2>4, <3>2
  <2>. QED  BY <1>4, <2>2, <2>3, <2>4
<1>15. missed'[s] => said'[o] /\ wire'[s] = <<>>
  <2>1. SUFFICES ASSUME NEW k \in 2 .. n, w[k] = 0  PROVE said[o] /\ b = <<>>
    BY <1>3, <1>5
  <2>2. Len(h) + k \in 1 .. Len(h) + Len(w)
    BY <1>3, <1>4
  <2>3. /\ Len(Said(o)) \in Nat /\ Len(Said(o)) - m = Len(h) + Len(w)
        /\ Said(o)[Len(h) + k] = 0
    <3>1. Len(h \o w) = Len(h) + Len(w)
      BY <1>4, ConcatProperties
    <3>2. (h \o w)[Len(h) + k] = IF Len(h) + k <= Len(h) THEN h[Len(h) + k] ELSE w[Len(h) + k - Len(h)]
      BY <1>4, <2>2, ConcatProperties
    <3>3. ~ (Len(h) + k <= Len(h)) /\ Len(h) + k - Len(h) = k
      BY <1>3, <1>4
    <3>4. Said(o) \in Texts /\ Len(Said(o)) \in Nat
      BY <1>1, <1>2, SaidIs, LenProperties DEF Texts, Lines
    <3>5. /\ Len(h \o w) = Len(Said(o)) - m
          /\ \A i \in 1 .. Len(Said(o)) - m : (h \o w)[i] = Said(o)[i]
      BY <1>11, <3>4, WithoutIs
    <3>6. Said(o)[Len(h) + k] = (h \o w)[Len(h) + k]
      BY <2>2, <3>1, <3>5
    <3>. QED  BY <2>1, <3>1, <3>2, <3>3, <3>4, <3>5, <3>6
  <2>4. /\ typed[o] \in Nat /\ Len(Said(o)) = typed[o] + (IF said[o] THEN 1 ELSE 0)
        /\ Said(o)[Len(h) + k] = IF Len(h) + k > typed[o] THEN 0 ELSE Len(h) + k
    <3>1. Len(h) + k \in 1 .. Len(Said(o))
      BY <1>4, <1>11, <2>2, <2>3
    <3>. QED  BY <1>1, <1>2, <3>1, SaidIs DEF TalkTypeOK
  <2>5. Len(h) + k > typed[o]
    BY <1>4, <2>2, <2>3, <2>4
  <2>6. said[o] /\ k = Len(w)
    BY <1>3, <1>4, <1>11, <2>3, <2>4, <2>5
  <2>. QED  BY <1>3, <1>4, <1>6, <2>6
<1>16. m \in 0 .. Len(Said(o)') /\ heard'[s] \o wire'[s] = Without(Said(o)', m)
  BY <1>5, <1>6, <1>9, <1>11
<1>17. Connected(s)'
  <2>1. cut'[s] = cut[s] /\ (m > 0 => cut[s])
    BY <1>3, <1>11
  <2>2. ~ Closed(s)' =>
          \E i \in 0 .. Len(Said(Other(s))') :
            heard'[s] \o wire'[s] = Without(Said(Other(s))', i) /\ (i > 0 => cut'[s])
    BY <1>16, <2>1 DEF o
  <2>. QED  BY <1>1, <1>2, <1>3, <1>8, <1>14, <1>15, <2>1, <2>2 DEF Connected, o
<1>. QED  BY <1>1, <1>10, <1>17

-----------------------------------------------------------------------------
(* The theorems.                                                           *)

\* At first nothing was said.
LEMMA InitTalkInv == TalkInit => TalkInv
<1>. SUFFICES ASSUME TalkInit  PROVE TalkInv
  OBVIOUS
<1>1. <<>> \in Seq(Nat) /\ Len(<<>>) = 0
  BY EmptySeq
<1>2. TalkTypeOK
  <2>1. /\ kpc \in [Sides -> {"type", "kill", "gone"}]
        /\ spc \in [Sides -> {"read", "kill", "gone"}]
    BY DEF TalkInit
  <2>2. wire \in [Sides -> Seq(Nat)] /\ heard \in [Sides -> Seq(Nat)]
    BY <1>1 DEF TalkInit
  <2>3. link \in [Sides -> {"open", "fin", "err", "rst"}]
    BY DEF TalkInit
  <2>. QED  BY <2>1, <2>2, <2>3 DEF TalkInit, TalkTypeOK
<1>3. ASSUME NEW s \in Sides  PROVE Connected(s)
  <2>1. Other(s) \in Sides
    BY OtherIs
  <2>2. link[s] = "open" <=> ~ Closed(Other(s))
    BY <2>1 DEF TalkInit, Closed
  <2>3. heard[s] \o wire[s] = Without(Said(Other(s)), 0)
    <3>1. Said(Other(s)) \in Seq(Nat) /\ Len(Said(Other(s))) = 0
      BY <1>2, <2>1, SaidIs DEF TalkInit
    <3>2. Said(Other(s)) = <<>>
      BY <3>1, EmptySeq
    <3>3. Without(<<>>, 0) = <<>>
      BY <1>1, SubSeqEmpty DEF Without
    <3>. QED  BY <1>1, <3>2, <3>3, ConcatEmptySeq DEF TalkInit
  <2>4. 0 \in 0 .. Len(Said(Other(s)))
    BY <1>2, <2>1, SaidIs DEF TalkInit
  <2>. QED  BY <1>1, <2>1, <2>2, <2>3, <2>4 DEF TalkInit, Connected
<1>. QED  BY <1>2, <1>3 DEF TalkInv

\* Every step keeps both ends of the connection.
LEMMA NextTalkInv == TalkInv /\ [TalkNext]_talkVars => TalkInv'
<1>. SUFFICES ASSUME TalkInv, [TalkNext]_talkVars  PROVE TalkInv'
  OBVIOUS
<1>1. TalkTypeOK'
  BY TalkTypeStep DEF TalkInv
<1>2. CASE UNCHANGED talkVars
  <2>1. ASSUME NEW s \in Sides  PROVE Connected(s)'
    <3>1. Connected(s) /\ Said(Other(s))' = Said(Other(s))
      BY <1>2 DEF talkVars, TalkInv, Said
    <3>2. UNCHANGED <<kpc, spc, wire, link, said, heard, missed, cut>>
      BY <1>2 DEF talkVars
    <3>. QED  BY <3>1, <3>2 DEF Connected, Closed
  <2>. QED  BY <1>1, <2>1 DEF TalkInv
<1>3. ASSUME NEW s \in Sides, Type(s)  PROVE \A t \in Sides : Connected(t)'
  <2>1. /\ Send(s, typed[s] + 1) /\ kpc[s] = "type" /\ typed'[s] = typed[s] + 1
        /\ \A t \in Sides \ {s} : typed'[t] = typed[t]
        /\ UNCHANGED <<kpc, spc, said, heard, missed>>
    BY <1>3 DEF Type, TalkInv, TalkTypeOK
  <2>. QED  BY <1>1, <2>1, KeptBySend
<1>4. ASSUME NEW s \in Sides, TypeExit(s)  PROVE \A t \in Sides : Connected(t)'
  <2>1. /\ Send(s, 0) /\ kpc[s] = "type" /\ kpc'[s] = "kill" /\ said'[s] = TRUE
        /\ \A t \in Sides \ {s} : kpc'[t] = kpc[t] /\ said'[t] = said[t]
        /\ UNCHANGED <<spc, typed, heard, missed>>
    BY <1>4 DEF TypeExit, TalkInv, TalkTypeOK
  <2>. QED  BY <1>1, <2>1, KeptBySend
<1>5. ASSUME NEW s \in Sides, TypeKills(s) \/ Quit(s) \/ EndOfFile(s) \/ Interrupt(s) \/ QuitParent(s)
      PROVE  \A t \in Sides : Connected(t)'
  <2>1. ~ Closed(s)
    BY <1>5 DEF TypeKills, Quit, EndOfFile, Interrupt, QuitParent, Closed
  <2>. QED  BY <1>5, <2>1, KeptByLeaves DEF TypeKills, Quit, EndOfFile, Interrupt, QuitParent
<1>6. ASSUME NEW s \in Sides, ReadError(s)  PROVE \A t \in Sides : Connected(t)'
  <2>1. \A t \in Sides : link'[t] = "open" <=> link[t] = "open"
    BY <1>6 DEF ReadError, TalkInv, TalkTypeOK
  <2>2. UNCHANGED <<kpc, spc, wire, typed, said, heard, missed, cut>>
    BY <1>6 DEF ReadError
  <2>3. SUFFICES ASSUME NEW t \in Sides  PROVE Connected(t)'
    OBVIOUS
  <2>4. Connected(t) /\ (Closed(Other(t))' <=> Closed(Other(t)))
    BY <2>2 DEF TalkInv, Closed
  <2>5. link'[t] = "open" <=> ~ Closed(Other(t))'
    BY <2>1, <2>4 DEF Connected
  <2>. QED  BY <2>2, <2>4, <2>5, Untouched
<1>7. ASSUME NEW s \in Sides, Read(s)  PROVE \A t \in Sides : Connected(t)'
  BY <1>1, <1>7, KeptByRead
<1>. QED  BY <1>1, <1>2, <1>3, <1>4, <1>5, <1>6, <1>7 DEF TalkNext, Step, UserStep, TalkInv

\* All that is typed on one side is printed or under way on the other, in
\* order, as long as that side is there, but for last lines that a reset has
\* overtaken after the first has ended.
THEOREM TalkInvHolds == TalkSpec => []TalkInv
<1>. QED  BY InitTalkInv, NextTalkInv, PTL DEF TalkSpec

\* A socket process is left spinning only where the other side has ended
\* without "exit" or its "exit" was read behind another line or overtaken by a
\* reset.
THEOREM SpinsUnnoticedHolds == TalkSpec => []SpinsUnnoticed
<1>1. TalkInv => SpinsUnnoticed
  <2>. SUFFICES ASSUME TalkInv, NEW s \in Sides, spc[s] = "read", wire[s] = <<>>,
                       said[Other(s)], ~ missed[s], ~ cut[s]
                PROVE  FALSE
    BY DEF SpinsUnnoticed
  <2>1. TalkTypeOK /\ Connected(s) /\ ~ Closed(s) /\ Other(s) \in Sides
    BY OtherIs DEF TalkInv, Closed
  <2>2. heard[s] = Said(Other(s))
    <3>1. heard[s] \in Seq(Nat) /\ heard[s] \o <<>> = heard[s]
      BY <2>1, ConcatEmptySeq DEF TalkTypeOK
    <3>2. PICK n \in 0 .. Len(Said(Other(s))) :
            heard[s] \o <<>> = Without(Said(Other(s)), n) /\ (n > 0 => cut[s])
      BY <2>1 DEF Connected
    <3>3. Said(Other(s)) \in Texts /\ Len(Said(Other(s))) \in Nat
      BY <2>1, SaidIs, LenProperties DEF Texts, Lines
    <3>4. n = 0
      BY <3>2, <3>3
    <3>. QED  BY <3>1, <3>2, <3>3, <3>4, WithoutIs
  <2>3. typed[Other(s)] \in Nat /\ Len(heard[s]) = typed[Other(s)] + 1
    BY <2>1, <2>2, SaidIs DEF TalkTypeOK
  <2>4. typed[Other(s)] + 1 \in 1 .. Len(heard[s])
    BY <2>3
  <2>5. heard[s][typed[Other(s)] + 1] = 0
    BY <2>1, <2>2, <2>3, <2>4, SaidIs
  <2>. QED  BY <2>1, <2>4, <2>5 DEF Connected
<1>. QED  BY <1>1, TalkInvHolds, PTL
=============================================================================
