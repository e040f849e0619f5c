-------------------------------- MODULE Board --------------------------------
(***************************************************************************)
(* The two drivers of fri that signal a process, with the programs that    *)
(* register with them, on one board: kernelTimer/el2440_led.c ("led"),     *)
(* whose timer raises SIGUSR1 again and again, and signal_keybutton/       *)
(* el2440_key.c ("key"), whose interrupts do at each key.  Both ask for    *)
(* the same major number, so one of them is loaded at a time, and either   *)
(* program, kernelTimer/test.c ("test") and signal_keybutton/sig.c ("sig") *)
(* registers with the one that is loaded.                                  *)
(***************************************************************************)
EXTENDS Integers, Sequences, FiniteSets

CONSTANTS
  Pids,       \* the process ids; they are reused
  Keys,       \* the board's keys, four in the code
  FirstKey,   \* the one whose request_irq() gives probe()'s result
  Ticks,      \* timer ticks for each signal; 10 in the code
  MaxStarts   \* bound on the programs that are started

ASSUME BoardAssumption ==
  /\ Pids \subseteq Nat \ {0} /\ FirstKey \in Keys
  /\ Ticks \in Nat \ {0} /\ MaxStarts \in Nat

VARIABLES
  kernel,     \* "ok", or "undefined" once it went through a broken list or
              \* into code that is no longer there
  module,     \* the driver that is loaded: "none", "led", "key"
  id,         \* the process id the driver was given last
  timers,     \* which timers run: the driver's "own", and a "stray" one of a
              \* driver that was unloaded
  counter,    \* the ticks since the last signal
  irqs,       \* the keys whose interrupts the loaded driver has requested
  strayIrqs,  \* those requested by a driver that was unloaded
  probed,     \* probe() returned 0, so that remove() will be called
  prog,       \* what runs under a process id: "none", "test", "sig", "other",
              \* or "zombie"
  pc,         \* how many of its program's steps it has made
  handled,    \* it has a handler for SIGUSR1
  opened,     \* it has the driver's device open
  pending,    \* a SIGUSR1 is to be delivered to it
  parent,     \* the process that forked it, 0 if that is not of interest
  starts,     \* how many programs were started
  misused     \* the timer was written to twice or its driver unloaded with the
              \* timer running, or a request_irq() failed

driverVars == <<module, id, timers, counter, irqs, strayIrqs, probed>>
procVars == <<prog, pc, handled, opened, parent>>
vars == <<kernel, driverVars, procVars, pending, starts, misused>>

\* Mutant of Script: test.c, too, sets its handler after it has given its id.
ScriptLate == [test |-> <<"open", "write", "signal">>,
               sig |-> <<"open", "write", "signal">>, other |-> <<>>]

\* The calls of the programs that matter here, in their order.
Script == [test |-> <<"signal", "open", "write">>,
           sig |-> <<"open", "write", "signal">>, other |-> <<>>]

Runs(p) == prog[p] \in DOMAIN Script
Free == {p \in Pids : prog[p] = "none"}

Init ==
  /\ kernel = "ok" /\ module = "none" /\ id = 0 /\ timers = {} /\ counter = 0
  /\ irqs = {} /\ strayIrqs = {} /\ probed = FALSE
  /\ prog = [p \in Pids |-> "none"] /\ pc = [p \in Pids |-> 0]
  /\ handled = [p \in Pids |-> FALSE] /\ opened = [p \in Pids |-> FALSE]
  /\ pending = [p \in Pids |-> FALSE] /\ parent = [p \in Pids |-> 0]
  /\ starts = 0 /\ misused = FALSE

-----------------------------------------------------------------------------
(* Loading and unloading. A driver that is open stays loaded; one that is  *)
(* unloaded takes its variables along.                                     *)

LoadLed ==
  /\ module = "none"
  /\ module' = "led"
  /\ UNCHANGED <<kernel, id, counter, timers, irqs, strayIrqs, probed, procVars, pending, starts, misused>>

\* probe() goes on when a request fails, gives nothing back and returns the
\* result of the first, which driver_register() does not pass on.
LoadKey ==
  /\ module = "none"
  /\ module' = "key"
  /\ \E ks \in SUBSET (Keys \ strayIrqs) :
       /\ irqs' = ks /\ probed' = (FirstKey \in ks)
       /\ misused' = (misused \/ ks # Keys)
  /\ UNCHANGED <<kernel, id, timers, counter, strayIrqs, procVars, pending, starts>>

InUse == \E p \in Pids : Runs(p) /\ opened[p]

\* led_exit() does not delete the timer.
UnloadLed ==
  /\ module = "led" /\ ~ InUse
  /\ module' = "none" /\ id' = 0 /\ counter' = 0
  /\ timers' = IF timers = {} THEN {} ELSE {"stray"}
  /\ misused' = (misused \/ timers # {})
  /\ UNCHANGED <<kernel, irqs, strayIrqs, probed, procVars, pending, starts>>

\* Mutant of UnloadKey: remove() frees the first key's interrupt only.
UnloadKeyFirst ==
  /\ module = "key" /\ ~ InUse
  /\ module' = "none" /\ id' = 0 /\ irqs' = {} /\ probed' = FALSE
  /\ strayIrqs' = IF probed THEN (strayIrqs \union irqs) \ {FirstKey}
                  ELSE strayIrqs \union irqs
  /\ UNCHANGED <<kernel, timers, counter, procVars, pending, starts, misused>>

\* remove() frees all interrupts, but it is not called if probe() failed.
UnloadKey ==
  /\ module = "key" /\ ~ InUse
  /\ module' = "none" /\ id' = 0 /\ irqs' = {} /\ probed' = FALSE
  /\ strayIrqs' = IF probed THEN {} ELSE strayIrqs \union irqs
  /\ UNCHANGED <<kernel, timers, counter, procVars, pending, starts, misused>>

-----------------------------------------------------------------------------
(* What the hardware makes the drivers do.                                 *)

\* kill_proc(id, SIGUSR1): nothing happens if no such process runs.
Notify == pending' = [p \in Pids |-> pending[p] \/ (p = id /\ Runs(p))]

Breaks == kernel' = "undefined" /\ UNCHANGED <<driverVars, procVars, pending, starts, misused>>

\* Mutant of Tick: the timer is not added again when it has signalled.
TickOnce ==
  /\ "own" \in timers /\ module = "led"
  /\ IF counter = Ticks THEN counter' = 1 /\ Notify /\ timers' = timers \ {"own"}
     ELSE counter' = counter + 1 /\ UNCHANGED <<pending, timers>>
  /\ UNCHANGED <<kernel, module, id, irqs, strayIrqs, probed, procVars, starts, misused>>

\* The timer's function, which adds the timer again.
Tick ==
  /\ "own" \in timers /\ module = "led"
  /\ IF counter = Ticks THEN counter' = 1 /\ Notify
     ELSE counter' = counter + 1 /\ UNCHANGED pending
  /\ UNCHANGED <<kernel, module, id, timers, irqs, strayIrqs, probed, procVars, starts, misused>>

\* A timer's function or an interrupt's is gone with its driver.
StrayCall ==
  /\ "stray" \in timers \/ strayIrqs # {}
  /\ Breaks

Press ==
  /\ irqs # {} /\ Notify
  /\ UNCHANGED <<kernel, driverVars, procVars, starts, misused>>

-----------------------------------------------------------------------------
(* The processes. A signal is delivered before a process goes on.          *)

StartProg(p) ==
  /\ p \in Free /\ starts < MaxStarts
  /\ \E name \in DOMAIN Script : prog' = [prog EXCEPT ![p] = name]
  /\ pc' = [pc EXCEPT ![p] = 0] /\ handled' = [handled EXCEPT ![p] = FALSE]
  /\ opened' = [opened EXCEPT ![p] = FALSE] /\ parent' = [parent EXCEPT ![p] = 0]
  /\ pending' = [pending EXCEPT ![p] = FALSE]
  /\ starts' = starts + 1
  /\ UNCHANGED <<kernel, driverVars, misused>>

\* Whether process p is at a call named step.
At(p, step) ==
  /\ Runs(p) /\ ~ pending[p]
  /\ pc[p] < Len(Script[prog[p]]) /\ Script[prog[p]][pc[p] + 1] = step

SetHandler(p) ==
  /\ At(p, "signal")
  /\ handled' = [handled EXCEPT ![p] = TRUE] /\ pc' = [pc EXCEPT ![p] = @ + 1]
  /\ UNCHANGED <<kernel, driverVars, prog, opened, parent, pending, starts, misused>>

\* Without a driver open() fails, and write() will; neither is looked at.
Open(p) ==
  /\ At(p, "open")
  /\ opened' = [opened EXCEPT ![p] = module # "none"] /\ pc' = [pc EXCEPT ![p] = @ + 1]
  /\ UNCHANGED <<kernel, driverVars, prog, handled, parent, pending, starts, misused>>

\* led_write() initialises and adds the timer, whether it runs or not: what is
\* linked twice may break the kernel's list.
WriteLed ==
  /\ module = "led"
  /\ timers' = timers \union {"own"}
  /\ IF "own" \in timers THEN kernel' \in {"ok", "undefined"} /\ misused' = TRUE
     ELSE UNCHANGED <<kernel, misused>>

WriteId(p) ==
  /\ At(p, "write") /\ opened[p]
  /\ \/ WriteLed
     \/ module = "key" /\ UNCHANGED <<timers, kernel, misused>>
  /\ id' = p /\ pc' = [pc EXCEPT ![p] = @ + 1]
  /\ UNCHANGED <<module, counter, irqs, strayIrqs, probed, prog, handled, opened, parent,
                 pending, starts>>

WriteFails(p) ==
  /\ At(p, "write") /\ ~ opened[p]
  /\ pc' = [pc EXCEPT ![p] = @ + 1]
  /\ UNCHANGED <<kernel, driverVars, prog, handled, opened, parent, pending, starts, misused>>

\* Process p ends. A parent that runs does not wait for it: it stays a zombie.
\* Its own zombies go with it.
Gone(p) ==
  /\ prog' = [q \in Pids |->
       IF q = p THEN IF parent[p] # 0 THEN "zombie" ELSE "none"
       ELSE IF prog[q] = "zombie" /\ parent[q] = p THEN "none" ELSE prog[q]]
  /\ parent' = [q \in Pids |-> IF parent[q] = p THEN 0 ELSE parent[q]]
  /\ pending' = [pending EXCEPT ![p] = FALSE] /\ opened' = [opened EXCEPT ![p] = FALSE]
  /\ pc' = [pc EXCEPT ![p] = 0] /\ handled' = [handled EXCEPT ![p] = FALSE]
  /\ UNCHANGED <<kernel, driverVars, starts, misused>>

End(p) == Runs(p) /\ Gone(p)

\* The program has no handler (yet).
Killed(p) == Runs(p) /\ pending[p] /\ ~ handled[p] /\ Gone(p)

Count(p) ==
  /\ prog[p] = "test" /\ pending[p] /\ handled[p]
  /\ pending' = [pending EXCEPT ![p] = FALSE]
  /\ UNCHANGED <<kernel, driverVars, procVars, starts, misused>>

\* The handler of sig.c forks. The child goes on where its parent was, with
\* the device open; if there can be no more processes the parent exits.
Fork(p) ==
  /\ prog[p] = "sig" /\ pending[p] /\ handled[p]
  /\ \/ Free = {} /\ Gone(p)
     \/ \E q \in Free :
          /\ prog' = [prog EXCEPT ![q] = "sig"] /\ pc' = [pc EXCEPT ![q] = pc[p]]
          /\ handled' = [handled EXCEPT ![q] = TRUE]
          /\ opened' = [opened EXCEPT ![q] = opened[p]]
          /\ parent' = [parent EXCEPT ![q] = p]
          /\ pending' = [pending EXCEPT ![p] = FALSE, ![q] = FALSE]
          /\ UNCHANGED <<kernel, driverVars, starts, misused>>

-----------------------------------------------------------------------------
Deliver(p) == Killed(p) \/ Count(p) \/ Fork(p)

ProcStep(p) ==
  StartProg(p) \/ SetHandler(p) \/ Open(p) \/ WriteId(p) \/ WriteFails(p) \/ End(p) \/ Deliver(p)

Next ==
  /\ kernel = "ok"
  /\ \/ LoadLed \/ LoadKey \/ UnloadLed \/ UnloadKey \/ Tick \/ StrayCall \/ Press
     \/ \E p \in Pids : ProcStep(p)

Spec == Init /\ [][Next]_vars

\* The timer ticks and signals are delivered. Nobody has to press a key, load
\* a driver or start a program.
FairSpec ==
  /\ Spec /\ WF_vars(kernel = "ok" /\ Tick)
  /\ \A p \in Pids : WF_vars(kernel = "ok" /\ Deliver(p))

-----------------------------------------------------------------------------
TypeOK ==
  /\ kernel \in {"ok", "undefined"} /\ module \in {"none", "led", "key"}
  /\ id \in Pids \union {0} /\ timers \subseteq {"own", "stray"} /\ counter \in 0 .. Ticks
  /\ irqs \subseteq Keys /\ strayIrqs \subseteq Keys /\ probed \in BOOLEAN
  /\ prog \in [Pids -> DOMAIN Script \union {"none", "zombie"}]
  /\ pc \in [Pids -> 0 .. 3] /\ parent \in [Pids -> Pids \union {0}]
  /\ handled \in [Pids -> BOOLEAN] /\ opened \in [Pids -> BOOLEAN]
  /\ pending \in [Pids -> BOOLEAN]
  /\ starts \in Nat /\ misused \in BOOLEAN

\* Drivers, processes and what the kernel holds of them fit together: an open
\* device has its driver, which has its own timer or interrupts and no other.
Fits ==
  /\ \A p \in Pids : Runs(p) /\ opened[p] => module # "none"
  /\ "own" \in timers => module = "led"
  /\ irqs # {} \/ probed => module = "key"

\* The call that process p of its program has made.
Made(p, step) == \E k \in 1 .. pc[p] : Script[prog[p]][k] = step

\* However processes fork and end, a zombie has a parent, a forked process that
\* runs has one that runs, and only what runs has signals, a device or calls
\* behind it; whoever has called signal() still has the handler.
Families ==
  /\ \A p \in Pids : parent[p] # p
  /\ \A p \in Pids : prog[p] = "zombie" => parent[p] # 0
  /\ \A p \in Pids : Runs(p) /\ parent[p] # 0 => Runs(parent[p])
  /\ \A p \in Pids : ~ Runs(p) => ~ pending[p] /\ ~ opened[p]
  /\ \A p \in Pids : Runs(p) =>
       pc[p] <= Len(Script[prog[p]]) /\ (Made(p, "signal") => handled[p])

\* However programs come and go, fork and are killed, the kernel never calls
\* into a driver that is gone: only a timer that is written to twice or left
\* running, or a key whose interrupt was refused, can bring that about.
KernelSafe ==
  ~ misused => kernel = "ok" /\ strayIrqs = {} /\ "stray" \notin timers /\ (probed <=> module = "key")

IInv == TypeOK /\ Fits /\ Families /\ KernelSafe

\* The signal kills no test.c, which sets its handler before it gives its id,
\* and sig.c only between the two. Else it is a process that never registered:
\* it was given the id of one that had, and has ended.
KilledUnprepared ==
  \A p \in Pids :
    Runs(p) /\ pending[p] /\ ~ handled[p] =>
      \/ prog[p] = "sig" /\ pc[p] = 2
      \/ ~ Made(p, "write")

\* A program whose id the timer's driver holds is signalled, again and again,
\* for as long as it lives and no other is registered.
KeepsSignalling ==
  \A p \in Pids :
    module = "led" /\ Runs(p) /\ opened[p] /\ Made(p, "write") /\ id = p
      ~> pending[p] \/ ~ Runs(p) \/ id # p \/ kernel # "ok"
=============================================================================
