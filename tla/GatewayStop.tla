---------------------------- MODULE GatewayStop ----------------------------
(***************************************************************************)
(* stop() and wait() of the Gateway (src/gateway/gateway.cpp) around its   *)
(* connections: one thread stops it while IoPool's threads, the monitor    *)
(* and the drain threads run, and another waits for its end.               *)
(*                                                                         *)
(* wait_mtx_ is held between the test of a predicate and the sleep, by     *)
(* stop() and by wait().  The drain threads and stop()'s last step notify  *)
(* without it.  _IoPool_Disable() (external) disables every handle and     *)
(* returns when IoPool's threads have ended, without having raised         *)
(* BEFORE_CLOSE everywhere (docs/design/architecture.md).                  *)
(***************************************************************************)
EXTENDS SendQueue

VARIABLES
    stopper,  \* where stop() is; running_ is unset from "stopping" on
    waiter,   \* where wait() is
    missed    \* a notify came between stop()'s test and its sleep (history)

stopVars == <<stopper, waiter, missed>>
allVars == <<vars, stopVars>>

StopTypeOK ==
    /\ TypeOK
    /\ stopper \in {"none", "stopping", "free", "test", "falling", "asleep",
                    "notify", "returned"}
    /\ waiter \in {"test", "falling", "asleep", "returned"}
    /\ missed \in BOOLEAN
    /\ ~(stopper = "falling" /\ waiter = "falling")

StopInit ==
    /\ Init
    /\ stopper = "none" /\ waiter = "test" /\ missed = FALSE

running == stopper = "none"

-----------------------------------------------------------------------------
(* The threads that were there before.                                     *)

\* IoPool has its threads, and the monitor may run.
PoolRuns == stopper \in {"none", "stopping"}

\* Callbacks, and what they, the monitor and stop() send and disable.
PoolStep ==
    /\ PoolRuns
    /\ \/ \E c \in Conns : Callback(c) \/ Send(c) \/ Disable(c)
       \/ Sends \/ Puts
    /\ UNCHANGED stopVars

DrainStep == Drains /\ UNCHANGED stopVars

\* A notify wakes whoever is asleep.
DrainNotifies ==
    /\ NotifyAll
    /\ stopper' = IF stopper = "asleep" THEN "test" ELSE stopper
    /\ waiter' = IF waiter = "asleep" THEN "test" ELSE waiter
    /\ missed' = (missed \/ stopper = "falling")

-----------------------------------------------------------------------------
(* stop().                                                                 *)

StopGoes(from, to) ==
    /\ stopper = from /\ stopper' = to
    /\ UNCHANGED <<waiter, missed>>

\* running_.exchange(false): a second stop() returns at once.
Stop == StopGoes("none", "stopping") /\ UNCHANGED vars

\* The monitor, whose loop finds running_ unset, is joined, every session
\* failed and the listeners disabled; _IoPool_Disable() lets what its threads
\* have begun return and leaves no handle.
DisablePool ==
    /\ StopGoes("stopping", "free")
    /\ found = {} /\ \A n \in Nodes : at[n] # "released"
    /\ \A c \in Conns : handle[c].slot \notin {"callback", "returning"}
    /\ handle' = [c \in Conns |-> Closed]
    /\ UNCHANGED <<at, node, found, drains, notifying, owner, addressed,
                   enqueued, submitted>>

\* What no callback has released is destroyed and put back.
FreeNodes ==
    /\ StopGoes("free", "test")
    /\ at' = [n \in Nodes |-> "free"]
    /\ node' = [n \in Nodes |-> [node[n] EXCEPT !.send_queue = <<>>]]
    /\ UNCHANGED <<handle, found, drains, notifying, owner, addressed,
                   enqueued, submitted>>

NoDrain == \A d \in DOMAIN drains : drains[d] = 0

\* Mutant of TestDrains: stop() does not take wait_mtx_ to wait for drains that
\* have ended already.
TestDrainsUnlocked ==
    /\ NoDrain \/ waiter # "falling"
    /\ StopGoes("test", IF NoDrain THEN "notify" ELSE "falling")
    /\ UNCHANGED vars

\* cv_.wait()'s test of drain_workers_, with wait_mtx_.
TestDrains ==
    /\ waiter # "falling"
    /\ StopGoes("test", IF NoDrain THEN "notify" ELSE "falling")
    /\ UNCHANGED vars

\* The sleep gives wait_mtx_ back.
FallAsleep == StopGoes("falling", "asleep") /\ UNCHANGED vars

\* The last notify_all().
NotifyWaiter ==
    /\ stopper = "notify" /\ stopper' = "returned"
    /\ waiter' = IF waiter = "asleep" THEN "test" ELSE waiter
    /\ UNCHANGED <<vars, missed>>

StopStep == DisablePool \/ FreeNodes \/ TestDrains \/ FallAsleep \/ NotifyWaiter

-----------------------------------------------------------------------------
(* wait().                                                                 *)

\* cv_.wait()'s test of running_, with wait_mtx_.
WaitTests ==
    /\ waiter = "test" /\ stopper # "falling"
    /\ waiter' = IF running THEN "falling" ELSE "returned"
    /\ UNCHANGED <<vars, stopper, missed>>

WaitSleeps ==
    /\ waiter = "falling" /\ waiter' = "asleep"
    /\ UNCHANGED <<vars, stopper, missed>>

WaitStep == WaitTests \/ WaitSleeps

\* A condition variable may also wake up on its own.
SpuriousWakeup ==
    /\ \/ stopper = "asleep" /\ stopper' = "test" /\ UNCHANGED waiter
       \/ waiter = "asleep" /\ waiter' = "test" /\ UNCHANGED stopper
    /\ UNCHANGED <<vars, missed>>

-----------------------------------------------------------------------------

StopNext ==
    \/ PoolStep \/ DrainStep \/ DrainNotifies
    \/ Stop \/ StopStep \/ WaitStep \/ SpuriousWakeup

StopSpec == StopInit /\ [][StopNext]_allVars

\* Threads go on, and IoPool sends what it took as long as it runs.
FairStopSpec ==
    /\ StopSpec
    /\ \A c \in Conns : WF_allVars(PoolRuns /\ SentCallback(c) /\ UNCHANGED stopVars)
    /\ WF_allVars(PoolRuns /\ (Sends \/ Puts) /\ UNCHANGED stopVars)
    /\ WF_allVars(DrainStep \/ DrainNotifies)
    /\ WF_allVars(StopStep)
    /\ WF_allVars(WaitStep)

-----------------------------------------------------------------------------
(* Properties.                                                             *)

\* The drain threads use the Gateway: none is left when stop() has returned.
NoDrainOutlivesStop == stopper \in {"notify", "returned"} => NoDrain

\* A thread asleep on cv_ is still to be notified: stop() by the last drain,
\* unless that one notified between its test and its sleep, and wait() by
\* stop()'s last step.
NoLostNotify ==
    /\ stopper = "asleep" /\ ~missed => ~NoDrain \/ notifying > 0
    /\ stopper = "returned" => waiter \in {"test", "returned"}

\* stop() gets to its end, unless the notify of the last drain came between its
\* test and its sleep; and wait() returns when stop() has, although running_ is
\* unset and cv_ notified without wait_mtx_.
StopAndWaitReturn ==
    /\ stopper = "stopping" ~> stopper = "returned" \/ missed
    /\ stopper = "returned" ~> waiter = "returned"

\* "stop() waits for the drain workers to exit" (M2.md:182): it returns, not
\* before they have, and lets wait() return.
StopWaitsForDrains == [](NoDrainOutlivesStop /\ NoLostNotify) /\ StopAndWaitReturn
=============================================================================
