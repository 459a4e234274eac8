--------------------------- MODULE AppHostProofs ---------------------------
(***************************************************************************)
(* The AppHost process proved, for any number of plugin threads, inputs    *)
(* and work items and however TCP cuts the stream.                         *)
(*                                                                         *)
(* First its UI host: at most one drain is under way, no input is          *)
(* stranded, no wakeup is lost, and Loop() does not return before the      *)
(* inputs that preceded the close are handled.  Then the process implements*)
(* the UI host: each of its steps is one of UiHost or leaves its variables *)
(* alone, so that what holds of the host holds of the process.  Last, the  *)
(* packets that its parser cuts out of the stream are those sent.          *)
(***************************************************************************)
EXTENDS AppHost, Induction, SequenceTheorems

-----------------------------------------------------------------------------
(* The UI host.                                                            *)

\* What the properties need beside themselves.  Every input that arrived is
\* in one of three places; the reader owes a drain for one input alone, which
\* it queued after any close it had read.
Counted ==
    /\ Len(handled) + Len(local) + Len(input_queue) = accepted
    /\ local # <<>> => main = "dispatch"
    /\ first_quit.at <= accepted
    /\ first_quit.by = "nobody" <=> ~quit_flag
    /\ thread[Reader] = "post" =>
         /\ Len(input_queue) = 1
         /\ first_quit.by = "reader" => first_quit.at < accepted

HostInv == TypeOK /\ OneDrain /\ NoStrandedInput /\ NoLostWakeup /\ Counted

\* Where the drains are after an item is put at the end of the queue.
LEMMA AppendDrains ==
    ASSUME NEW q \in Seq(Items), NEW x \in Items
    PROVE  DrainsIn(Append(q, x)) =
             IF x = "drain" THEN DrainsIn(q) \cup {Len(q) + 1} ELSE DrainsIn(q)
  BY DEF DrainsIn, Items

\* Where they are after the first item is taken.
LEMMA TailDrains ==
    ASSUME NEW q \in Seq(Items), q # <<>>
    PROVE  /\ Head(q) \in Items /\ Tail(q) \in Seq(Items)
           /\ \A i \in DrainsIn(Tail(q)) : i + 1 \in DrainsIn(q) /\ i \in Nat \ {0}
           /\ Head(q) = "drain" => 1 \in DrainsIn(q)
           /\ Head(q) # "drain" =>
                \A i \in DrainsIn(q) : i - 1 \in DrainsIn(Tail(q))
  BY DEF DrainsIn, Items

LEMMA InitHolds == Init => HostInv
  <1> SUFFICES ASSUME Init PROVE HostInv
    OBVIOUS
  <1> USE DEF Init
  <1>1. TypeOK
    <2>1. thread \in [Threads -> ThreadPlaces] /\ main \in MainPlaces
      BY DEF ThreadPlaces, MainPlaces
    <2>2. post_queue \in Seq(Items)
      OBVIOUS
    <2>3. input_queue \in Seq(Nat) /\ local \in Seq(Nat) /\ handled \in Seq(Nat)
      OBVIOUS
    <2>4. first_quit \in [by : {"nobody", "reader", "plugin"}, at : Nat]
      OBVIOUS
    <2>5. QED BY <2>1, <2>2, <2>3, <2>4 DEF TypeOK
  <1>2. DrainItems = {}
    BY DEF DrainItems, DrainsIn
  <1>3. thread[Reader] = "idle"
    BY DEF Threads
  <1>4. OneDrain
    BY <1>2, <1>3 DEF OneDrain
  <1>5. NoStrandedInput /\ NoLostWakeup
    BY DEF NoStrandedInput, NoLostWakeup
  <1>6. Counted
    BY <1>3 DEF Counted
  <1>7. QED BY <1>1, <1>4, <1>5, <1>6 DEF HostInv

\* Whatever plugin code does on the main thread, it queues no drain and does
\* not touch what the reader's quit recorded.
LEMMA PluginCodeKeeps ==
    ASSUME TypeOK, Counted, PluginCode, UNCHANGED accepted
    PROVE  /\ window' \in {"none", "open"} /\ quit_flag' \in BOOLEAN
           /\ post_queue' \in Seq(Items) /\ work_posted' \in Nat
           /\ first_quit' \in [by : {"nobody", "reader", "plugin"}, at : Nat]
           /\ DrainItems' = DrainItems
           /\ first_quit'.at <= accepted
           /\ first_quit'.by = "nobody" <=> ~quit_flag'
           /\ first_quit'.by = "reader" => first_quit' = first_quit
  <1>1. CASE UNCHANGED <<window, quit_flag, post_queue, work_posted, first_quit>>
    BY <1>1 DEF TypeOK, Counted, DrainItems
  <1>2. CASE SetQuit("plugin") /\ UNCHANGED <<window, post_queue, work_posted>>
    BY <1>2 DEF SetQuit, TypeOK, Counted, DrainItems
  <1>3. CASE /\ post_queue' = Append(post_queue, "work")
             /\ work_posted' = work_posted + 1
             /\ UNCHANGED <<window, quit_flag, first_quit>>
    <2>1. DrainItems' = DrainItems
      BY <1>3, AppendDrains DEF DrainItems, TypeOK, Items
    <2>2. post_queue' \in Seq(Items)
      BY <1>3 DEF TypeOK, Items
    <2>3. QED BY <1>3, <2>1, <2>2 DEF TypeOK, Counted
  <1>4. CASE /\ window' = IF window = "open" THEN "none" ELSE "open"
             /\ UNCHANGED <<quit_flag, post_queue, work_posted, first_quit>>
    BY <1>4 DEF TypeOK, Counted, DrainItems
  <1>5. QED BY <1>1, <1>2, <1>3, <1>4 DEF PluginCode

LEMMA ReaderInputPreserves == HostInv /\ ReaderInput => HostInv'
  <1> SUFFICES ASSUME HostInv, ReaderInput PROVE HostInv'
    OBVIOUS
  <1> USE DEF HostInv, ReaderInput
  <1>1. Reader \in Threads
    BY DEF Threads
  <1>2. thread'[Reader] = (IF input_work_pending THEN "idle" ELSE "post")
    BY <1>1 DEF TypeOK
  <1>3. /\ input_queue' \in Seq(Nat)
        /\ Len(input_queue') = Len(input_queue) + 1
        /\ input_queue' # <<>>
    BY SMTT(40) DEF TypeOK
  <1>4. TypeOK'
    <2>1. thread' \in [Threads -> ThreadPlaces]
      BY DEF TypeOK, ThreadPlaces
    <2>2. QED BY <1>3, <2>1 DEF TypeOK
  <1>5. OneDrain'
    BY <1>2 DEF OneDrain, DrainItems
  <1>6. NoStrandedInput'
    BY DEF NoStrandedInput
  <1>7. NoLostWakeup'
    <2>1. \A t \in Threads : thread[t] \in {"notify", "notify_last"} => thread'[t] = thread[t]
      BY DEF TypeOK
    <2>2. QED BY <2>1 DEF NoLostWakeup
  <1>8. Counted'
    <2>1. Len(handled) \in Nat /\ Len(local) \in Nat /\ Len(input_queue) \in Nat
      BY DEF TypeOK
    <2>2. Len(handled') + Len(local') + Len(input_queue') = accepted'
      <3>1. /\ Len(handled) + Len(local) + Len(input_queue) = accepted
            /\ accepted' = accepted + 1 /\ handled' = handled /\ local' = local
        BY DEF Counted
      <3> HIDE DEF HostInv, ReaderInput
      <3>2. QED BY <1>3, <2>1, <3>1
    <2>3. first_quit'.at <= accepted' /\ first_quit.at < accepted'
      BY DEF Counted, TypeOK
    <2>4. thread'[Reader] = "post" => Len(input_queue') = 1
      <3>1. ~input_work_pending => input_queue = <<>>
        BY DEF NoStrandedInput
      <3>2. QED BY <1>2, <1>3, <3>1
    <2>5. QED BY <2>2, <2>3, <2>4 DEF Counted
  <1>9. QED BY <1>4, <1>5, <1>6, <1>7, <1>8

LEMMA ReaderPostDrainPreserves == HostInv /\ ReaderPostDrain => HostInv'
  <1> SUFFICES ASSUME HostInv, ReaderPostDrain PROVE HostInv'
    OBVIOUS
  <1> USE DEF HostInv, ReaderPostDrain
  <1>1. Reader \in Threads
    BY DEF Threads
  <1>2. thread'[Reader] = "notify"
    BY <1>1 DEF TypeOK
  <1>3. post_queue' \in Seq(Items) /\ DrainItems' = DrainItems \cup {Len(post_queue) + 1}
    BY AppendDrains DEF TypeOK, Items, DrainItems
  <1>4. TypeOK'
    <2>1. thread' \in [Threads -> ThreadPlaces]
      BY DEF TypeOK, ThreadPlaces
    <2>2. QED BY <1>3, <2>1 DEF TypeOK, history
  <1>5. OneDrain'
    BY <1>2, <1>3 DEF OneDrain
  <1>6. NoStrandedInput'
    BY DEF NoStrandedInput
  <1>7. NoLostWakeup'
    BY <1>1, <1>2 DEF NoLostWakeup
  <1>8. Counted'
    BY <1>2 DEF Counted, history
  <1>9. QED BY <1>4, <1>5, <1>6, <1>7, <1>8

\* A quit is set by a thread that is about to notify.
LEMMA QuitPreserves ==
    ASSUME HostInv, NEW t \in Threads, NEW who \in {"reader", "plugin"},
           NEW place \in {"notify", "notify_last"},
           thread[t] = "idle", who = "reader" => t = Reader, SetQuit(who),
           thread' = [thread EXCEPT ![t] = place],
           UNCHANGED <<main, window, post_queue, input_queue, input_work_pending,
                       local, shutting_down, accepted, handled, work_posted>>
    PROVE  HostInv'
  <1> USE DEF HostInv
  <1>1. /\ thread'[t] = place
        /\ \A u \in Threads : u # t => thread'[u] = thread[u]
    BY DEF TypeOK
  <1>2. thread[Reader] = "post" <=> thread'[Reader] = "post"
    BY <1>1 DEF Threads
  <1>3. first_quit' \in [by : {"nobody", "reader", "plugin"}, at : Nat]
    BY DEF SetQuit, TypeOK
  <1>4. TypeOK'
    BY <1>3 DEF TypeOK, ThreadPlaces, SetQuit
  <1>5. OneDrain'
    BY <1>2 DEF OneDrain, DrainItems
  <1>6. NoStrandedInput'
    BY DEF NoStrandedInput
  <1>7. NoLostWakeup'
    BY <1>1 DEF NoLostWakeup
  <1>8. first_quit'.at <= accepted /\ quit_flag' /\ first_quit'.by # "nobody"
    BY DEF Counted, SetQuit, TypeOK
  <1>9. thread[Reader] = "post" /\ first_quit'.by = "reader" => first_quit' = first_quit
    BY DEF SetQuit, TypeOK
  <1>10. Counted'
    BY <1>2, <1>8, <1>9 DEF Counted
  <1>11. QED BY <1>4, <1>5, <1>6, <1>7, <1>10

LEMMA ReaderQuitsPreserve == HostInv /\ (ReaderClose \/ ReaderEof) => HostInv'
  <1>1. Reader \in Threads
    BY DEF Threads
  <1>2. QED BY <1>1, QuitPreserves DEF ReaderClose, ReaderEof

LEMMA ReaderStopsPreserves == HostInv /\ ReaderStops => HostInv'
  <1> SUFFICES ASSUME HostInv, ReaderStops PROVE HostInv'
    OBVIOUS
  <1> USE DEF HostInv, ReaderStops, hostVars, history
  <1>1. Reader \in Threads /\ thread'[Reader] = "ended"
    BY DEF Threads, TypeOK
  <1>2. thread' \in [Threads -> ThreadPlaces]
    BY DEF TypeOK, ThreadPlaces
  <1>3. TypeOK'
    BY <1>2 DEF TypeOK
  <1>4. \A t \in Threads : t # Reader => thread'[t] = thread[t]
    BY DEF TypeOK
  <1>5. OneDrain' /\ NoStrandedInput' /\ Counted'
    BY <1>1 DEF OneDrain, DrainItems, NoStrandedInput, Counted
  <1>6. NoLostWakeup'
    BY <1>4 DEF NoLostWakeup
  <1>7. QED BY <1>3, <1>5, <1>6

\* After notify_all() nobody waits, so the wakeup it owed is no longer due.
LEMMA ReturnFromNotifyPreserves ==
    ASSUME HostInv, NEW t \in Threads, ReturnFromNotify(t)
    PROVE  HostInv'
  <1> USE DEF HostInv, ReturnFromNotify, Notify, hostVars, history
  <1>1. PICK place \in {"idle", "ended"} : thread' = [thread EXCEPT ![t] = place]
    OBVIOUS
  <1>2. thread' \in [Threads -> ThreadPlaces]
    BY <1>1 DEF TypeOK, ThreadPlaces
  <1>3. main' \in MainPlaces /\ main' # "waiting"
    BY DEF TypeOK, MainPlaces
  <1>4. TypeOK'
    BY <1>2, <1>3 DEF TypeOK
  <1>5. Reader \in Threads /\ (thread'[Reader] = "post" <=> thread[Reader] = "post")
    BY <1>1 DEF TypeOK, Threads
  <1>6. /\ main = "drain" <=> main' = "drain"
        /\ main = "dispatch" <=> main' = "dispatch"
    OBVIOUS
  <1>7. OneDrain' /\ NoStrandedInput' /\ Counted'
    BY <1>5, <1>6 DEF OneDrain, DrainItems, NoStrandedInput, Counted
  <1>8. NoLostWakeup'
    BY <1>3 DEF NoLostWakeup
  <1>9. QED BY <1>4, <1>7, <1>8

LEMMA WorkerPostsPreserves ==
    ASSUME HostInv, NEW t \in Workers, WorkerPosts(t)
    PROVE  HostInv'
  <1> USE DEF HostInv, WorkerPosts
  <1>1. t \in Threads /\ Reader \in Threads /\ t # Reader
    BY UiHostAssumption DEF Threads
  <1>2. /\ thread'[t] = "notify" /\ thread'[Reader] = thread[Reader]
        /\ thread' \in [Threads -> ThreadPlaces]
    BY <1>1 DEF TypeOK, ThreadPlaces
  <1>3. post_queue' \in Seq(Items) /\ DrainItems' = DrainItems
    BY AppendDrains DEF TypeOK, Items, DrainItems
  <1>4. TypeOK'
    BY <1>2, <1>3 DEF TypeOK
  <1>5. OneDrain' /\ NoStrandedInput' /\ Counted'
    BY <1>2, <1>3 DEF OneDrain, NoStrandedInput, Counted
  <1>6. NoLostWakeup'
    BY <1>1, <1>2 DEF NoLostWakeup
  <1>7. QED BY <1>4, <1>5, <1>6

LEMMA WorkerQuitsPreserves ==
    ASSUME HostInv, NEW t \in Workers, WorkerQuits(t)
    PROVE  HostInv'
  BY QuitPreserves DEF WorkerQuits, Threads

\* Setup and Work: plugin code runs and the main thread moves on, not from or
\* to a place the invariant speaks of.
LEMMA PluginRunPreserves ==
    ASSUME HostInv, PluginCode, main \in {"setup", "work"},
           main' \in {"setup", "loop", "returned"},
           UNCHANGED <<thread, input_queue, input_work_pending, local,
                       shutting_down, accepted, handled>>
    PROVE  HostInv'
  <1> USE DEF HostInv
  <1>1. /\ window' \in {"none", "open"} /\ quit_flag' \in BOOLEAN
        /\ post_queue' \in Seq(Items) /\ work_posted' \in Nat
        /\ first_quit' \in [by : {"nobody", "reader", "plugin"}, at : Nat]
        /\ DrainItems' = DrainItems
        /\ first_quit'.at <= accepted
        /\ first_quit'.by = "nobody" <=> ~quit_flag'
        /\ first_quit'.by = "reader" => first_quit' = first_quit
    BY PluginCodeKeeps
  <1>2. TypeOK'
    BY <1>1 DEF TypeOK, MainPlaces
  <1>3. OneDrain' /\ NoStrandedInput'
    BY <1>1 DEF OneDrain, NoStrandedInput
  <1>4. Counted'
    BY <1>1 DEF Counted
  <1>5. NoLostWakeup'
    BY DEF NoLostWakeup
  <1>6. QED BY <1>2, <1>3, <1>4, <1>5

LEMMA LoopPreserves == HostInv /\ Loop => HostInv'
  <1> SUFFICES ASSUME HostInv, Loop PROVE HostInv'
    OBVIOUS
  <1> USE DEF HostInv, history
  <1>0. /\ main = "loop"
        /\ UNCHANGED <<thread, window, quit_flag, input_queue, input_work_pending,
                       local, shutting_down, history>>
    BY DEF Loop
  <1>1. NoStrandedInput'
    BY <1>0 DEF NoStrandedInput
  <1>2. Counted'
    BY <1>0 DEF Counted
  <1>3. CASE post_queue # <<>>
    <2>1. main' = Head(post_queue) /\ post_queue' = Tail(post_queue)
      BY <1>3 DEF Loop
    <2>2. /\ main' \in Items /\ post_queue' \in Seq(Items)
          /\ \A i \in DrainItems' : i + 1 \in DrainItems /\ i \in Nat \ {0}
          /\ main' = "drain" => 1 \in DrainItems
          /\ main' # "drain" => \A i \in DrainItems : i - 1 \in DrainItems'
      BY <1>3, <2>1, TailDrains DEF TypeOK, DrainItems
    <2>3. TypeOK'
      BY <1>0, <2>2 DEF TypeOK, MainPlaces, Items
    <2>4. NoLostWakeup'
      BY <2>2 DEF NoLostWakeup, Items
    <2>5. \A i, j \in DrainItems' : i = j
      BY <2>2 DEF OneDrain
    <2>6. CASE main' = "drain"
      <3>1. DrainItems' = {}
        BY <2>2, <2>6 DEF OneDrain
      <3>2. QED BY <1>0, <1>1, <1>2, <2>2, <2>3, <2>4, <2>6, <3>1 DEF OneDrain
    <2>7. CASE main' # "drain"
      <3>1. DrainItems' # {} <=> DrainItems # {}
        BY <2>2, <2>7
      <3>2. OneDrain'
        BY <1>0, <2>5, <2>7, <3>1 DEF OneDrain
      <3>3. QED BY <1>1, <1>2, <2>3, <2>4, <3>2
    <2>8. QED BY <2>6, <2>7
  <1>4. CASE post_queue = <<>>
    <2>1. /\ post_queue' = post_queue
          /\ main' = IF quit_flag THEN "returned" ELSE "waiting"
      BY <1>4 DEF Loop
    <2>2. TypeOK'
      BY <1>0, <2>1 DEF TypeOK, MainPlaces
    <2>3. OneDrain'
      BY <1>0, <2>1 DEF OneDrain, DrainItems
    <2>4. NoLostWakeup'
      BY <1>0, <1>4, <2>1 DEF NoLostWakeup
    <2>5. QED BY <1>1, <1>2, <2>2, <2>3, <2>4
  <1>5. QED BY <1>3, <1>4

LEMMA DrainPreserves == HostInv /\ Drain => HostInv'
  <1> SUFFICES ASSUME HostInv, Drain PROVE HostInv'
    OBVIOUS
  <1> USE DEF HostInv, Drain, history
  <1>1. thread[Reader] # "post" /\ DrainItems = {} /\ local = <<>>
    BY DEF OneDrain, Counted
  <1>2. TypeOK'
    <2>1. local' \in Seq(Nat) /\ input_queue' \in Seq(Nat)
      BY DEF TypeOK
    <2>2. main' \in MainPlaces
      BY DEF MainPlaces
    <2>3. QED BY <2>1, <2>2 DEF TypeOK
  <1>3. OneDrain'
    BY <1>1 DEF OneDrain, DrainItems
  <1>4. NoStrandedInput' /\ NoLostWakeup'
    BY DEF NoStrandedInput, NoLostWakeup
  <1>5. Len(handled) \in Nat /\ Len(input_queue) \in Nat /\ Len(<<>>) = 0
    BY DEF TypeOK
  <1>6. Len(handled') + Len(local') + Len(input_queue') = accepted'
    <2>1. /\ Len(handled) + Len(local) + Len(input_queue) = accepted
          /\ Len(local) = 0 /\ accepted' = accepted /\ handled' = handled
          /\ local' = input_queue /\ input_queue' = <<>>
      BY <1>1, <1>5 DEF Counted
    <2> HIDE DEF HostInv, Drain
    <2>2. QED BY <1>5, <2>1
  <1>7. Counted'
    BY <1>1, <1>6 DEF Counted
  <1>8. QED BY <1>2, <1>3, <1>4, <1>7

LEMMA DispatchPreserves == HostInv /\ Dispatch => HostInv'
  <1> SUFFICES ASSUME HostInv, Dispatch PROVE HostInv'
    OBVIOUS
  <1> USE DEF HostInv
  <1>0. /\ main = "dispatch" /\ local # <<>>
        /\ handled' = Append(handled, Head(local)) /\ local' = Tail(local)
        /\ UNCHANGED <<main, thread, input_queue, input_work_pending,
                       shutting_down, accepted>>
    BY DEF Dispatch
  <1>1. /\ window' \in {"none", "open"} /\ quit_flag' \in BOOLEAN
        /\ post_queue' \in Seq(Items) /\ work_posted' \in Nat
        /\ first_quit' \in [by : {"nobody", "reader", "plugin"}, at : Nat]
        /\ DrainItems' = DrainItems
        /\ first_quit'.at <= accepted
        /\ first_quit'.by = "nobody" <=> ~quit_flag'
        /\ first_quit'.by = "reader" => first_quit' = first_quit
    <2>1. CASE PluginCode
      BY <1>0, <2>1, PluginCodeKeeps
    <2>2. CASE UNCHANGED <<window, quit_flag, post_queue, work_posted, first_quit>>
      BY <1>0, <2>2 DEF TypeOK, DrainItems, Counted
    <2>3. QED BY <2>1, <2>2 DEF Dispatch
  <1>2. /\ handled' \in Seq(Nat) /\ local' \in Seq(Nat)
        /\ Len(handled') = Len(handled) + 1 /\ Len(local') = Len(local) - 1
    BY <1>0 DEF TypeOK
  <1>3. TypeOK'
    BY <1>0, <1>1, <1>2 DEF TypeOK
  <1>4. OneDrain' /\ NoStrandedInput'
    BY <1>0, <1>1 DEF OneDrain, NoStrandedInput
  <1>5. NoLostWakeup'
    BY <1>0 DEF NoLostWakeup
  <1>6. Len(handled') + Len(local') + Len(input_queue') = accepted'
    <2>1. /\ Len(handled) + Len(local) + Len(input_queue) = accepted
          /\ Len(handled) \in Nat /\ Len(local) \in Nat /\ Len(input_queue) \in Nat
      BY DEF Counted, TypeOK
    <2> HIDE DEF HostInv
    <2>2. QED BY <1>0, <1>2, <2>1
  <1>7. Counted'
    BY <1>0, <1>1, <1>6 DEF Counted
  <1>8. QED BY <1>3, <1>4, <1>5, <1>7

\* Steps that only move the main thread, from a place where it owes nothing.
LEMMA MovePreserves ==
    ASSUME HostInv, shutting_down' \in BOOLEAN,
           UNCHANGED <<thread, hostVars, history>>,
           \/ main = "waiting" /\ main' = "loop"
           \/ main = "dispatch" /\ local = <<>> /\ main' = "loop"
           \/ main = "returned" /\ main' = "join"
           \/ main = "join" /\ main' = "exit"
    PROVE  HostInv'
  <1> USE DEF HostInv, hostVars, history
  <1>1. TypeOK'
    BY DEF TypeOK, MainPlaces
  <1>2. OneDrain' /\ NoStrandedInput' /\ NoLostWakeup'
    BY DEF OneDrain, DrainItems, NoStrandedInput, NoLostWakeup
  <1>3. Counted'
    BY DEF Counted
  <1>4. QED BY <1>1, <1>2, <1>3

LEMMA NextPreserves == HostInv /\ [Next]_vars => HostInv'
  <1> SUFFICES ASSUME HostInv, [Next]_vars PROVE HostInv'
    OBVIOUS
  <1>1. CASE MainStep
    <2>1. CASE Loop
      BY <2>1, LoopPreserves
    <2>2. CASE Work
      BY <2>2, PluginRunPreserves DEF Work
    <2>3. CASE Drain
      BY <2>3, DrainPreserves
    <2>4. CASE Dispatch
      BY <2>4, DispatchPreserves
    <2>5. CASE Drained \/ Shutdown \/ Join
      BY <2>5, MovePreserves DEF Drained, Shutdown, Join, HostInv, TypeOK
    <2>6. QED BY <1>1, <2>1, <2>2, <2>3, <2>4, <2>5 DEF MainStep
  <1>2. CASE Setup
    BY <1>2, PluginRunPreserves DEF Setup
  <1>3. CASE SpuriousWakeup
    BY <1>3, MovePreserves DEF SpuriousWakeup, HostInv, TypeOK
  <1>4. CASE ReaderStep
    BY <1>4, ReaderInputPreserves, ReaderQuitsPreserve, ReaderStopsPreserves
    DEF ReaderStep
  <1>5. CASE ReaderPostDrain
    BY <1>5, ReaderPostDrainPreserves
  <1>6. ASSUME NEW t \in Threads, ReturnFromNotify(t)
        PROVE  HostInv'
    BY <1>6, ReturnFromNotifyPreserves
  <1>7. ASSUME NEW t \in Workers, WorkerPosts(t) \/ WorkerQuits(t)
        PROVE  HostInv'
    BY <1>7, WorkerPostsPreserves, WorkerQuitsPreserves
  <1>8. CASE UNCHANGED vars
    BY <1>8 DEF vars, hostVars, history, HostInv, TypeOK, OneDrain, DrainItems,
                NoStrandedInput, NoLostWakeup, Counted
  <1>9. QED BY <1>1, <1>2, <1>3, <1>4, <1>5, <1>6, <1>7, <1>8 DEF Next

\* The coalescing of drains is exact, strands no input and loses no wakeup,
\* for any number of inputs and of threads of the plugin that post and quit.
THEOREM HostIsSound ==
    Spec => [](TypeOK /\ OneDrain /\ NoStrandedInput /\ NoLostWakeup)
  <1>1. HostInv => TypeOK /\ OneDrain /\ NoStrandedInput /\ NoLostWakeup
    BY DEF HostInv
  <1>2. QED BY <1>1, InitHolds, NextPreserves, PTL DEF Spec

\* Every variable keeps its type: queues hold what their consumers expect.
THEOREM HostIsTyped == Spec => []TypeOK
  <1>1. TypeOK /\ OneDrain /\ NoStrandedInput /\ NoLostWakeup => TypeOK
    OBVIOUS
  <1>2. QED BY <1>1, HostIsSound, PTL

\* No input is queued without the flag that says a drain is under way.
THEOREM InputsHaveDrain == Spec => []NoStrandedInput
  <1>1. TypeOK /\ OneDrain /\ NoStrandedInput /\ NoLostWakeup => NoStrandedInput
    OBVIOUS
  <1>2. QED BY <1>1, HostIsSound, PTL

\* Loop() returns with the lock held, no work posted and nothing taken out:
\* what is still queued is the one input the reader owes a drain for, and it
\* arrived after the close.
LEMMA LoopReturnsLast ==
    ASSUME HostInv, Next,
           main = "loop", main' = "returned", first_quit.by = "reader"
    PROVE  Len(handled) >= first_quit.at
  <1>1. post_queue = <<>>
    <2>1. Loop
      BY DEF Next, MainStep, Loop, Work, Drain, Dispatch, Drained, Shutdown, Join,
             Setup, SpuriousWakeup, ReaderStep, ReaderInput, ReaderClose, ReaderEof,
             ReaderStops, ReaderPostDrain, ReturnFromNotify, Notify, WorkerPosts,
             WorkerQuits
    <2>2. Head(post_queue) # "returned" \/ post_queue = <<>>
      BY TailDrains DEF HostInv, TypeOK, Items
    <2>3. QED BY <2>1, <2>2 DEF Loop
  <1>2. DrainItems = {} /\ local = <<>>
    BY <1>1 DEF DrainItems, DrainsIn, HostInv, Counted
  <1>3. /\ Len(handled) \in Nat /\ Len(input_queue) \in Nat /\ Len(local) = 0
        /\ Len(handled) + Len(local) + Len(input_queue) = accepted
        /\ first_quit.at \in Nat /\ first_quit.at <= accepted
    BY <1>2 DEF HostInv, TypeOK, Counted
  <1>4. CASE input_queue = <<>>
    <2>1. Len(input_queue) = 0
      BY <1>4
    <2>2. QED BY <1>3, <2>1
  <1>5. CASE input_queue # <<>>
    <2>1. thread[Reader] = "post"
      BY <1>2, <1>5 DEF HostInv, NoStrandedInput, OneDrain
    <2>2. Len(input_queue) = 1 /\ first_quit.at < accepted
      BY <2>1 DEF HostInv, Counted
    <2>3. QED BY <1>3, <2>2
  <1>6. QED BY <1>4, <1>5

\* An input that arrived before the close is handled before Loop() returns.
THEOREM InputsPrecedeClose == Spec => InputsBeforeClose
  <1> DEFINE Handled == main = "loop" /\ main' = "returned" /\ first_quit.by = "reader"
                          => Len(handled) >= first_quit.at
  <1>1. HostInv /\ [Next]_vars => [Handled]_vars
    BY LoopReturnsLast
  <1>2. QED BY <1>1, InitHolds, NextPreserves, PTL DEF Spec, InputsBeforeClose

-----------------------------------------------------------------------------
(* The refinement of InputFifo, step by step.                              *)

\* How the mapped queue changes with its two parts.
LEMMA MappedQueue ==
    ASSUME NEW l \in Seq(Nat), NEW q \in Seq(Nat)
    PROVE  /\ l \o q \in Seq(Nat)
           /\ Len(l \o q) = Len(l) + Len(q)
           /\ \A n \in Nat : l \o Append(q, n) = Append(l \o q, n)
           /\ l = <<>> => l \o q = q /\ q \o <<>> = q
           /\ l # <<>> => /\ l \o q # <<>>
                          /\ Head(l \o q) = Head(l)
                          /\ Tail(l \o q) = Tail(l) \o q
  <1>1. l \o q \in Seq(Nat) /\ Len(l \o q) = Len(l) + Len(q)
    BY ConcatProperties
  <1>2. ASSUME NEW n \in Nat PROVE l \o Append(q, n) = Append(l \o q, n)
    <2>1. <<n>> \in Seq(Nat)
      OBVIOUS
    <2>2. Append(q, n) = q \o <<n>> /\ Append(l \o q, n) = (l \o q) \o <<n>>
      BY <1>1, AppendIsConcat
    <2>3. (l \o q) \o <<n>> = l \o (q \o <<n>>)
      BY <2>1, ConcatAssociative
    <2>4. QED BY <2>2, <2>3
  <1>3. l = <<>> => l \o q = q /\ q \o <<>> = q
    BY ConcatEmptySeq
  <1>4. ASSUME l # <<>>
        PROVE  /\ l \o q # <<>>
               /\ Head(l \o q) = Head(l)
               /\ Tail(l \o q) = Tail(l) \o q
    <2>1. l \o q # <<>>
      BY <1>4, ConcatEqualIffEmpty
    <2>2. Len(l) \in Nat \ {0} /\ Len(q) \in Nat
      BY <1>4, EmptySeq, LenProperties
    <2>3. \A i \in 1 .. Len(l) + Len(q) :
             (l \o q)[i] = IF i <= Len(l) THEN l[i] ELSE q[i - Len(l)]
      BY ConcatProperties
    <2>4. Head(l \o q) = Head(l)
      BY <1>1, <1>4, <2>1, <2>2, <2>3
    <2>5. /\ Tail(l) \in Seq(Nat) /\ Len(Tail(l)) = Len(l) - 1
          /\ \A i \in 1 .. Len(Tail(l)) : Tail(l)[i] = l[i + 1]
      BY <1>4, HeadTailProperties
    <2>6. /\ Tail(l \o q) \in Seq(Nat) /\ Len(Tail(l \o q)) = Len(l \o q) - 1
          /\ \A i \in 1 .. Len(Tail(l \o q)) : Tail(l \o q)[i] = (l \o q)[i + 1]
      BY <1>1, <2>1, HeadTailProperties
    <2>7. /\ Tail(l) \o q \in Seq(Nat) /\ Len(Tail(l) \o q) = Len(Tail(l)) + Len(q)
          /\ \A i \in 1 .. Len(Tail(l)) + Len(q) : (Tail(l) \o q)[i] =
                IF i <= Len(Tail(l)) THEN Tail(l)[i] ELSE q[i - Len(Tail(l))]
      BY <2>5, ConcatProperties
    <2>8. Len(Tail(l \o q)) = Len(Tail(l) \o q)
      BY <1>1, <2>2, <2>5, <2>6, <2>7
    <2>9. \A i \in 1 .. Len(Tail(l \o q)) : Tail(l \o q)[i] = (Tail(l) \o q)[i]
      BY <1>1, <2>2, <2>3, <2>5, <2>6, <2>7
    <2>10. QED BY <2>1, <2>4, <2>6, <2>7, <2>8, <2>9, SeqEqual
  <1>5. QED BY <1>1, <1>2, <1>3, <1>4

\* Every step of the host is a step of the FIFO or leaves it as it is: the
\* reader's input arrives, a dispatch handles one, Loop()'s return closes.
LEMMA StepsRefine ==
    ASSUME HostInv, [Next]_vars
    PROVE  [Inputs!FifoNext]_(Inputs!fifoVars)
  <1> USE DEF Inputs!FifoNext, Inputs!fifoVars
  <1>t. /\ local \in Seq(Nat) /\ input_queue \in Seq(Nat) /\ accepted \in Nat
        /\ Len(handled) \in Nat
        /\ Len(handled) + Len(local) + Len(input_queue) = accepted
        /\ local # <<>> => main = "dispatch"
    BY DEF HostInv, TypeOK, Counted
  <1>q. /\ Len(local \o input_queue) = Len(local) + Len(input_queue)
        /\ \A n \in Nat : local \o Append(input_queue, n) = Append(local \o input_queue, n)
        /\ local = <<>> => local \o input_queue = input_queue
                           /\ input_queue \o <<>> = input_queue
        /\ local # <<>> => /\ local \o input_queue # <<>>
                           /\ Head(local \o input_queue) = Head(local)
                           /\ Tail(local \o input_queue) = Tail(local) \o input_queue
    BY <1>t, MappedQueue
  <1>1. ASSUME UNCHANGED <<local, input_queue, handled>>,
               main \in {"returned", "join", "exit"} => main' \in {"returned", "join", "exit"}
        PROVE  [Inputs!FifoNext]_(Inputs!fifoVars)
    BY <1>1 DEF Inputs!Close
  <1>2. CASE ReaderInput
    <2>1. /\ accepted < MaxInputs /\ UNCHANGED <<main, local, handled>>
          /\ input_queue' = Append(input_queue, accepted + 1)
      BY <1>2 DEF ReaderInput
    <2>2. Len(handled) + Len(local \o input_queue) = accepted
      BY <1>t, <1>q
    <2>3. local' \o input_queue' = Append(local \o input_queue, accepted + 1)
      <3>1. accepted + 1 \in Nat
        BY <1>t
      <3>2. local \o Append(input_queue, accepted + 1)
              = Append(local \o input_queue, accepted + 1)
        BY <1>q, <3>1, Zenon
      <3>3. QED BY <2>1, <3>2
    <2>4. Inputs!Accept
      BY <2>1, <2>2, <2>3 DEF Inputs!Accept
    <2>5. QED BY <2>4
  <1>3. CASE Drain
    <2>1. local = <<>>
      BY <1>3, <1>t DEF Drain
    <2>2. /\ local' \o input_queue' = local \o input_queue
          /\ handled' = handled /\ main = "drain" /\ main' = "dispatch"
      BY <1>3, <1>q, <2>1 DEF Drain, history
    <2>3. QED BY <2>2
  <1>4. CASE Dispatch
    <2>1. /\ main = "dispatch" /\ main' = main /\ local # <<>>
          /\ handled' = Append(handled, Head(local)) /\ local' = Tail(local)
          /\ input_queue' = input_queue
      BY <1>4 DEF Dispatch
    <2>2. Inputs!Handle
      BY <1>q, <2>1 DEF Inputs!Handle
    <2>3. QED BY <2>2
  <1>5. CASE Loop \/ Work \/ Setup \/ Drained \/ Shutdown \/ Join \/ SpuriousWakeup
    BY <1>1, <1>5
    DEF Loop, Work, Setup, Drained, Shutdown, Join, SpuriousWakeup, hostVars, history
  <1>6. CASE ReaderClose \/ ReaderEof \/ ReaderStops \/ ReaderPostDrain
    BY <1>1, <1>6
    DEF ReaderClose, ReaderEof, ReaderStops, ReaderPostDrain, hostVars, history
  <1>7. ASSUME NEW t \in Threads, ReturnFromNotify(t)
        PROVE  [Inputs!FifoNext]_(Inputs!fifoVars)
    BY <1>1, <1>7 DEF ReturnFromNotify, Notify, hostVars, history
  <1>8. ASSUME NEW t \in Workers, WorkerPosts(t) \/ WorkerQuits(t)
        PROVE  [Inputs!FifoNext]_(Inputs!fifoVars)
    BY <1>1, <1>8 DEF WorkerPosts, WorkerQuits
  <1>9. CASE UNCHANGED vars
    BY <1>1, <1>9 DEF vars, hostVars, history
  <1>10. QED
    BY <1>2, <1>3, <1>4, <1>5, <1>6, <1>7, <1>8, <1>9
    DEF Next, MainStep, ReaderStep

\* Exactly once and in order, for every number of inputs and threads: the
\* host's steps are steps of the FIFO.  (That each input is eventually handled
\* is ImplementsFifo's fairness, which the run checks.)
THEOREM HostIsFifo ==
    Spec => Inputs!FifoInit /\ [][Inputs!FifoNext]_(Inputs!fifoVars)
  <1>1. Init => Inputs!FifoInit
    BY DEF Init, Inputs!FifoInit
  <1>2. HostInv /\ [Next]_vars => [Inputs!FifoNext]_(Inputs!fifoVars)
    BY StepsRefine
  <1>3. QED BY <1>1, <1>2, InitHolds, NextPreserves, PTL DEF Spec

-----------------------------------------------------------------------------
(* The process as a UI host.                                               *)

\* A step of the AppHost is a step of UiHost or a stutter.
LEMMA AppStep == [AppNext]_appVars => [Next]_vars
<1> SUFFICES ASSUME [AppNext]_appVars PROVE Next \/ UNCHANGED vars
  OBVIOUS
<1>1. CASE Starting
  BY <1>1 DEF Starting, Connect, SendReady, OpenPlugin
<1>2. ASSUME NEW kinds, NEW upto, Receive(kinds, upto)
      PROVE  UNCHANGED vars
  BY <1>2 DEF Receive
<1>3. CASE HandlePacket
  <2>1. PICK next : Handle(next.header)
    BY <1>3 DEF HandlePacket
  <2>2. ReaderInput \/ ReaderClose \/ UNCHANGED vars
    BY <2>1 DEF Handle
  <2> QED
    BY <2>2 DEF Next, ReaderStep
<1>4. CASE ReaderEnds
  BY <1>4 DEF ReaderEnds, Next, ReaderStep
<1>5. ASSUME NEW t \in Threads, HostCall(t)
      PROVE  Next
  BY <1>5 DEF HostCall, Next
<1>6. CASE Main(MainStep)
  BY <1>6 DEF Main, Next
<1>7. CASE Main(Setup)
  BY <1>7 DEF Main, Next
<1>8. CASE Main(SpuriousWakeup)
  BY <1>8 DEF Main, Next
<1>9. ASSUME NEW t \in Workers, Worker(t)
      PROVE  Next
  BY <1>9 DEF Worker, Next
<1>10. CASE UNCHANGED appVars
  BY <1>10 DEF appVars
<1> QED
  BY <1>1, <1>2, <1>3, <1>4, <1>5, <1>6, <1>7, <1>8, <1>9, <1>10 DEF AppNext

\* The AppHost process is a UiHost.
THEOREM AppHostIsUiHost == AppSpec => Spec
<1>1. AppInit => Init
  BY DEF AppInit
<1>2. [AppNext]_appVars => [Next]_vars
  BY AppStep
<1> QED
  BY <1>1, <1>2, PTL DEF AppSpec, Spec

\* In the AppHost, too, at most one drain is under way, every queued input has
\* one coming and the main thread does not sleep through work or a quit.
THEOREM AppHostIsSound ==
    AppSpec => [](OneDrain /\ NoStrandedInput /\ NoLostWakeup)
<1>1. TypeOK /\ OneDrain /\ NoStrandedInput /\ NoLostWakeup
        => OneDrain /\ NoStrandedInput /\ NoLostWakeup
  OBVIOUS
<1> QED
  BY <1>1, AppHostIsUiHost, HostIsSound, PTL

\* An INPUT_EVENT that was taken out of the stream before the CLOSE_SESSION
\* that ends the Loop is handled before Loop() returns.
THEOREM AppHostHandlesInputsFirst == AppSpec => InputsBeforeClose
BY AppHostIsUiHost, InputsPrecedeClose, PTL

-----------------------------------------------------------------------------
(* Sequences put end to end.                                               *)

\* The first i of them, from the first i - 1.
FlattenStep(ss, g, i) == IF i = 1 THEN ss[i] ELSE g[i-1] \o ss[i]

\* g[i] is the first i of ss, end to end.
FlattensTo(g, ss) == g = [i \in 1 .. Len(ss) |-> FlattenStep(ss, g, i)]

\* FlattenSeq() takes the last of such a function.
LEMMA FlattenIs ==
    ASSUME NEW S, NEW ss \in Seq(Seq(S)), ss # << >>
    PROVE  \E g : FlattensTo(g, ss) /\ FlattenSeq(ss) = g[Len(ss)]
<1>0. PICK L \in Nat \ {0} : L = Len(ss)
  OBVIOUS
<1> DEFINE Upto(n, g) == /\ g = [i \in 1..L |-> g[i]]
                         /\ \A i \in 1..L : i <= n => g[i] = FlattenStep(ss, g, i)
           Sizes == {n \in Nat : \E g : Upto(n, g)}
<1>1. 0 \in Sizes
  <2>1. Upto(0, [i \in 1..L |-> << >>])
    OBVIOUS
  <2> HIDE DEF Upto
  <2> QED BY <2>1
<1>2. ASSUME NEW n \in Nat, n \in Sizes PROVE n + 1 \in Sizes
  <2>1. PICK g : Upto(n, g)
    BY <1>2
  <2> DEFINE h == [i \in 1..L |-> IF i = n+1 THEN FlattenStep(ss, g, n+1) ELSE g[i]]
  <2>2. /\ h = [i \in 1..L |-> h[i]]
        /\ n+1 \in 1..L => h[n+1] = FlattenStep(ss, g, n+1)
        /\ \A i \in 1..L : i <= n => h[i] = g[i]
    OBVIOUS
  <2> HIDE DEF h
  <2>3. ASSUME NEW i \in 1..L, i <= n+1 PROVE FlattenStep(ss, h, i) = FlattenStep(ss, g, i)
    <3>1. i # 1 => i-1 \in 1..L /\ i-1 <= n
      BY <2>3
    <3> QED BY <2>2, <3>1 DEF FlattenStep
  <2>4. ASSUME NEW i \in 1..L, i <= n+1 PROVE h[i] = FlattenStep(ss, h, i)
    <3>1. i = n+1 \/ i <= n
      BY <2>4
    <3> QED BY <2>1, <2>2, <2>3, <2>4, <3>1
  <2>5. Upto(n+1, h)
    BY <2>2, <2>4
  <2> HIDE DEF Upto
  <2> QED BY <2>5
<1>3. \A n \in Nat : n \in Sizes
  <2> HIDE DEF Sizes
  <2> QED BY <1>1, <1>2, AllNumbers
<1>4. PICK g : Upto(L, g)
  <2>1. L \in Sizes
    <3> HIDE DEF Sizes
    <3> QED BY <1>3
  <2> HIDE DEF Upto
  <2> QED BY <2>1
<1>5. FlattensTo(g, ss)
  BY <1>0, <1>4 DEF FlattensTo
<1> DEFINE G == CHOOSE h : FlattensTo(h, ss)
<1>6. FlattensTo(G, ss)
  BY <1>5
<1>7. FlattenSeq(ss) = G[Len(ss)]
  BY <1>0 DEF FlattenSeq, FlattensTo, FlattenStep
<1> HIDE DEF G
<1> QED BY <1>6, <1>7

\* Flattening with one more sequence at the end.
LEMMA FlattenAppends ==
    ASSUME NEW S, NEW ss \in Seq(Seq(S)), NEW s \in Seq(S)
    PROVE  FlattenSeq(Append(ss, s)) = IF ss = << >> THEN s ELSE FlattenSeq(ss) \o s
<1>0. PICK L \in Nat : L = Len(ss)
  OBVIOUS
<1>1. PICK tt \in Seq(Seq(S)) : /\ tt = Append(ss, s) /\ Len(tt) = L+1 /\ tt # << >>
                                /\ tt[L+1] = s
                                /\ \A i \in 1..L : tt[i] = ss[i]
  <2>1. PICK T : T = Seq(S) /\ ss \in Seq(T) /\ s \in T
    OBVIOUS
  <2>2. PICK tt : tt = Append(ss, s)
    OBVIOUS
  <2>3. /\ tt \in Seq(T) /\ tt # << >> /\ Len(tt) = Len(ss) + 1
        /\ tt[Len(ss) + 1] = s
        /\ \A i \in 1 .. Len(ss) : tt[i] = ss[i]
    BY <2>1, <2>2, AppendProperties
  <2>4. tt \in Seq(Seq(S))
    BY <2>1, <2>3
  <2> QED BY <1>0, <2>2, <2>3, <2>4
<1>2. PICK h : FlattensTo(h, tt) /\ FlattenSeq(tt) = h[L+1]
  BY <1>1, FlattenIs
<1>3. \A i \in 1 .. L+1 : h[i] = FlattenStep(tt, h, i)
  BY <1>1, <1>2 DEF FlattensTo
<1>4. CASE ss = << >>
  BY <1>0, <1>1, <1>2, <1>3, <1>4 DEF FlattenStep
<1>5. CASE ss # << >>
  <2>1. PICK g : FlattensTo(g, ss) /\ FlattenSeq(ss) = g[L]
    BY <1>0, <1>5, FlattenIs
  <2>2. \A i \in 1..L : g[i] = FlattenStep(ss, g, i)
    BY <1>0, <2>1 DEF FlattensTo
  <2> DEFINE Sizes == {n \in Nat : n \in 1..L => h[n] = g[n]}
  <2>3. 0 \in Sizes
    OBVIOUS
  <2>4. ASSUME NEW n \in Nat, n \in Sizes PROVE n + 1 \in Sizes
    <3>1. ASSUME n + 1 \in 1..L PROVE h[n+1] = g[n+1]
      <4>1. h[n+1] = FlattenStep(tt, h, n+1) /\ g[n+1] = FlattenStep(ss, g, n+1)
        BY <1>3, <2>2, <3>1
      <4>2. tt[n+1] = ss[n+1]
        BY <1>1, <3>1
      <4>3. n+1 # 1 => h[(n+1)-1] = g[(n+1)-1]
        BY <2>4, <3>1
      <4> QED BY <4>1, <4>2, <4>3 DEF FlattenStep
    <3> QED BY <3>1
  <2>5. \A n \in Nat : n \in Sizes
    <3> HIDE DEF Sizes
    <3> QED BY <2>3, <2>4, AllNumbers
  <2>6. L # 0 /\ h[L] = g[L]
    BY <1>0, <1>5, <2>5
  <2>7. h[L+1] = h[L] \o s
    <3>1. L+1 # 1 /\ (L+1)-1 = L /\ L+1 \in 1 .. L+1
      BY <2>6
    <3>2. h[L+1] = FlattenStep(tt, h, L+1)
      BY <1>3, <3>1
    <3>3. FlattenStep(tt, h, L+1) = h[L] \o tt[L+1]
      BY <3>1 DEF FlattenStep
    <3> QED BY <1>1, <3>2, <3>3
  <2> QED BY <1>1, <1>2, <1>5, <2>1, <2>6, <2>7
<1> QED BY <1>4, <1>5

-----------------------------------------------------------------------------
(* The stream that packets make.                                           *)

\* What the Gateway sends, what the bytes of it are, and the bytes of several.
Packets == [n : Nat, cmd : Kinds, magic : BOOLEAN, length : 0..1]

Wire == Packets \X Nat

Stream(ps) == FlattenSeq([i \in 1 .. Len(ps) |-> Bytes(ps[i])])

\* \o associates, said of three sequences at a time.
Associates(a, b, c) == (a \o b) \o c = a \o (b \o c)

LEMMA WireAssociates == \A a, b, c \in Seq(Wire) : Associates(a, b, c)
BY ConcatAssociative DEF Associates

\* The bytes of a packet are bytes on the wire, numbered.
LEMMA BytesOf ==
    ASSUME NEW p \in Packets
    PROVE  /\ Bytes(p) \in Seq(Wire) /\ Len(Bytes(p)) = HeaderSize + p.length
           /\ \A j \in 1 .. HeaderSize + p.length : Bytes(p)[j] = <<p, j>>
<1> USE ParserAssumption
<1>1. HeaderSize + p.length \in Nat
  BY DEF Packets
<1>2. \A j \in 1 .. HeaderSize + p.length : <<p, j>> \in Wire
  BY <1>1 DEF Wire
<1> QED BY <1>1, <1>2 DEF Bytes

\* The stream with one more packet at the end.
LEMMA StreamAppends ==
    ASSUME NEW ps \in Seq(Packets), NEW p \in Packets
    PROVE  Stream(Append(ps, p)) = IF ps = << >> THEN Bytes(p) ELSE Stream(ps) \o Bytes(p)
<1> DEFINE Blocks(s) == [i \in 1 .. Len(s) |-> Bytes(s[i])]
<1>1. Blocks(ps) \in Seq(Seq(Wire)) /\ Bytes(p) \in Seq(Wire)
  <2>1. \A i \in 1 .. Len(ps) : Bytes(ps[i]) \in Seq(Wire)
    BY BytesOf
  <2> QED BY <2>1, BytesOf
<1>2. Blocks(Append(ps, p)) = Append(Blocks(ps), Bytes(p))
  <2>1. PICK qs \in Seq(Packets) : qs = Append(ps, p) /\ Len(qs) = Len(ps) + 1
                                   /\ qs[Len(ps) + 1] = p
                                   /\ \A i \in 1 .. Len(ps) : qs[i] = ps[i]
    <3>1. PICK qs : qs = Append(ps, p)
      OBVIOUS
    <3>2. qs \in Seq(Packets) /\ Len(qs) = Len(ps) + 1 /\ qs[Len(ps) + 1] = p
          /\ \A i \in 1 .. Len(ps) : qs[i] = ps[i]
      BY <3>1, AppendProperties
    <3> QED BY <3>1, <3>2
  <2>2. Blocks(qs) \in Seq(Seq(Wire))
    <3>1. \A i \in 1 .. Len(qs) : Bytes(qs[i]) \in Seq(Wire)
      BY BytesOf
    <3> QED BY <3>1
  <2>3. PICK bs \in Seq(Seq(Wire)) :
          /\ bs = Append(Blocks(ps), Bytes(p)) /\ Len(bs) = Len(ps) + 1
          /\ bs[Len(ps) + 1] = Bytes(p)
          /\ \A i \in 1 .. Len(ps) : bs[i] = Bytes(ps[i])
    <3>0. Len(Blocks(ps)) = Len(ps) /\ \A i \in 1 .. Len(ps) : Blocks(ps)[i] = Bytes(ps[i])
      OBVIOUS
    <3>1. PICK cs \in Seq(Seq(Wire)) : cs = Blocks(ps) /\ Len(cs) = Len(ps)
                                       /\ \A i \in 1 .. Len(ps) : cs[i] = Bytes(ps[i])
      <4> HIDE DEF Blocks
      <4> QED BY <1>1, <3>0
    <3>2. PICK T : T = Seq(Wire)
      OBVIOUS
    <3>3. cs \in Seq(T) /\ Bytes(p) \in T
      BY <1>1, <3>1, <3>2
    <3> HIDE DEF Blocks
    <3>4. PICK bs : bs = Append(cs, Bytes(p))
      OBVIOUS
    <3>5. /\ bs \in Seq(T) /\ Len(bs) = Len(cs) + 1 /\ bs[Len(cs) + 1] = Bytes(p)
          /\ \A i \in 1 .. Len(cs) : bs[i] = cs[i]
      BY <3>3, <3>4, AppendProperties
    <3> QED BY <3>1, <3>2, <3>4, <3>5
  <2>4. Blocks(qs) = bs
    <3>1. \A i \in 1 .. Len(qs) : Blocks(qs)[i] = bs[i]
      BY <2>1, <2>3
    <3> QED BY <2>1, <2>2, <2>3, <3>1, SeqEqual
  <2> QED BY <2>1, <2>3, <2>4
<1>3. FlattenSeq(Append(Blocks(ps), Bytes(p)))
        = IF Blocks(ps) = << >> THEN Bytes(p) ELSE FlattenSeq(Blocks(ps)) \o Bytes(p)
  <2> HIDE DEF Blocks
  <2> QED BY <1>1, FlattenAppends
<1>4. Blocks(ps) = << >> <=> ps = << >>
  OBVIOUS
<1>5. Stream(ps) = FlattenSeq(Blocks(ps)) /\ Stream(Append(ps, p)) = FlattenSeq(Blocks(Append(ps, p)))
  BY DEF Stream
<1> HIDE DEF Blocks
<1> QED BY <1>2, <1>3, <1>4, <1>5

\* The stream of no packets, and of packets that two senders would send.
LEMMA StreamIs ==
    /\ Stream(<< >>) = << >>
    /\ \A ps \in Seq(Packets) : Stream(ps) \in Seq(Wire)
    /\ \A ps, qs \in Seq(Packets) : Stream(ps \o qs) = Stream(ps) \o Stream(qs)
<1>1. Stream(<< >>) = << >>
  BY DEF Stream, FlattenSeq
<1>2. \A ps \in Seq(Packets), p \in Packets : Bytes(p) \in Seq(Wire)
  BY BytesOf
<1> DEFINE Sizes == {n \in Nat : \A ps \in Seq(Packets) : Len(ps) = n => Stream(ps) \in Seq(Wire)}
<1>3. 0 \in Sizes
  <2>1. \A ps \in Seq(Packets) : Len(ps) = 0 => ps = << >>
    OBVIOUS
  <2>2. << >> \in Seq(Wire)
    OBVIOUS
  <2> QED BY <1>1, <2>1, <2>2
<1>4. ASSUME NEW n \in Nat, n \in Sizes PROVE n + 1 \in Sizes
  <2>1. ASSUME NEW ps \in Seq(Packets), Len(ps) = n + 1 PROVE Stream(ps) \in Seq(Wire)
    <3>1. PICK s \in Seq(Packets), p \in Packets : ps = Append(s, p)
      BY <2>1, SequenceEmptyOrAppend
    <3>2. Len(s) = n
      BY <2>1, <3>1
    <3>3. Stream(s) \in Seq(Wire) /\ Bytes(p) \in Seq(Wire)
      BY <1>4, <3>2, BytesOf
    <3>4. Stream(ps) = IF s = << >> THEN Bytes(p) ELSE Stream(s) \o Bytes(p)
      BY <3>1, StreamAppends
    <3> QED BY <3>3, <3>4
  <2> QED BY <2>1
<1>5. \A n \in Nat : n \in Sizes
  <2> HIDE DEF Sizes
  <2> QED BY <1>3, <1>4, AllNumbers
<1>6. \A ps \in Seq(Packets) : Stream(ps) \in Seq(Wire)
  BY <1>5
<1> HIDE DEF Sizes
<1>7. ASSUME NEW ps \in Seq(Packets), NEW p \in Packets
      PROVE  Stream(Append(ps, p)) = Stream(ps) \o Bytes(p)
  <2>1. Bytes(p) \in Seq(Wire)
    BY BytesOf
  <2>2. ps = << >> => Stream(ps) \o Bytes(p) = Bytes(p)
    BY <1>1, <2>1, ConcatEmptySeq
  <2> QED BY <2>2, StreamAppends
<1> DEFINE Tails == {n \in Nat : \A ps, qs \in Seq(Packets) : Len(qs) = n =>
                       Stream(ps \o qs) = Stream(ps) \o Stream(qs)}
<1>8. 0 \in Tails
  <2>1. ASSUME NEW ps \in Seq(Packets), NEW qs \in Seq(Packets), Len(qs) = 0
        PROVE  Stream(ps \o qs) = Stream(ps) \o Stream(qs)
    <3>1. qs = << >> /\ ps \o qs = ps
      BY <2>1, ConcatEmptySeq
    <3>2. Stream(ps) \o << >> = Stream(ps)
      BY <1>6, ConcatEmptySeq
    <3> QED BY <1>1, <3>1, <3>2
  <2> QED BY <2>1
<1>9. ASSUME NEW n \in Nat, n \in Tails PROVE n + 1 \in Tails
  <2>1. ASSUME NEW ps \in Seq(Packets), NEW qs \in Seq(Packets), Len(qs) = n + 1
        PROVE  Stream(ps \o qs) = Stream(ps) \o Stream(qs)
    <3>0. qs # << >>
      BY <2>1
    <3>1. PICK s \in Seq(Packets), p \in Packets : qs = Append(s, p)
      BY <3>0, SequenceEmptyOrAppend
    <3>2. Len(s) = n
      BY <2>1, <3>1
    <3>3. ps \o qs = Append(ps \o s, p) /\ ps \o s \in Seq(Packets)
      <4>1. <<p>> \in Seq(Packets) /\ qs = s \o <<p>>
        BY <3>1, AppendIsConcat
      <4>2. ps \o s \in Seq(Packets)
        OBVIOUS
      <4>3. (ps \o s) \o <<p>> = ps \o (s \o <<p>>)
        BY <4>1, ConcatAssociative
      <4>4. Append(ps \o s, p) = (ps \o s) \o <<p>>
        BY <4>2, AppendIsConcat
      <4> QED BY <4>1, <4>2, <4>3, <4>4
    <3>4. Stream(ps \o qs) = Stream(ps \o s) \o Bytes(p)
      BY <1>7, <3>3
    <3>5. Stream(ps \o s) = Stream(ps) \o Stream(s)
      BY <1>9, <3>2
    <3>6. Stream(qs) = Stream(s) \o Bytes(p)
      BY <1>7, <3>1
    <3>7. (Stream(ps) \o Stream(s)) \o Bytes(p) = Stream(ps) \o (Stream(s) \o Bytes(p))
      <4>1. Stream(ps) \in Seq(Wire) /\ Stream(s) \in Seq(Wire) /\ Bytes(p) \in Seq(Wire)
        BY <1>6, BytesOf
      <4>2. Associates(Stream(ps), Stream(s), Bytes(p))
        BY <4>1, WireAssociates
      <4> QED BY <4>2 DEF Associates
    <3> QED BY <3>4, <3>5, <3>6, <3>7
  <2> QED BY <2>1
<1>10. \A n \in Nat : n \in Tails
  <2> HIDE DEF Tails
  <2> QED BY <1>8, <1>9, AllNumbers
<1>11. \A ps, qs \in Seq(Packets) : Stream(ps \o qs) = Stream(ps) \o Stream(qs)
  BY <1>10
<1> QED BY <1>1, <1>6, <1>11

\* The stream begins with the bytes of its first packet.
LEMMA StreamBegins ==
    ASSUME NEW ps \in Seq(Packets), NEW k \in 0 .. Len(ps) - 1
    PROVE  /\ ps[k+1] \in Packets
           /\ Stream(SubSeq(ps, k+1, Len(ps)))
                = Bytes(ps[k+1]) \o Stream(SubSeq(ps, k+2, Len(ps)))
<1>1. ps[k+1] \in Packets
  OBVIOUS
<1>2. SubSeq(ps, k+1, Len(ps)) = <<ps[k+1]>> \o SubSeq(ps, (k+1)+1, Len(ps))
  BY SubSeqRecursiveFirst
<1>3. (k+1)+1 = k+2
  OBVIOUS
<1>4. SubSeq(ps, k+2, Len(ps)) \in Seq(Packets) /\ <<ps[k+1]>> \in Seq(Packets)
  BY <1>1
<1>5. Stream(<<ps[k+1]>>) = Bytes(ps[k+1])
  <2>1. << >> \in Seq(Packets) /\ <<ps[k+1]>> = Append(<< >>, ps[k+1])
    OBVIOUS
  <2> QED BY <1>1, <2>1, StreamAppends
<1>6. Stream(<<ps[k+1]>> \o SubSeq(ps, k+2, Len(ps)))
        = Stream(<<ps[k+1]>>) \o Stream(SubSeq(ps, k+2, Len(ps)))
  BY <1>4, StreamIs
<1> QED BY <1>1, <1>2, <1>3, <1>5, <1>6

\* The part of a sequence from place a+1 to place b.
IsPart(t, s, a, b) ==
    /\ t = SubSeq(s, a+1, b) /\ Len(t) = b - a
    /\ \A i \in 1 .. b-a : t[i] = s[a+i]

\* A part is a sequence over the same set.
LEMMA Part ==
    ASSUME NEW S, NEW s \in Seq(S), NEW a \in Nat, NEW b \in Nat, a <= b, b <= Len(s)
    PROVE  \E t \in Seq(S) : IsPart(t, s, a, b)
<1>1. PICK m \in Int : m = a+1
  OBVIOUS
<1>2. \A i \in m..b : s[i] \in S
  BY <1>1
<1>3. PICK t : t = SubSeq(s, m, b)
  OBVIOUS
<1>4. /\ t \in Seq(S) /\ Len(t) = (IF m <= b THEN b-m+1 ELSE 0)
      /\ \A i \in 1 .. b-m+1 : t[i] = s[m+i-1]
  BY <1>2, <1>3, SubSeqProperties
<1>5. Len(t) = b - a
  BY <1>1, <1>4
<1>6. ASSUME NEW i \in 1 .. b-a PROVE t[i] = s[a+i]
  <2>1. i \in 1 .. b-m+1 /\ m+i-1 = a+i
    BY <1>1
  <2> QED BY <1>4, <2>1
<1>7. IsPart(t, s, a, b)
  BY <1>1, <1>3, <1>5, <1>6 DEF IsPart
<1> QED BY <1>4, <1>7

\* The first n of them.
IsFront(t, s, n) == t = SubSeq(s, 1, n) /\ Len(t) = n /\ \A i \in 1..n : t[i] = s[i]

LEMMA FrontPart ==
    ASSUME NEW S, NEW s \in Seq(S), NEW n \in Nat, n <= Len(s)
    PROVE  \E t \in Seq(S) : IsFront(t, s, n)
<1>1. PICK t \in Seq(S) : IsPart(t, s, 0, n)
  BY Part
<1>2. IsFront(t, s, n)
  BY <1>1 DEF IsPart, IsFront
<1> QED BY <1>2

\* What a cut of u \o v behind x leaves, when it is x \o y.
CutsTo(u, v, x, y) ==
    /\ SubSeq(u, 1, Len(x)) = x
    /\ SubSeq(u, Len(x) + 1, Len(u)) \o v = y

LEMMA CutFront ==
    ASSUME NEW S, NEW u \in Seq(S), NEW v \in Seq(S), NEW x \in Seq(S), NEW y \in Seq(S),
           u \o v = x \o y, Len(x) <= Len(u)
    PROVE  CutsTo(u, v, x, y)
<1>0. PICK m \in Nat, n \in Nat, a \in Nat, b \in Nat :
        m = Len(u) /\ n = Len(v) /\ a = Len(x) /\ b = Len(y)
  OBVIOUS
<1>1. PICK w \in Seq(S) : w = u \o v /\ w = x \o y
  <2>1. u \o v \in Seq(S)
    BY ConcatProperties
  <2> QED BY <2>1
<1>2. /\ Len(w) = m + n /\ Len(w) = a + b
      /\ \A i \in 1 .. m+n : w[i] = IF i <= m THEN u[i] ELSE v[i - m]
      /\ \A i \in 1 .. a+b : w[i] = IF i <= a THEN x[i] ELSE y[i - a]
  BY <1>0, <1>1, ConcatProperties
<1>3. a <= m /\ a + b = m + n
  BY <1>0, <1>2
<1>4. PICK f \in Seq(S) : IsFront(f, u, a)
  <2>1. a <= Len(u)
    BY <1>0, <1>3
  <2> QED BY <2>1, FrontPart
<1>5. f = x
  <2>1. \A i \in 1..a : f[i] = x[i]
    BY <1>2, <1>3, <1>4 DEF IsFront
  <2>2. Len(f) = a
    BY <1>4 DEF IsFront
  <2> QED BY <1>0, <2>1, <2>2, SeqEqual
<1>6. PICK g \in Seq(S) : IsPart(g, u, a, m)
  <2>1. a <= m /\ m <= Len(u)
    BY <1>0, <1>3
  <2> QED BY <2>1, Part
<1>7. g \o v = y
  <2>1. PICK h \in Seq(S) : /\ h = g \o v /\ Len(h) = (m - a) + n
                            /\ \A i \in 1 .. (m-a)+n : h[i] = IF i <= m-a THEN g[i] ELSE v[i - (m-a)]
    <3>1. PICK h : h = g \o v
      OBVIOUS
    <3>2. PICK c \in Nat : c = m-a /\ c = Len(g)
      BY <1>3, <1>6 DEF IsPart
    <3>3. /\ h \in Seq(S) /\ Len(h) = c + n
          /\ \A i \in 1 .. c + n : h[i] = IF i <= c THEN g[i] ELSE v[i - c]
      <4>1. /\ g \o v \in Seq(S) /\ Len(g \o v) = Len(g) + Len(v)
            /\ \A i \in 1 .. Len(g) + Len(v) :
                  (g \o v)[i] = IF i <= Len(g) THEN g[i] ELSE v[i - Len(g)]
        BY <1>6, ConcatProperties
      <4> QED BY <1>0, <3>1, <3>2, <4>1
    <3> QED BY <3>1, <3>2, <3>3
  <2>2. Len(h) = b
    BY <1>3, <2>1
  <2>3. ASSUME NEW i \in 1..b PROVE h[i] = y[i]
    <3>1. i \in 1 .. (m-a)+n /\ a+i \in 1 .. a+b /\ a+i \in 1 .. m+n /\ ~(a+i <= a) /\ (a+i)-a = i
      BY <1>3
    <3>2. y[i] = w[a+i]
      BY <1>2, <3>1
    <3>3. CASE i <= m-a
      <4>1. a+i <= m
        BY <1>3, <3>3
      <4>2. w[a+i] = u[a+i]
        BY <1>2, <3>1, <4>1
      <4>3. h[i] = g[i] /\ g[i] = u[a+i]
        BY <1>6, <2>1, <3>1, <3>3 DEF IsPart
      <4> QED BY <3>2, <4>2, <4>3
    <3>4. CASE ~(i <= m-a)
      <4>1. ~(a+i <= m) /\ (a+i)-m = i-(m-a)
        BY <1>3, <3>4
      <4>2. w[a+i] = v[i-(m-a)]
        BY <1>2, <3>1, <4>1
      <4>3. h[i] = v[i-(m-a)]
        BY <2>1, <3>1, <3>4
      <4> QED BY <3>2, <4>2, <4>3
    <3> QED BY <3>3, <3>4
  <2> QED BY <1>0, <2>1, <2>2, <2>3, SeqEqual
<1> QED BY <1>0, <1>4, <1>5, <1>6, <1>7 DEF IsFront, IsPart, CutsTo

-----------------------------------------------------------------------------
(* The parser.                                                             *)

\* A state of the parser.
IsParser(P) ==
    /\ P \in [buf : Seq(Wire), read_pos : Nat,
              state : {"WAIT_HEADER", "WAIT_BODY", "POISONED"},
              pending : Packets \cup {NoHeader}]
    /\ P.read_pos <= Len(P.buf)

\* The bytes that are yet to be read.
Unread(P) == SubSeq(P.buf, P.read_pos + 1, Len(P.buf))

\* The two parts of a packet's bytes.
Header(p) == SubSeq(Bytes(p), 1, HeaderSize)
Body(p) == SubSeq(Bytes(p), HeaderSize + 1, HeaderSize + p.length)

\* The packets of s behind the first k.
Behind(s, k) == SubSeq(s, k+1, Len(s))

\* What a parser stands for that handed out the first k packets of s, when
\* the bytes in `left' have yet to be received.
Parses(P, left, s, k) ==
    /\ IsParser(P) /\ left \in Seq(Wire)
    /\ s \in Seq(Packets) /\ k \in 0 .. Len(s)
    /\ P.state = "WAIT_HEADER" => Unread(P) \o left = Stream(Behind(s, k))
    /\ P.state # "WAIT_HEADER" => k < Len(s)
    /\ P.state = "WAIT_BODY" =>
         /\ P.pending = s[k+1] /\ s[k+1].magic
         /\ Unread(P) \o left = Body(s[k+1]) \o Stream(Behind(s, k+1))
    /\ P.state = "POISONED" => ~s[k+1].magic

\* Reading n bytes on.
LEMMA ReadingOn ==
    ASSUME NEW P, IsParser(P), NEW n \in 0 .. Readable(P), NEW Q, IsParser(Q),
           Q.buf = P.buf, Q.read_pos = P.read_pos + n
    PROVE  /\ Unread(P) \in Seq(Wire) /\ Len(Unread(P)) = Readable(P)
           /\ Readable(P) \in Nat
           /\ Ahead(P, n) = SubSeq(Unread(P), 1, n)
           /\ Unread(Q) = SubSeq(Unread(P), n + 1, Len(Unread(P)))
<1>0. PICK buf \in Seq(Wire), r \in Nat, L \in Nat :
        buf = P.buf /\ r = P.read_pos /\ L = Len(buf) /\ r <= L
  BY DEF IsParser
<1>1. Readable(P) = L - r /\ n \in 0 .. L - r
  BY <1>0 DEF Readable
<1>2. PICK u \in Seq(Wire) : IsPart(u, buf, r, L)
  <2>1. r <= L /\ L <= Len(buf)
    BY <1>0
  <2> QED BY <2>1, Part
<1>3. Unread(P) = u
  BY <1>0, <1>2 DEF Unread, IsPart
<1>4. SubSeq(buf, r+1, r+n) = SubSeq(u, 1, n)
  <2>0. PICK b \in Nat : b = r+n
    BY <1>1
  <2>1. r <= b /\ b <= Len(buf) /\ b-r = n /\ n <= Len(u) /\ n \in Nat
    <3>1. L = Len(buf) /\ r <= L
      BY <1>0
    <3>2. Len(u) = L-r
      BY <1>2 DEF IsPart
    <3>3. n \in Nat /\ n <= L-r
      BY <1>1
    <3> QED BY <2>0, <3>1, <3>2, <3>3
  <2>2. PICK f \in Seq(Wire) : IsPart(f, buf, r, b)
    BY <2>1, Part
  <2>3. PICK g \in Seq(Wire) : IsFront(g, u, n)
    BY <2>1, FrontPart
  <2>4. Len(f) = n /\ \A i \in 1..n : f[i] = g[i]
    BY <1>1, <1>2, <2>1, <2>2, <2>3 DEF IsPart, IsFront
  <2>5. f = g
    BY <2>3, <2>4, SeqEqual DEF IsFront
  <2> QED BY <2>0, <2>2, <2>3, <2>5 DEF IsPart, IsFront
<1>5. Unread(Q) = SubSeq(u, n+1, L-r)
  <2>0. PICK b \in Nat : b = r+n
    BY <1>1
  <2>1. PICK m \in Nat : m = L-r
    BY <1>0
  <2>2. b <= L /\ L <= Len(buf) /\ n \in Nat /\ n <= m /\ m <= Len(u) /\ L-b = m-n
    <3>1. L <= Len(buf)
      BY <1>0
    <3>2. Len(u) = L-r
      BY <1>2 DEF IsPart
    <3>3. n \in Nat /\ n <= m
      BY <1>1, <2>1
    <3>4. b <= L /\ L-b = m-n
      BY <2>0, <2>1, <3>3
    <3> QED BY <2>1, <3>1, <3>2, <3>3, <3>4
  <2>3. PICK f \in Seq(Wire) : IsPart(f, buf, b, L)
    BY <2>2, Part
  <2>4. PICK g \in Seq(Wire) : IsPart(g, u, n, m)
    BY <2>2, Part
  <2>5. ASSUME NEW i \in 1 .. m-n PROVE f[i] = g[i]
    <3>1. n+i \in 1 .. L-r /\ r+(n+i) = b+i
      <4>1. n \in Nat /\ i \in Nat /\ i <= m-n /\ 1 <= i
        BY <2>2
      <4>2. r \in Nat /\ b = r+n /\ m = L-r /\ m \in Nat
        BY <1>0, <2>0, <2>1
      <4> QED BY <4>1, <4>2
    <3>2. u[n+i] = buf[r+(n+i)]
      BY <1>2, <3>1 DEF IsPart
    <3> QED BY <2>2, <2>3, <2>4, <3>1, <3>2 DEF IsPart
  <2>6. f = g
    BY <2>2, <2>3, <2>4, <2>5, SeqEqual DEF IsPart
  <2>7. Unread(Q) = SubSeq(buf, b+1, L)
    BY <1>0, <2>0 DEF Unread
  <2> QED BY <2>1, <2>3, <2>4, <2>6, <2>7 DEF IsPart
<1>6. Ahead(P, n) = SubSeq(buf, r+1, r+n)
  <2>1. P.buf = buf /\ P.read_pos = r
    BY <1>0
  <2> QED BY <2>1 DEF Ahead
<1>7. Len(u) = L-r /\ Len(u) \in Nat
  BY <1>2 DEF IsPart
<1>8. Unread(Q) = SubSeq(Unread(P), n + 1, Len(Unread(P)))
  BY <1>3, <1>5, <1>7
<1>9. Ahead(P, n) = SubSeq(Unread(P), 1, n)
  BY <1>3, <1>4, <1>6
<1> QED BY <1>1, <1>2, <1>3, <1>7, <1>8, <1>9

\* The packets behind are packets, and make a stream.
LEMMA BehindIs ==
    ASSUME NEW s \in Seq(Packets), NEW k \in Nat, k <= Len(s)
    PROVE  /\ Behind(s, k) \in Seq(Packets) /\ Len(Behind(s, k)) = Len(s) - k
           /\ Stream(Behind(s, k)) \in Seq(Wire)
<1>1. PICK L \in Nat : L = Len(s)
  OBVIOUS
<1>2. PICK t \in Seq(Packets) : IsPart(t, s, k, L)
  BY <1>1, Part
<1>3. t = Behind(s, k) /\ Len(t) = L - k
  BY <1>1, <1>2 DEF IsPart, Behind
<1>4. Stream(t) \in Seq(Wire)
  BY <1>2, StreamIs
<1> QED BY <1>1, <1>2, <1>3, <1>4

\* The packet that a parser is at, from what it has in its buffer.
LEMMA BytesSplit ==
    ASSUME NEW p \in Packets
    PROVE  /\ Header(p) \in Seq(Wire) /\ Len(Header(p)) = HeaderSize
           /\ Body(p) \in Seq(Wire) /\ Len(Body(p)) = p.length
           /\ Bytes(p) = Header(p) \o Body(p)
           /\ DeserializeHeader(Header(p)) = p
<1> USE ParserAssumption
<1>1. PICK bs \in Seq(Wire) : bs = Bytes(p) /\ Len(bs) = HeaderSize + p.length
                              /\ \A j \in 1 .. HeaderSize + p.length : bs[j] = <<p, j>>
  BY BytesOf
<1>2. p.length \in Nat /\ HeaderSize \in Nat /\ HeaderSize + p.length \in Nat
      /\ HeaderSize <= HeaderSize + p.length /\ (HeaderSize + p.length) - HeaderSize = p.length
  BY DEF Packets
<1>3. PICK h \in Seq(Wire) : IsFront(h, bs, HeaderSize)
  BY <1>1, <1>2, FrontPart
<1>4. PICK b \in Seq(Wire) : IsPart(b, bs, HeaderSize, HeaderSize + p.length)
  <2>1. PICK L \in Nat : L = HeaderSize + p.length
    BY <1>2
  <2>2. HeaderSize \in Nat /\ HeaderSize <= L /\ L <= Len(bs)
    BY <1>1, <1>2, <2>1
  <2>3. \E b \in Seq(Wire) : IsPart(b, bs, HeaderSize, L)
    BY <2>2, Part
  <2> QED BY <2>1, <2>3
<1>5. h = Header(p) /\ b = Body(p) /\ Len(h) = HeaderSize /\ Len(b) = p.length
  BY <1>1, <1>2, <1>3, <1>4 DEF IsFront, IsPart, Header, Body
<1>6. bs = h \o b
  <2>1. PICK z \in Nat : z = p.length
    BY <1>2
  <2>2. PICK w \in Seq(Wire) : w = h \o b /\ Len(w) = HeaderSize + z
          /\ \A i \in 1 .. HeaderSize + z : w[i] = IF i <= HeaderSize THEN h[i] ELSE b[i - HeaderSize]
    <3>1. /\ h \o b \in Seq(Wire) /\ Len(h \o b) = Len(h) + Len(b)
          /\ \A i \in 1 .. Len(h) + Len(b) : (h \o b)[i] = IF i <= Len(h) THEN h[i] ELSE b[i - Len(h)]
      BY ConcatProperties
    <3>2. Len(h) = HeaderSize /\ Len(b) = z
      BY <1>5, <2>1
    <3>3. PICK w : w = h \o b
      OBVIOUS
    <3> QED BY <3>1, <3>2, <3>3
  <2>3. ASSUME NEW i \in 1 .. HeaderSize + z PROVE w[i] = bs[i]
    <3>1. CASE i <= HeaderSize
      BY <1>3, <2>2, <3>1 DEF IsFront
    <3>2. CASE ~(i <= HeaderSize)
      <4>1. i - HeaderSize \in 1..z /\ HeaderSize + (i - HeaderSize) = i
        BY <2>1, <3>2
      <4>2. b[i - HeaderSize] = bs[HeaderSize + (i - HeaderSize)]
        BY <1>2, <1>4, <2>1, <4>1 DEF IsPart
      <4> QED BY <2>2, <3>2, <4>1, <4>2
    <3> QED BY <3>1, <3>2
  <2> QED BY <1>1, <2>1, <2>2, <2>3, SeqEqual
<1>7. DeserializeHeader(h) = p
  <2>1. ASSUME NEW j \in 1 .. HeaderSize PROVE h[j] = <<p, j>>
    <3>1. j \in 1 .. HeaderSize + p.length
      BY <1>2
    <3>2. bs[j] = <<p, j>>
      BY <1>1, <3>1
    <3> QED BY <1>3, <3>2 DEF IsFront
  <2>2. h = [j \in 1 .. HeaderSize |-> <<p, j>>]
    <3>1. h \in [1 .. HeaderSize -> Wire]
      BY <1>3, <1>5, LenProperties
    <3> QED BY <2>1, <3>1
  <2>3. h[1][1] = p
    BY <2>1
  <2> QED BY <2>2, <2>3 DEF DeserializeHeader
<1> QED BY <1>1, <1>3, <1>4, <1>5, <1>6, <1>7

\* The unread bytes of a parser that waits for a header, with those it has yet
\* to get, begin with a header.
HeaderIsNext(P, left, s, k) ==
    /\ k < Len(s) /\ s[k+1] \in Packets
    /\ Ahead(P, HeaderSize) = Header(s[k+1])
    /\ SubSeq(Unread(P), HeaderSize + 1, Len(Unread(P))) \o left
         = Body(s[k+1]) \o Stream(Behind(s, k+1))

LEMMA HeaderComes ==
    ASSUME NEW P, NEW left, NEW s, NEW k, Parses(P, left, s, k),
           P.state = "WAIT_HEADER", Readable(P) >= HeaderSize
    PROVE  HeaderIsNext(P, left, s, k)
<1> USE ParserAssumption
<1>0. /\ IsParser(P) /\ left \in Seq(Wire) /\ s \in Seq(Packets) /\ k \in 0 .. Len(s)
      /\ Unread(P) \o left = Stream(Behind(s, k))
  BY DEF Parses
<1>1. Readable(P) \in Nat
  BY <1>0 DEF Readable, IsParser
<1>2. HeaderSize \in 0 .. Readable(P)
  BY <1>1
<1>3. PICK Q : Q = [P EXCEPT !.read_pos = @ + HeaderSize]
  OBVIOUS
<1>4. IsParser(Q) /\ Q.buf = P.buf /\ Q.read_pos = P.read_pos + HeaderSize
  <2>1. P.read_pos + HeaderSize \in Nat /\ P.read_pos + HeaderSize <= Len(P.buf)
    BY <1>0, <1>1 DEF IsParser, Readable
  <2>2. Q.buf = P.buf /\ Q.read_pos = P.read_pos + HeaderSize
    BY <1>0, <1>3 DEF IsParser
  <2>3. Q \in [buf : Seq(Wire), read_pos : Nat,
               state : {"WAIT_HEADER", "WAIT_BODY", "POISONED"},
               pending : Packets \cup {NoHeader}]
    BY <1>0, <1>3, <2>1 DEF IsParser
  <2> QED BY <2>1, <2>2, <2>3 DEF IsParser
<1>5. /\ Unread(P) \in Seq(Wire) /\ Len(Unread(P)) = Readable(P)
      /\ Ahead(P, HeaderSize) = SubSeq(Unread(P), 1, HeaderSize)
  BY <1>0, <1>2, <1>4, ReadingOn
<1>6. k < Len(s)
  <2> SUFFICES ASSUME k = Len(s) PROVE FALSE
    BY <1>0
  <2>1. Behind(s, k) = << >>
    BY <1>0, SubSeqEmpty DEF Behind
  <2>2. Unread(P) \o left = << >>
    BY <1>0, <2>1, StreamIs
  <2>3. Unread(P) = << >>
    BY <1>0, <1>5, <2>2, ConcatEqualIffEmpty
  <2> QED BY <1>2, <1>5, <2>3
<1>7. PICK p \in Packets : p = s[k+1] /\ Stream(Behind(s, k)) = Bytes(p) \o Stream(Behind(s, k+1))
  <2>1. k \in 0 .. Len(s) - 1 /\ (k+1)+1 = k+2
    BY <1>0, <1>6
  <2> QED BY <1>0, <2>1, StreamBegins DEF Behind
<1>13. PICK b \in Seq(Wire), h \in Seq(Wire) :
         b = Body(p) /\ h = Header(p) /\ Bytes(p) = h \o b /\ Len(h) = HeaderSize
  BY BytesSplit
<1>14. PICK t \in Seq(Wire) : t = Stream(Behind(s, k+1))
  <2>1. k+1 \in Nat /\ k+1 <= Len(s)
    BY <1>0, <1>6
  <2> QED BY <1>0, <2>1, BehindIs
<1>8. PICK y \in Seq(Wire) : y = b \o t
  BY <1>13, <1>14, ConcatProperties
<1>9. PICK u \in Seq(Wire) : u = Unread(P)
  BY <1>5
<1>10. u \o left = h \o y
  <2>1. (h \o b) \o t = h \o (b \o t)
    <3>1. Associates(h, b, t)
      BY WireAssociates
    <3> QED BY <3>1 DEF Associates
  <2> QED BY <1>0, <1>7, <1>8, <1>9, <1>13, <1>14, <2>1
<1>11. Len(h) <= Len(u)
  BY <1>1, <1>2, <1>5, <1>9, <1>13
<1>12. /\ SubSeq(u, 1, HeaderSize) = h
       /\ SubSeq(u, HeaderSize + 1, Len(u)) \o left = y
  <2>1. PICK v \in Seq(Wire) : v = left
    BY <1>0
  <2>2. u \in Seq(Wire) /\ h \in Seq(Wire) /\ y \in Seq(Wire) /\ u \o v = h \o y
    BY <1>8, <1>9, <1>10, <1>13, <2>1
  <2>3. CutsTo(u, v, h, y)
    BY <1>11, <2>1, <2>2, CutFront
  <2> QED BY <1>13, <2>1, <2>3 DEF CutsTo
<1> QED BY <1>5, <1>6, <1>7, <1>8, <1>9, <1>12, <1>13, <1>14 DEF HeaderIsNext

\* A parser that read n bytes on.
MovedTo(P, n, st, h) ==
    [P EXCEPT !.read_pos = P.read_pos + n, !.state = st, !.pending = h]

\* Within its buffer, it is a parser.
LEMMA Moved ==
    ASSUME NEW P, IsParser(P), NEW n \in 0 .. Readable(P),
           NEW st \in {"WAIT_HEADER", "WAIT_BODY", "POISONED"},
           NEW h \in Packets \cup {NoHeader}
    PROVE  /\ IsParser(MovedTo(P, n, st, h))
           /\ MovedTo(P, n, st, h).state = st /\ MovedTo(P, n, st, h).pending = h
           /\ MovedTo(P, n, st, h).buf = P.buf
           /\ MovedTo(P, n, st, h).read_pos = P.read_pos + n
<1>0. PICK Q : Q = MovedTo(P, n, st, h)
  OBVIOUS
<1>1. Readable(P) \in Nat /\ Readable(P) = Len(P.buf) - P.read_pos
  BY DEF Readable, IsParser
<1>2. P.read_pos + n \in Nat /\ P.read_pos + n <= Len(P.buf)
  BY <1>1 DEF IsParser
<1>3. Q.state = st /\ Q.pending = h /\ Q.buf = P.buf /\ Q.read_pos = P.read_pos + n
  BY <1>0 DEF IsParser, MovedTo
<1>4. Q \in [buf : Seq(Wire), read_pos : Nat,
             state : {"WAIT_HEADER", "WAIT_BODY", "POISONED"},
             pending : Packets \cup {NoHeader}]
  BY <1>0, <1>2 DEF IsParser, MovedTo
<1> QED BY <1>0, <1>2, <1>3, <1>4 DEF IsParser

\* A header that is complete is consumed, and is that of the next packet.
LEMMA HeaderKeeps ==
    ASSUME NEW P, NEW left, NEW s, NEW k, Parses(P, left, s, k)
    PROVE  Parses(ReadHeader(P), left, s, k)
<1> USE ParserAssumption
<1>0. /\ IsParser(P) /\ left \in Seq(Wire) /\ s \in Seq(Packets) /\ k \in 0 .. Len(s)
  BY DEF Parses
<1>1. CASE P.state # "WAIT_HEADER" \/ Readable(P) < HeaderSize
  BY <1>1 DEF ReadHeader
<1>2. CASE P.state = "WAIT_HEADER" /\ ~(Readable(P) < HeaderSize)
  <2>1. Readable(P) \in Nat /\ Readable(P) >= HeaderSize /\ HeaderSize \in 0 .. Readable(P)
    BY <1>0, <1>2 DEF Readable, IsParser
  <2>a. HeaderIsNext(P, left, s, k)
    BY <1>2, <2>1, HeaderComes
  <2>2. PICK p \in Packets : p = s[k+1] /\ k < Len(s)
    BY <2>a DEF HeaderIsNext
  <2>3. Ahead(P, HeaderSize) = Header(p)
        /\ SubSeq(Unread(P), HeaderSize + 1, Len(Unread(P))) \o left
             = Body(p) \o Stream(Behind(s, k+1))
    BY <2>2, <2>a DEF HeaderIsNext
  <2>4. DeserializeHeader(Ahead(P, HeaderSize)) = p
    BY <2>3, BytesSplit
  <2>5. p.length <= MaxBody /\ p.magic \in BOOLEAN
    BY DEF Packets
  <2>6. PICK st : st = IF p.magic THEN "WAIT_BODY" ELSE "POISONED"
    OBVIOUS
  <2>7. PICK Q : Q = MovedTo(P, HeaderSize, st, p)
    OBVIOUS
  <2>8. ReadHeader(P) = Q
    BY <1>0, <1>2, <2>4, <2>5, <2>6, <2>7 DEF ReadHeader, IsParser, MovedTo
  <2>10. st \in {"WAIT_HEADER", "WAIT_BODY", "POISONED"} /\ p \in Packets \cup {NoHeader}
    BY <2>6
  <2>11. /\ IsParser(Q) /\ Q.state = st /\ Q.pending = p
         /\ Q.buf = P.buf /\ Q.read_pos = P.read_pos + HeaderSize
    BY <1>0, <2>1, <2>7, <2>10, Moved
  <2>12. Unread(Q) = SubSeq(Unread(P), HeaderSize + 1, Len(Unread(P)))
    BY <1>0, <2>1, <2>11, ReadingOn
  <2> QED BY <1>0, <2>2, <2>3, <2>5, <2>6, <2>8, <2>11, <2>12 DEF Parses
<1> QED BY <1>1, <1>2

\* What next_packet() returns, once its first part is done, is the next packet
\* sent.
LEMMA BodyKeeps ==
    ASSUME NEW Q, NEW left, NEW s, NEW k, Parses(Q, left, s, k), BodyIsHere(Q)
    PROVE  /\ k < Len(s) /\ Q.pending = s[k+1] /\ s[k+1].magic
           /\ Parses([Q EXCEPT !.read_pos = @ + Q.pending.length, !.state = "WAIT_HEADER"],
                     left, s, k+1)
<1>0. /\ IsParser(Q) /\ left \in Seq(Wire) /\ s \in Seq(Packets) /\ k \in 0 .. Len(s)
      /\ k < Len(s) /\ Q.pending = s[k+1] /\ s[k+1].magic
      /\ Unread(Q) \o left = Body(s[k+1]) \o Stream(Behind(s, k+1))
      /\ Readable(Q) >= Q.pending.length
  BY DEF Parses, BodyIsHere
<1>1. PICK p \in Packets : p = s[k+1] /\ p = Q.pending
  BY <1>0
<1>2. Readable(Q) \in Nat /\ p.length \in 0 .. Readable(Q)
  BY <1>0, <1>1 DEF Readable, IsParser, Packets
<1>3. PICK R : R = MovedTo(Q, p.length, "WAIT_HEADER", p)
  OBVIOUS
<1>4. R = [Q EXCEPT !.read_pos = @ + Q.pending.length, !.state = "WAIT_HEADER"]
  BY <1>0, <1>1, <1>3 DEF IsParser, MovedTo
<1>6. /\ IsParser(R) /\ R.state = "WAIT_HEADER"
      /\ R.buf = Q.buf /\ R.read_pos = Q.read_pos + p.length
  <2>1. p \in Packets \cup {NoHeader}
    OBVIOUS
  <2> QED BY <1>0, <1>2, <1>3, <2>1, Moved
<1>7. /\ Unread(R) = SubSeq(Unread(Q), p.length + 1, Len(Unread(Q)))
      /\ Unread(Q) \in Seq(Wire) /\ Len(Unread(Q)) = Readable(Q)
  BY <1>0, <1>2, <1>6, ReadingOn
<1>8. PICK u \in Seq(Wire), v \in Seq(Wire), x \in Seq(Wire), y \in Seq(Wire) :
        /\ u = Unread(Q) /\ v = left /\ x = Body(p) /\ y = Stream(Behind(s, k+1))
        /\ Len(x) = p.length
  <2>1. k+1 \in Nat /\ k+1 <= Len(s)
    BY <1>0
  <2>2. Stream(Behind(s, k+1)) \in Seq(Wire)
    BY <1>0, <2>1, BehindIs
  <2>3. Body(p) \in Seq(Wire) /\ Len(Body(p)) = p.length
    BY BytesSplit
  <2> QED BY <1>0, <1>7, <2>2, <2>3
<1>9. u \o v = x \o y /\ Len(x) <= Len(u)
  <2>1. u \o v = x \o y
    BY <1>0, <1>1, <1>8
  <2> QED BY <1>2, <1>7, <1>8, <2>1
<1>10. SubSeq(u, Len(x) + 1, Len(u)) \o v = y
  <2>1. CutsTo(u, v, x, y)
    BY <1>8, <1>9, CutFront
  <2> QED BY <2>1 DEF CutsTo
<1>11. Unread(R) \o left = Stream(Behind(s, k+1))
  BY <1>7, <1>8, <1>10
<1>12. k+1 \in 0 .. Len(s)
  BY <1>0
<1>13. Parses(R, left, s, k+1)
  BY <1>0, <1>6, <1>11, <1>12 DEF Parses
<1> QED BY <1>0, <1>4, <1>13

-----------------------------------------------------------------------------
(* More bytes.                                                             *)

\* Leaving the first a out of s and putting t behind it, in either order.
Commutes(s, t, a) ==
    SubSeq(s \o t, a+1, Len(s \o t)) = SubSeq(s, a+1, Len(s)) \o t

LEMMA DropThenConcat ==
    ASSUME NEW S, NEW s \in Seq(S), NEW t \in Seq(S), NEW a \in Nat, a <= Len(s)
    PROVE  Commutes(s, t, a)
<1>1. PICK m \in Nat, n \in Nat : m = Len(s) /\ n = Len(t)
  OBVIOUS
<1>2. PICK w \in Seq(S) : /\ w = s \o t /\ Len(w) = m + n
                          /\ \A i \in 1 .. m+n : w[i] = IF i <= m THEN s[i] ELSE t[i-m]
  <2>1. /\ s \o t \in Seq(S) /\ Len(s \o t) = Len(s) + Len(t)
        /\ \A i \in 1 .. Len(s) + Len(t) : (s \o t)[i] = IF i <= Len(s) THEN s[i] ELSE t[i - Len(s)]
    BY ConcatProperties
  <2> QED BY <1>1, <2>1
<1>3. PICK M \in Nat : M = m + n
  OBVIOUS
<1>4. PICK f \in Seq(S) : IsPart(f, w, a, M)
  <2>1. a <= M /\ M <= Len(w)
    BY <1>1, <1>2, <1>3
  <2> QED BY <2>1, Part
<1>5. PICK g \in Seq(S) : IsPart(g, s, a, m)
  <2>1. a <= m /\ m <= Len(s)
    BY <1>1
  <2> QED BY <2>1, Part
<1>6. PICK c \in Nat : c = m-a /\ c = Len(g)
  <2>1. a <= m
    BY <1>1
  <2>2. Len(g) = m-a
    BY <1>5 DEF IsPart
  <2> QED BY <2>1, <2>2
<1>7. PICK h \in Seq(S) : /\ h = g \o t /\ Len(h) = c + n
                          /\ \A i \in 1 .. c+n : h[i] = IF i <= c THEN g[i] ELSE t[i-c]
  <2>1. /\ g \o t \in Seq(S) /\ Len(g \o t) = Len(g) + Len(t)
        /\ \A i \in 1 .. Len(g) + Len(t) : (g \o t)[i] = IF i <= Len(g) THEN g[i] ELSE t[i - Len(g)]
    BY ConcatProperties
  <2> QED BY <1>1, <1>6, <2>1
<1>8. Len(f) = c + n
  BY <1>1, <1>3, <1>4, <1>6 DEF IsPart
<1>9. ASSUME NEW i \in 1 .. c+n PROVE f[i] = h[i]
  <2>1. a+i \in 1 .. m+n /\ i \in 1 .. M-a
    BY <1>1, <1>3, <1>6
  <2>2. f[i] = w[a+i]
    BY <1>4, <2>1 DEF IsPart
  <2>3. CASE i <= c
    <3>1. a+i <= m /\ i \in 1 .. m-a
      BY <1>6, <2>3
    <3>2. g[i] = s[a+i]
      BY <1>5, <3>1 DEF IsPart
    <3> QED BY <1>2, <1>7, <2>1, <2>2, <2>3, <3>1, <3>2
  <2>4. CASE ~(i <= c)
    <3>1. ~(a+i <= m) /\ (a+i)-m = i-c
      BY <1>6, <2>4
    <3> QED BY <1>2, <1>7, <2>1, <2>2, <2>4, <3>1
  <2> QED BY <2>3, <2>4
<1>10. f = h
  BY <1>7, <1>8, <1>9, SeqEqual
<1>11. SubSeq(w, a+1, Len(w)) = SubSeq(s, a+1, m) \o t
  BY <1>2, <1>3, <1>4, <1>5, <1>7, <1>10 DEF IsPart
<1> QED BY <1>1, <1>2, <1>11 DEF Commutes

\* A parser that got data and has not read it.
Fed(P, data) == [P EXCEPT !.buf = P.buf \o data]

\* Its unread bytes have data behind them.
LEMMA FedIs ==
    ASSUME NEW P, IsParser(P), NEW data \in Seq(Wire)
    PROVE  /\ IsParser(Fed(P, data))
           /\ Fed(P, data).state = P.state /\ Fed(P, data).pending = P.pending
           /\ Unread(Fed(P, data)) = Unread(P) \o data
<1>0. PICK Q : Q = Fed(P, data)
  OBVIOUS
<1>1. PICK b \in Seq(Wire) : b = P.buf \o data /\ Len(b) = Len(P.buf) + Len(data)
  <2>1. P.buf \in Seq(Wire)
    BY DEF IsParser
  <2> QED BY <2>1, ConcatProperties
<1>2. /\ Q.state = P.state /\ Q.pending = P.pending
      /\ Q.buf = b /\ Q.read_pos = P.read_pos
  BY <1>0, <1>1 DEF IsParser, Fed
<1>3. Q \in [buf : Seq(Wire), read_pos : Nat,
             state : {"WAIT_HEADER", "WAIT_BODY", "POISONED"},
             pending : Packets \cup {NoHeader}]
  BY <1>0, <1>1 DEF IsParser, Fed
<1>4. Q.read_pos <= Len(Q.buf)
  <2>1. P.buf \in Seq(Wire) /\ P.read_pos \in Nat /\ P.read_pos <= Len(P.buf)
    BY DEF IsParser
  <2>2. Len(P.buf) \in Nat /\ Len(data) \in Nat
    BY <2>1
  <2> QED BY <1>1, <1>2, <2>1, <2>2
<1>5. Commutes(P.buf, data, P.read_pos)
  <2>1. PICK buf \in Seq(Wire), r \in Nat : buf = P.buf /\ r = P.read_pos /\ r <= Len(buf)
    BY DEF IsParser
  <2> QED BY <2>1, DropThenConcat
<1>6. Unread(Q) = Unread(P) \o data
  BY <1>1, <1>2, <1>5 DEF Unread, Commutes
<1> QED BY <1>0, <1>2, <1>3, <1>4, <1>6 DEF IsParser

\* compact() drops only what was read.
LEMMA CompactIs ==
    ASSUME NEW P, IsParser(P)
    PROVE  /\ IsParser(Compact(P))
           /\ Compact(P).state = P.state /\ Compact(P).pending = P.pending
           /\ Unread(Compact(P)) = Unread(P)
<1>0. PICK Q : Q = Compact(P)
  OBVIOUS
<1>1. PICK u \in Seq(Wire) : u = Unread(P)
  <2>1. PICK buf \in Seq(Wire), r \in Nat, L \in Nat :
          buf = P.buf /\ r = P.read_pos /\ L = Len(buf) /\ r <= L
    BY DEF IsParser
  <2>2. L <= Len(buf)
    BY <2>1
  <2>3. PICK t \in Seq(Wire) : IsPart(t, buf, r, L)
    BY <2>1, <2>2, Part
  <2> QED BY <2>1, <2>3 DEF IsPart, Unread
<1>2. /\ Q.state = P.state /\ Q.pending = P.pending
      /\ Q.buf = u /\ Q.read_pos = 0
  BY <1>0, <1>1 DEF IsParser, Compact, Unread
<1>3. Q \in [buf : Seq(Wire), read_pos : Nat,
             state : {"WAIT_HEADER", "WAIT_BODY", "POISONED"},
             pending : Packets \cup {NoHeader}]
  BY <1>0, <1>1 DEF IsParser, Compact, Unread
<1>4. Unread(Q) = u
  <2>1. 0 + 1 = 1
    OBVIOUS
  <2> QED BY <1>2, <2>1, SubSeqFull DEF Unread
<1> QED BY <1>0, <1>1, <1>2, <1>3, <1>4 DEF IsParser

\* feed() puts the bytes behind those that are unread, moved or not.
LEMMA FeedIs ==
    ASSUME NEW P, IsParser(P), NEW data \in Seq(Wire)
    PROVE  /\ IsParser(Feed(P, data))
           /\ Feed(P, data).state = P.state /\ Feed(P, data).pending = P.pending
           /\ P.state = "POISONED" => Feed(P, data) = P
           /\ P.state # "POISONED" => Unread(Feed(P, data)) = Unread(P) \o data
<1>1. CASE P.state = "POISONED"
  BY <1>1 DEF Feed
<1>2. CASE P.state # "POISONED"
  <2>1. PICK Q : Q = IF P.read_pos > Len(P.buf) \div 2 THEN Compact(P) ELSE P
    OBVIOUS
  <2>2. IsParser(Q) /\ Q.state = P.state /\ Q.pending = P.pending /\ Unread(Q) = Unread(P)
    BY <2>1, CompactIs
  <2>3. Feed(P, data) = Fed(Q, data)
    BY <1>2, <2>1 DEF Feed, Fed
  <2>4. /\ IsParser(Fed(Q, data))
        /\ Fed(Q, data).state = Q.state /\ Fed(Q, data).pending = Q.pending
        /\ Unread(Fed(Q, data)) = Unread(Q) \o data
    BY <2>2, FedIs
  <2> QED BY <1>2, <2>2, <2>3, <2>4
<1> QED BY <1>1, <1>2

\* More packets sent are more packets behind.
LEMMA BehindGrows ==
    ASSUME NEW s \in Seq(Packets), NEW ps \in Seq(Packets)
    PROVE  /\ s \o ps \in Seq(Packets) /\ Len(s \o ps) = Len(s) + Len(ps)
           /\ \A i \in 1 .. Len(s) : (s \o ps)[i] = s[i]
           /\ \A k \in 0 .. Len(s) :
                 Stream(Behind(s \o ps, k)) = Stream(Behind(s, k)) \o Stream(ps)
<1>1. /\ s \o ps \in Seq(Packets) /\ Len(s \o ps) = Len(s) + Len(ps)
      /\ \A i \in 1 .. Len(s) + Len(ps) :
            (s \o ps)[i] = IF i <= Len(s) THEN s[i] ELSE ps[i - Len(s)]
  BY ConcatProperties
<1>2. \A i \in 1 .. Len(s) : i \in 1 .. Len(s) + Len(ps) /\ i <= Len(s)
  OBVIOUS
<1>3. ASSUME NEW k \in 0 .. Len(s)
      PROVE  Stream(Behind(s \o ps, k)) = Stream(Behind(s, k)) \o Stream(ps)
  <2>1. k \in Nat /\ k <= Len(s)
    OBVIOUS
  <2>2. Commutes(s, ps, k)
    BY <2>1, DropThenConcat
  <2>3. PICK t \in Seq(Packets) : t = Behind(s, k)
    BY <2>1, BehindIs
  <2>4. Behind(s \o ps, k) = t \o ps
    BY <2>2, <2>3 DEF Commutes, Behind
  <2>5. Stream(t \o ps) = Stream(t) \o Stream(ps)
    BY StreamIs
  <2> QED BY <2>3, <2>4, <2>5
<1> QED BY <1>1, <1>2, <1>3

\* More packets are sent, and of what is under way data is received.
Receives(left, ps, data, more) == left \o Stream(ps) = data \o more

LEMMA FeedKeeps ==
    ASSUME NEW P, NEW left, NEW s, NEW k, Parses(P, left, s, k),
           NEW ps \in Seq(Packets), NEW data \in Seq(Wire), NEW more \in Seq(Wire),
           Receives(left, ps, data, more)
    PROVE  Parses(Feed(P, data), more, s \o ps, k)
<1>0. /\ IsParser(P) /\ left \in Seq(Wire) /\ s \in Seq(Packets) /\ k \in 0 .. Len(s)
  BY DEF Parses
<1>1. PICK Q : Q = Feed(P, data)
  OBVIOUS
<1>2. /\ IsParser(Q) /\ Q.state = P.state /\ Q.pending = P.pending
      /\ P.state # "POISONED" => Unread(Q) = Unread(P) \o data
  BY <1>0, <1>1, FeedIs
<1>3. PICK r \in Seq(Packets) :
        /\ r = s \o ps /\ Len(r) = Len(s) + Len(ps)
        /\ \A i \in 1 .. Len(s) : r[i] = s[i]
        /\ \A j \in 0 .. Len(s) : Stream(Behind(r, j)) = Stream(Behind(s, j)) \o Stream(ps)
  BY <1>0, BehindGrows
<1>4. Len(s) \in Nat /\ Len(ps) \in Nat
  BY <1>0
<1>5. k \in 0 .. Len(r) /\ (k < Len(s) => k < Len(r) /\ k+1 \in 1 .. Len(s) /\ k+1 \in 0 .. Len(s))
  BY <1>0, <1>3, <1>4
<1>6. PICK u \in Seq(Wire), v \in Seq(Wire), z \in Seq(Wire) :
        u = Unread(P) /\ v = left /\ z = Stream(ps)
  <2>1. 0 \in 0 .. Readable(P)
    BY <1>0 DEF Readable, IsParser
  <2>2. P.read_pos + 0 = P.read_pos
    BY <1>0 DEF IsParser
  <2>3. Unread(P) \in Seq(Wire)
    BY <1>0, <2>1, <2>2, ReadingOn
  <2> QED BY <1>0, <2>3, StreamIs
<1>7. (u \o data) \o more = (u \o v) \o z
  <2>1. (u \o data) \o more = u \o (data \o more)
    <3>1. Associates(u, data, more)
      BY WireAssociates
    <3> QED BY <3>1 DEF Associates
  <2>2. (u \o v) \o z = u \o (v \o z)
    <3>1. Associates(u, v, z)
      BY WireAssociates
    <3> QED BY <3>1 DEF Associates
  <2> QED BY <1>6, <2>1, <2>2 DEF Receives
<1>8. P.state = "WAIT_HEADER" => Unread(Q) \o more = Stream(Behind(r, k))
  <2> SUFFICES ASSUME P.state = "WAIT_HEADER" PROVE Unread(Q) \o more = Stream(Behind(r, k))
    OBVIOUS
  <2>1. u \o v = Stream(Behind(s, k))
    BY <1>6 DEF Parses
  <2>2. Unread(Q) = u \o data
    BY <1>2, <1>6
  <2> QED BY <1>0, <1>3, <1>6, <1>7, <2>1, <2>2
<1>9. P.state # "WAIT_HEADER" => k < Len(r) /\ r[k+1] = s[k+1]
  <2>1. P.state # "WAIT_HEADER" => k < Len(s)
    BY DEF Parses
  <2> QED BY <1>3, <1>5, <2>1
<1>10. P.state = "WAIT_BODY" =>
         /\ Q.pending = r[k+1] /\ r[k+1].magic
         /\ Unread(Q) \o more = Body(r[k+1]) \o Stream(Behind(r, k+1))
  <2> SUFFICES ASSUME P.state = "WAIT_BODY"
               PROVE  /\ Q.pending = r[k+1] /\ r[k+1].magic
                      /\ Unread(Q) \o more = Body(r[k+1]) \o Stream(Behind(r, k+1))
    OBVIOUS
  <2>1. k < Len(s) /\ P.pending = s[k+1] /\ s[k+1].magic
        /\ u \o v = Body(s[k+1]) \o Stream(Behind(s, k+1))
    BY <1>6 DEF Parses
  <2>2. Unread(Q) = u \o data
    BY <1>2, <1>6
  <2>3. PICK p \in Packets : p = s[k+1]
    BY <1>0, <2>1
  <2>4. PICK b \in Seq(Wire) : b = Body(p)
    BY BytesSplit
  <2>5. PICK t \in Seq(Wire) : t = Stream(Behind(s, k+1))
    <3>1. k+1 \in Nat /\ k+1 <= Len(s)
      BY <1>0, <2>1
    <3> QED BY <1>0, <3>1, BehindIs
  <2>6. (b \o t) \o z = b \o (t \o z)
    <3>1. Associates(b, t, z)
      BY WireAssociates
    <3> QED BY <3>1 DEF Associates
  <2>7. Stream(Behind(r, k+1)) = t \o z
    BY <1>3, <1>5, <1>6, <2>1, <2>5
  <2> QED BY <1>2, <1>7, <1>9, <2>1, <2>2, <2>3, <2>4, <2>5, <2>6, <2>7
<1>11. P.state = "POISONED" => ~r[k+1].magic
  BY <1>9 DEF Parses
<1>12. Parses(Q, more, r, k)
  BY <1>2, <1>3, <1>5, <1>8, <1>9, <1>10, <1>11 DEF Parses
<1> QED BY <1>1, <1>3, <1>12

\* A sequence cut in two.
IsCut(bs, n, f, g) ==
    f = SubSeq(bs, 1, n) /\ g = SubSeq(bs, n+1, Len(bs)) /\ bs = f \o g

LEMMA Cut ==
    ASSUME NEW bs \in Seq(Wire), NEW n \in 1 .. Len(bs)
    PROVE  \E f, g \in Seq(Wire) : IsCut(bs, n, f, g)
<1>0. PICK L \in Nat : L = Len(bs) /\ n \in 1..L
  OBVIOUS
<1>1. PICK f \in Seq(Wire) : IsFront(f, bs, n)
  BY <1>0, FrontPart
<1>2. PICK g \in Seq(Wire) : IsPart(g, bs, n, L)
  <2>1. n \in Nat /\ n <= L /\ L <= Len(bs)
    BY <1>0
  <2> QED BY <2>1, Part
<1>3. SubSeq(bs, 1, n) \o SubSeq(bs, n+1, L) = SubSeq(bs, 1, L)
  <2>1. 1 \in 1 .. Len(bs)+1 /\ n \in 1-1 .. Len(bs) /\ L \in n .. Len(bs)
    BY <1>0
  <2> QED BY <2>1, ConcatAdjacentSubSeq
<1>4. SubSeq(bs, 1, L) = bs
  BY <1>0, SubSeqFull
<1> QED BY <1>0, <1>1, <1>2, <1>3, <1>4 DEF IsFront, IsPart, IsCut

\* What recv() returns, when these are the packets of which it is the first to
\* return a byte, and what it has yet to return of the last.
LastBytes(left, ps) == IF ps = << >> THEN left ELSE Bytes(ps[Len(ps)])
FirstBytes(left, ps) ==
    IF ps = << >> THEN << >>
    ELSE left \o FlattenSeq([i \in 1 .. Len(ps)-1 |-> Bytes(ps[i])])

\* It is the front of what is under way, and the rest is what is left.
LEMMA ReceiveSplits ==
    ASSUME NEW left \in Seq(Wire), NEW ps \in Seq(Packets),
           NEW upto \in DOMAIN LastBytes(left, ps)
    PROVE  \E data, more \in Seq(Wire) :
              /\ data = FirstBytes(left, ps) \o SubSeq(LastBytes(left, ps), 1, upto)
              /\ more = SubSeq(LastBytes(left, ps), upto + 1, Len(LastBytes(left, ps)))
              /\ Receives(left, ps, data, more)
<1>b. \A a, b \in Seq(Wire) : a \o b \in Seq(Wire)
  BY ConcatProperties
<1>1. CASE ps = << >>
  <2>1. LastBytes(left, ps) = left /\ FirstBytes(left, ps) = << >>
    BY <1>1 DEF LastBytes, FirstBytes
  <2>2. upto \in 1 .. Len(left)
    BY <2>1
  <2>3. PICK f \in Seq(Wire), g \in Seq(Wire) : IsCut(left, upto, f, g)
    BY <2>2, Cut
  <2>4. << >> \o f = f
    BY ConcatEmptySeq
  <2>5. left \o Stream(ps) = left
    <3>1. Stream(ps) = << >>
      BY <1>1, StreamIs
    <3> QED BY <3>1, ConcatEmptySeq
  <2>6. Receives(left, ps, f, g)
    BY <2>3, <2>5 DEF IsCut, Receives
  <2> QED BY <2>1, <2>3, <2>4, <2>6 DEF IsCut
<1>2. CASE ps # << >>
  <2>1. PICK s \in Seq(Packets), p \in Packets : ps = Append(s, p)
    BY <1>2, SequenceEmptyOrAppend
  <2>2. PICK n \in Nat : /\ n = Len(s) /\ Len(ps) = n + 1 /\ ps[n+1] = p
                         /\ \A i \in 1..n : ps[i] = s[i]
    <3>1. PICK t : t = Append(s, p)
      OBVIOUS
    <3>2. Len(t) = Len(s) + 1 /\ t[Len(s) + 1] = p /\ \A i \in 1 .. Len(s) : t[i] = s[i]
      BY <3>1, AppendProperties
    <3> QED BY <2>1, <3>1, <3>2
  <2>3. LastBytes(left, ps) = Bytes(p)
    BY <1>2, <2>2 DEF LastBytes
  <2>4. PICK x \in Seq(Wire) : x = Stream(s)
    BY StreamIs
  <2>5. FirstBytes(left, ps) = left \o x
    <3>1. Len(ps) - 1 = n
      BY <2>2
    <3>2. [i \in 1..n |-> Bytes(ps[i])] = [i \in 1..n |-> Bytes(s[i])]
      BY <2>2
    <3>3. FlattenSeq([i \in 1..n |-> Bytes(ps[i])]) = x
      BY <2>2, <2>4, <3>2 DEF Stream
    <3> QED BY <1>2, <3>1, <3>3 DEF FirstBytes
  <2>6. PICK bs \in Seq(Wire) : bs = Bytes(p)
    BY BytesOf
  <2>7. upto \in 1 .. Len(bs)
    BY <2>3, <2>6
  <2>8. PICK f \in Seq(Wire), g \in Seq(Wire) : IsCut(bs, upto, f, g)
    BY <2>7, Cut
  <2>9. Stream(ps) = x \o bs
    <3>1. s = << >> => x = << >>
      BY <2>4, StreamIs
    <3>2. << >> \o bs = bs
      BY ConcatEmptySeq
    <3>3. Stream(ps) = IF s = << >> THEN bs ELSE x \o bs
      BY <2>1, <2>4, <2>6, StreamAppends
    <3> QED BY <3>1, <3>2, <3>3
  <2>10. PICK y \in Seq(Wire) : y = left \o x
    BY <1>b
  <2>11. PICK d \in Seq(Wire) : d = y \o f
    BY <1>b
  <2>12. left \o (x \o bs) = y \o bs
    <3>1. Associates(left, x, bs)
      BY WireAssociates
    <3> QED BY <2>10, <3>1 DEF Associates
  <2>13. y \o (f \o g) = d \o g
    <3>1. Associates(y, f, g)
      BY WireAssociates
    <3> QED BY <2>11, <3>1 DEF Associates
  <2>14. Receives(left, ps, d, g)
    BY <2>8, <2>9, <2>12, <2>13 DEF IsCut, Receives
  <2>15. d = FirstBytes(left, ps) \o SubSeq(LastBytes(left, ps), 1, upto)
    BY <2>3, <2>5, <2>6, <2>8, <2>10, <2>11 DEF IsCut
  <2>16. g = SubSeq(LastBytes(left, ps), upto + 1, Len(LastBytes(left, ps)))
    BY <2>3, <2>6, <2>8 DEF IsCut
  <2> QED BY <2>14, <2>15, <2>16
<1> QED BY <1>1, <1>2

LEMMA PacketIs ==
    ASSUME NEW n \in Nat, NEW kind \in Kinds
    PROVE  Packet(n, kind) \in Packets
<1>1. (IF kind \in {"INPUT", "OTHER"} THEN 1 ELSE 0) \in 0..1 /\ (kind # "BAD") \in BOOLEAN
  OBVIOUS
<1> QED BY <1>1 DEF Packet, Packets

\* The packets of a Receive step.
LEMMA NewPackets ==
    ASSUME NEW n \in Nat, NEW m \in Nat, NEW kinds \in [1..m -> Kinds]
    PROVE  /\ [i \in DOMAIN kinds |-> Packet(n + i, kinds[i])] \in Seq(Packets)
           /\ Len([i \in DOMAIN kinds |-> Packet(n + i, kinds[i])]) = m
           /\ kinds = << >> <=> [i \in DOMAIN kinds |-> Packet(n + i, kinds[i])] = << >>
           /\ Len(kinds) = m
<1>1. DOMAIN kinds = 1..m /\ kinds \in Seq(Kinds) /\ Len(kinds) = m
  OBVIOUS
<1>2. PICK ps : ps = [i \in 1..m |-> Packet(n + i, kinds[i])]
  OBVIOUS
<1>3. \A i \in 1..m : Packet(n + i, kinds[i]) \in Packets
  BY PacketIs
<1>4. ps \in Seq(Packets) /\ Len(ps) = m
  BY <1>2, <1>3
<1>5. kinds = << >> <=> m = 0
  BY <1>1
<1>6. ps = << >> <=> m = 0
  BY <1>4
<1> QED BY <1>1, <1>2, <1>4, <1>5, <1>6

-----------------------------------------------------------------------------
(* The reader, which hands the packets out.                                *)

\* The packets handed out are the first of those sent, the parser stands for
\* the others, and the reader is in feed() exactly as long as it has a packet
\* to hand out.
StreamInv ==
    /\ sent \in Seq(Packets) /\ taken \in Seq(Packets) /\ feeding \in BOOLEAN
    /\ \A i \in 1 .. Len(taken) : taken[i] = sent[i] /\ sent[i].magic
    /\ Parses(parser, rest, sent, Len(taken))
    /\ feeding = BodyIsHere(ReadHeader(parser))
    /\ ~feeding => ReadHeader(parser) = parser

\* A header is read once.
LEMMA HeaderIsRead ==
    ASSUME NEW P, IsParser(P)
    PROVE  ReadHeader(ReadHeader(P)) = ReadHeader(P)
<1>1. CASE P.state # "WAIT_HEADER" \/ Readable(P) < HeaderSize
  BY <1>1 DEF ReadHeader
<1>2. CASE ~(P.state # "WAIT_HEADER" \/ Readable(P) < HeaderSize)
  <2>1. PICK Q : Q = ReadHeader(P)
    OBVIOUS
  <2>2. Q.state # "WAIT_HEADER"
    BY <1>2, <2>1 DEF ReadHeader, IsParser
  <2> QED BY <2>1, <2>2 DEF ReadHeader
<1> QED BY <1>1, <1>2

\* The reader goes on with a parser: it has a packet to handle, or can do
\* nothing until there are more bytes.
LEMMA SettleKeeps ==
    ASSUME NEW P, NEW left, NEW s, NEW k, Parses(P, left, s, k), Settle(P)
    PROVE  /\ Parses(parser', left, s, k) /\ feeding' \in BOOLEAN
           /\ feeding' = BodyIsHere(ReadHeader(parser'))
           /\ ~feeding' => ReadHeader(parser') = parser'
<1>1. PICK Q : Q = ReadHeader(P) /\ ReadHeader(Q) = Q
  <2>1. IsParser(P)
    BY DEF Parses
  <2> QED BY <2>1, HeaderIsRead
<1>2. Parses(Q, left, s, k)
  BY <1>1, HeaderKeeps
<1>3. BodyIsHere(Q) \in BOOLEAN
  BY DEF BodyIsHere
<1>4. CASE BodyIsHere(Q)
  <2>1. NextPacket(P).ok = TRUE
    BY <1>1, <1>4 DEF NextPacket
  <2>2. parser' = P /\ feeding' = TRUE
    BY <2>1 DEF Settle
  <2> QED BY <1>1, <1>3, <1>4, <2>2
<1>5. CASE ~BodyIsHere(Q)
  <2>1. NextPacket(P).ok = FALSE /\ NextPacket(P).parser = Q
    BY <1>1, <1>5 DEF NextPacket
  <2>2. parser' = Q /\ feeding' = FALSE
    BY <2>1 DEF Settle
  <2> QED BY <1>1, <1>2, <1>3, <1>5, <2>2
<1> QED BY <1>4, <1>5

LEMMA StreamInit == AppInit => StreamInv
<1> SUFFICES ASSUME AppInit PROVE StreamInv
  OBVIOUS
<1> USE ParserAssumption
<1>1. /\ sent = << >> /\ taken = << >> /\ feeding = FALSE /\ rest = << >>
      /\ parser = NewParser
  BY DEF AppInit
<1>2. /\ parser.buf = << >> /\ parser.read_pos = 0 /\ parser.state = "WAIT_HEADER"
  BY <1>1 DEF NewParser
<1>3. IsParser(parser)
  <2>1. << >> \in Seq(Wire) /\ Len(<< >>) = 0
    OBVIOUS
  <2>2. parser.read_pos <= Len(parser.buf)
    BY <1>2, <2>1
  <2>3. parser \in [buf : Seq(Wire), read_pos : Nat,
                    state : {"WAIT_HEADER", "WAIT_BODY", "POISONED"},
                    pending : Packets \cup {NoHeader}]
    BY <1>1, <2>1 DEF NewParser
  <2> QED BY <2>2, <2>3 DEF IsParser
<1>4. Readable(parser) = 0
  BY <1>2 DEF Readable
<1>5. ReadHeader(parser) = parser /\ ~BodyIsHere(parser)
  BY <1>2, <1>4 DEF ReadHeader, BodyIsHere
<1>6. Parses(parser, rest, sent, Len(taken))
  <2>1. PICK e \in Seq(Wire) : e = << >>
    <3>1. << >> \in Seq(Wire)
      OBVIOUS
    <3> QED BY <3>1
  <2>6. e \o << >> = e
    BY ConcatEmptySeq
  <2>2. Unread(parser) = << >>
    BY <1>2, SubSeqEmpty DEF Unread
  <2>3. Stream(Behind(sent, Len(taken))) = << >>
    <3>1. Behind(sent, Len(taken)) = << >>
      BY <1>1, SubSeqEmpty DEF Behind
    <3> QED BY <3>1, StreamIs
  <2>4. rest \in Seq(Wire) /\ sent \in Seq(Packets) /\ Len(taken) \in 0 .. Len(sent)
    BY <1>1
  <2>5. Unread(parser) \o rest = << >>
    BY <1>1, <2>1, <2>2, <2>6
  <2> QED BY <1>2, <1>3, <2>3, <2>4, <2>5 DEF Parses
<1>7. feeding = BodyIsHere(ReadHeader(parser))
  <2>1. BodyIsHere(parser) = FALSE
    BY <1>5 DEF BodyIsHere
  <2> QED BY <1>1, <1>5, <2>1
<1>8. /\ sent \in Seq(Packets) /\ taken \in Seq(Packets) /\ feeding \in BOOLEAN
      /\ \A i \in 1 .. Len(taken) : taken[i] = sent[i] /\ sent[i].magic
  <2>1. Len(taken) = 0 /\ << >> \in Seq(Packets)
    BY <1>1
  <2>2. \A i \in 1..0 : FALSE
    OBVIOUS
  <2> QED BY <1>1, <2>1, <2>2
<1> QED BY <1>5, <1>6, <1>7, <1>8 DEF StreamInv

LEMMA ReceiveKeeps ==
    ASSUME StreamInv, NEW n \in Nat, NEW kinds \in [1..n -> Kinds], NEW upto, Receive(kinds, upto)
    PROVE  StreamInv'
<1>0. PICK k \in Nat : k = Len(taken)
  BY DEF StreamInv
<1>1. sent \in Seq(Packets) /\ rest \in Seq(Wire) /\ Parses(parser, rest, sent, k)
      /\ Len(sent) \in Nat /\ k \in 0 .. Len(sent)
  <2>1. sent \in Seq(Packets) /\ Parses(parser, rest, sent, k)
    BY <1>0 DEF StreamInv
  <2>2. rest \in Seq(Wire) /\ k \in 0 .. Len(sent)
    BY <2>1 DEF Parses
  <2> QED BY <2>1, <2>2
<1>2. PICK ps : ps = [i \in DOMAIN kinds |-> Packet(Len(sent) + i, kinds[i])]
  OBVIOUS
<1>3. ps \in Seq(Packets) /\ Len(ps) = n /\ Len(kinds) = n /\ (kinds = << >> <=> ps = << >>)
  BY <1>1, <1>2, NewPackets
<1>4. /\ upto \in DOMAIN LastBytes(rest, ps)
      /\ Settle(Feed(parser, FirstBytes(rest, ps) \o SubSeq(LastBytes(rest, ps), 1, upto)))
      /\ rest' = SubSeq(LastBytes(rest, ps), upto + 1, Len(LastBytes(rest, ps)))
      /\ sent' = sent \o ps /\ taken' = taken
  <2> DEFINE packets == [i \in DOMAIN kinds |-> Packet(Len(sent) + i, kinds[i])]
             last == IF kinds = << >> THEN rest ELSE Bytes(packets[Len(kinds)])
             before == IF kinds = << >> THEN << >>
                       ELSE rest \o FlattenSeq([i \in 1 .. Len(kinds)-1 |-> Bytes(packets[i])])
  <2>1. /\ upto \in DOMAIN last
        /\ Settle(Feed(parser, before \o SubSeq(last, 1, upto)))
        /\ rest' = SubSeq(last, upto + 1, Len(last))
        /\ sent' = sent \o packets /\ taken' = taken
    BY DEF Receive
  <2>2. packets = ps
    BY <1>2
  <2> HIDE DEF packets
  <2>3. last = LastBytes(rest, ps)
    BY <1>3, <2>2 DEF LastBytes
  <2>4. before = FirstBytes(rest, ps)
    BY <1>3, <2>2 DEF FirstBytes
  <2> HIDE DEF last, before
  <2> QED BY <2>1, <2>2, <2>3, <2>4
<1>5. PICK data \in Seq(Wire), more \in Seq(Wire) :
        /\ data = FirstBytes(rest, ps) \o SubSeq(LastBytes(rest, ps), 1, upto)
        /\ more = SubSeq(LastBytes(rest, ps), upto + 1, Len(LastBytes(rest, ps)))
        /\ Receives(rest, ps, data, more)
  BY <1>1, <1>3, <1>4, ReceiveSplits
<1>6. Parses(Feed(parser, data), more, sent \o ps, k)
  BY <1>1, <1>3, <1>5, FeedKeeps
<1>7. PICK r \in Seq(Packets) : r = sent \o ps /\ \A i \in 1 .. Len(sent) : r[i] = sent[i]
  BY <1>1, <1>3, BehindGrows
<1>8. Settle(Feed(parser, data)) /\ rest' = more /\ sent' = r
  BY <1>4, <1>5, <1>7
<1>9. /\ Parses(parser', more, r, k) /\ feeding' \in BOOLEAN
      /\ feeding' = BodyIsHere(ReadHeader(parser'))
      /\ ~feeding' => ReadHeader(parser') = parser'
  BY <1>6, <1>7, <1>8, SettleKeeps
<1>10. \A i \in 1 .. Len(taken) : taken[i] = r[i] /\ r[i].magic
  <2>1. \A i \in 1 .. Len(taken) : i \in 1 .. Len(sent)
    BY <1>0, <1>1
  <2> QED BY <1>7, <2>1 DEF StreamInv
<1>11. taken \in Seq(Packets)
  BY DEF StreamInv
<1>12. Parses(parser', rest', sent', Len(taken'))
  BY <1>0, <1>4, <1>8, <1>9
<1> QED BY <1>4, <1>7, <1>8, <1>9, <1>10, <1>11, <1>12 DEF StreamInv

LEMMA HandleKeeps == StreamInv /\ HandlePacket => StreamInv'
<1> SUFFICES ASSUME StreamInv, HandlePacket PROVE StreamInv'
  OBVIOUS
<1>0. PICK k \in Nat : k = Len(taken)
  BY DEF StreamInv
<1>1. Parses(parser, rest, sent, k) /\ sent \in Seq(Packets) /\ taken \in Seq(Packets)
  BY <1>0 DEF StreamInv
<1>2. PICK Q : Q = ReadHeader(parser) /\ BodyIsHere(Q)
  BY DEF StreamInv, HandlePacket
<1>3. Parses(Q, rest, sent, k)
  BY <1>1, <1>2, HeaderKeeps
<1>4. PICK R : R = [Q EXCEPT !.read_pos = @ + Q.pending.length, !.state = "WAIT_HEADER"]
  OBVIOUS
<1>5. /\ k < Len(sent) /\ Q.pending = sent[k+1] /\ sent[k+1].magic
      /\ Parses(R, rest, sent, k+1)
  BY <1>2, <1>3, <1>4, BodyKeeps
<1>6. NextPacket(parser).header = Q.pending /\ NextPacket(parser).parser = R
  BY <1>2, <1>4 DEF NextPacket
<1>7. /\ Settle(R) /\ taken' = Append(taken, sent[k+1])
      /\ rest' = rest /\ sent' = sent
  BY <1>5, <1>6 DEF HandlePacket
<1>8. /\ Parses(parser', rest, sent, k+1) /\ feeding' \in BOOLEAN
      /\ feeding' = BodyIsHere(ReadHeader(parser'))
      /\ ~feeding' => ReadHeader(parser') = parser'
  BY <1>5, <1>7, SettleKeeps
<1>9. PICK p \in Packets : p = sent[k+1]
  <2>1. k+1 \in 1 .. Len(sent)
    BY <1>1, <1>5
  <2> QED BY <1>1, <2>1
<1>10. PICK t \in Seq(Packets) : /\ t = Append(taken, p) /\ Len(t) = k+1 /\ t[k+1] = p
                                 /\ \A i \in 1..k : t[i] = taken[i]
  <2>1. /\ Append(taken, p) \in Seq(Packets) /\ Len(Append(taken, p)) = Len(taken) + 1
        /\ Append(taken, p)[Len(taken) + 1] = p
        /\ \A i \in 1 .. Len(taken) : Append(taken, p)[i] = taken[i]
    BY <1>1, AppendProperties
  <2> QED BY <1>0, <2>1
<1>11. taken' = t
  BY <1>7, <1>9, <1>10
<1>12. ASSUME NEW i \in 1 .. k+1 PROVE t[i] = sent[i] /\ sent[i].magic
  <2>1. CASE i = k+1
    BY <1>5, <1>9, <1>10, <2>1
  <2>2. CASE i # k+1
    <3>1. i \in 1..k /\ i \in 1 .. Len(taken)
      BY <1>0, <2>2
    <3> QED BY <1>10, <3>1 DEF StreamInv
  <2> QED BY <2>1, <2>2
<1>13. Parses(parser', rest', sent', Len(taken'))
  BY <1>7, <1>8, <1>10, <1>11
<1> QED BY <1>1, <1>7, <1>8, <1>10, <1>11, <1>12, <1>13 DEF StreamInv

LEMMA StreamStep == StreamInv /\ [AppNext]_appVars => StreamInv'
<1> SUFFICES ASSUME StreamInv, [AppNext]_appVars PROVE StreamInv'
  OBVIOUS
<1>1. ASSUME NEW kinds \in UNION {[1..n -> Kinds] : n \in 0..MaxSent}, NEW upto, Receive(kinds, upto)
      PROVE  StreamInv'
  <2>1. PICK n \in 0..MaxSent : kinds \in [1..n -> Kinds]
    OBVIOUS
  <2>2. n \in Nat
    BY AppHostAssumption
  <2> QED BY <1>1, <2>1, <2>2, ReceiveKeeps
<1>2. ASSUME UNCHANGED streamVars PROVE StreamInv'
  BY <1>2 DEF StreamInv, streamVars
<1>3. CASE Starting
  BY <1>2, <1>3 DEF Starting, Connect, SendReady, OpenPlugin
<1>4. CASE HandlePacket
  BY <1>4, HandleKeeps
<1>5. CASE ReaderEnds
  BY <1>2, <1>5 DEF ReaderEnds
<1>6. CASE \E t \in Threads : HostCall(t)
  BY <1>2, <1>6 DEF HostCall
<1>7. CASE Main(MainStep) \/ Main(Setup) \/ Main(SpuriousWakeup)
  BY <1>2, <1>7 DEF Main
<1>8. CASE \E t \in Workers : Worker(t)
  BY <1>2, <1>8 DEF Worker
<1>9. CASE UNCHANGED appVars
  BY <1>2, <1>9 DEF appVars
<1> QED BY <1>1, <1>3, <1>4, <1>5, <1>6, <1>7, <1>8, <1>9 DEF AppNext

\* A parser that can do nothing with all that was sent has no packet left but
\* one with a bad header.
LEMMA StuckAtBadPacket ==
    ASSUME NEW P, NEW s, NEW k, Parses(P, << >>, s, k), k < Len(s),
           ReadHeader(P) = P, ~BodyIsHere(P)
    PROVE  ~s[k+1].magic
<1> USE ParserAssumption
<1>0. IsParser(P) /\ s \in Seq(Packets) /\ k \in Nat /\ k+1 \in 1 .. Len(s)
  BY DEF Parses
<1>1. PICK u \in Seq(Wire), m \in Nat : u = Unread(P) /\ m = Readable(P) /\ Len(u) = m
  <2>1. 0 \in 0 .. Readable(P) /\ P.read_pos + 0 = P.read_pos
    BY <1>0 DEF Readable, IsParser
  <2>2. Unread(P) \in Seq(Wire) /\ Len(Unread(P)) = Readable(P) /\ Readable(P) \in Nat
    BY <1>0, <2>1, ReadingOn
  <2> QED BY <2>2
<1>2. u \o << >> = u
  BY ConcatEmptySeq
<1>3. PICK p \in Packets : p = s[k+1]
  BY <1>0
<1>4. PICK t \in Seq(Wire) : t = Stream(Behind(s, k+1))
  <2>1. k+1 \in Nat /\ k+1 <= Len(s)
    BY <1>0
  <2> QED BY <1>0, <2>1, BehindIs
<1>5. CASE P.state = "WAIT_HEADER"
  <2>1. m < HeaderSize
    <3> SUFFICES ASSUME ~(m < HeaderSize) PROVE FALSE
      OBVIOUS
    <3>1. ReadHeader(P).read_pos = P.read_pos + HeaderSize
      BY <1>0, <1>1, <1>5 DEF ReadHeader, IsParser
    <3>2. P.read_pos \in Nat
      BY <1>0 DEF IsParser
    <3> QED BY <3>1, <3>2
  <2>2. PICK bs \in Seq(Wire) : bs = Bytes(p) /\ Len(bs) = HeaderSize + p.length
    BY BytesOf
  <2>3. u = bs \o t
    <3>1. u = Stream(Behind(s, k))
      BY <1>1, <1>2, <1>5 DEF Parses
    <3>2. k \in 0 .. Len(s) - 1 /\ (k+1)+1 = k+2
      BY <1>0
    <3>3. Stream(Behind(s, k)) = Bytes(p) \o Stream(Behind(s, k+1))
      BY <1>0, <1>3, <3>2, StreamBegins DEF Behind
    <3> QED BY <1>4, <2>2, <3>1, <3>3
  <2>4. Len(bs \o t) = Len(bs) + Len(t) /\ Len(t) \in Nat
    BY ConcatProperties
  <2>5. p.length \in Nat
    BY DEF Packets
  <2> QED BY <1>1, <2>1, <2>2, <2>3, <2>4, <2>5
<1>6. CASE P.state = "WAIT_BODY"
  <2>1. PICK b \in Seq(Wire) : b = Body(p) /\ Len(b) = p.length
    BY BytesSplit
  <2>2. P.pending = p /\ u = b \o t
    BY <1>1, <1>2, <1>3, <1>4, <1>6, <2>1 DEF Parses
  <2>3. Len(b \o t) = Len(b) + Len(t) /\ Len(t) \in Nat
    BY ConcatProperties
  <2>4. p.length \in Nat
    BY DEF Packets
  <2>5. m >= P.pending.length
    BY <1>1, <2>1, <2>2, <2>3, <2>4
  <2> QED BY <1>1, <1>6, <2>5 DEF BodyIsHere
<1>7. CASE P.state = "POISONED"
  BY <1>7 DEF Parses
<1>8. P.state \in {"WAIT_HEADER", "WAIT_BODY", "POISONED"}
  BY <1>0 DEF IsParser
<1> QED BY <1>5, <1>6, <1>7, <1>8

LEMMA StreamInvSuffices == StreamInv => StreamParsed
<1> SUFFICES ASSUME StreamInv PROVE StreamParsed
  OBVIOUS
<1>0. PICK k \in Nat : k = Len(taken)
  BY DEF StreamInv
<1>1. /\ Parses(parser, rest, sent, k) /\ k \in 0 .. Len(sent)
      /\ sent \in Seq(Packets) /\ taken \in Seq(Packets)
  BY <1>0 DEF StreamInv, Parses
<1>2. \A i \in 1..k : taken[i] = sent[i] /\ sent[i].magic
  BY <1>0 DEF StreamInv
<1>3. taken = SubSeq(sent, 1, Len(taken))
  <2>1. k <= Len(sent)
    BY <1>1
  <2>2. PICK f \in Seq(Packets) : IsFront(f, sent, k)
    BY <1>1, <2>1, FrontPart
  <2>3. Len(f) = k /\ \A i \in 1..k : f[i] = taken[i]
    BY <1>2, <2>2 DEF IsFront
  <2>4. f = taken
    BY <1>0, <1>1, <2>3, SeqEqual
  <2> QED BY <1>0, <2>2, <2>4 DEF IsFront
<1>4. Good(taken)
  <2>1. DOMAIN taken = 1..k
    BY <1>0, <1>1
  <2> QED BY <1>2, <2>1 DEF Good
<1>5. ASSUME rest = << >>, ~feeding, NEW i \in DOMAIN sent, Good(SubSeq(sent, 1, i))
      PROVE  i <= Len(taken)
  <2> SUFFICES ASSUME ~(i <= k) PROVE FALSE
    BY <1>0
  <2>0. i \in 1 .. Len(sent) /\ Len(sent) \in Nat
    BY <1>1
  <2>1. k < Len(sent) /\ k+1 \in 1..i /\ i \in Nat /\ i <= Len(sent)
    BY <2>0
  <2>2. PICK f \in Seq(Packets) : IsFront(f, sent, i)
    BY <1>1, <2>1, FrontPart
  <2>3. DOMAIN f = 1..i /\ f[k+1] = sent[k+1]
    BY <2>1, <2>2 DEF IsFront
  <2>4. sent[k+1].magic
    BY <1>5, <2>1, <2>2, <2>3 DEF IsFront, Good
  <2>5. ReadHeader(parser) = parser /\ ~BodyIsHere(parser)
    BY <1>5 DEF StreamInv
  <2>6. ~sent[k+1].magic
    BY <1>1, <1>5, <2>1, <2>5, StuckAtBadPacket
  <2> QED BY <2>4, <2>6
<1>6. Len(taken) <= Len(sent)
  BY <1>0, <1>1
<1> QED BY <1>3, <1>4, <1>5, <1>6 DEF StreamParsed

\* THEOREM: wherever TCP cuts the stream of the Gateway, the reader hands out
\* the packets that were sent, in order, each once and none behind a bad
\* header, and is back in recv() with nothing on its way only when none of them
\* is held back (MessageParser::feed() and next_packet(), MessageHandler::feed()).
THEOREM StreamIsParsed == AppSpec => []StreamParsed
<1>1. AppSpec => []StreamInv
  BY StreamInit, StreamStep, PTL DEF AppSpec
<1> QED BY <1>1, StreamInvSuffices, PTL
=============================================================================
