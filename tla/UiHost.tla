------------------------------- MODULE UiHost -------------------------------
(***************************************************************************)
(* The AppHost's headless UI host (src/apphost/ui_host_impl.cpp) between   *)
(* its threads (src/apphost/apphost.cpp): the main thread runs the plugin  *)
(* and its Loop, the reader thread turns packets of the socket into inputs *)
(* and quits, and plugin threads may post work and quit.                   *)
(*                                                                         *)
(* Each critical section of State::mtx is one action.  The notify_all()    *)
(* after it is an action of its own: the lock is free in between.  What a  *)
(* handler draws and sends is left out, and an input is its number of      *)
(* arrival, whether it came from the mouse or the keyboard.                *)
(***************************************************************************)
EXTENDS Naturals, Sequences

CONSTANTS
    Reader,     \* the reader thread
    Workers,    \* threads of the plugin that use PostWork() and Quit()
    MaxInputs,  \* bound on the INPUT_EVENTs that arrive
    MaxWork     \* bound on the plugin's PostWork() calls

ASSUME UiHostAssumption ==
    /\ Reader \notin Workers
    /\ MaxInputs \in Nat /\ MaxWork \in Nat

VARIABLES
    main,                \* where the main thread is
    thread,              \* where each other thread is
    window,              \* the one toplevel: "none" or "open"
    quit_flag,           \* State::quit_flag
    post_queue,          \* State::post_queue, of "drain" and "work" items
    input_queue,         \* State::input_queue
    input_work_pending,  \* State::input_work_pending
    local,               \* what drain_input_queue_on_main_thread() took out
    shutting_down,       \* Impl::shutting_down_, and the socket is closed
    accepted,            \* inputs that arrived (history)
    handled,             \* inputs dispatched, or dropped for want of a
                         \*   window, in order (history)
    work_posted,         \* plugin work items posted (history, for MaxWork)
    first_quit           \* who set quit_flag first, after how many inputs

hostVars == <<window, quit_flag, post_queue, input_queue, input_work_pending, local>>
history == <<accepted, handled, work_posted, first_quit>>
vars == <<main, thread, hostVars, shutting_down, history>>

Threads == {Reader} \cup Workers

MainPlaces == {"setup", "loop", "waiting", "drain", "dispatch", "work",
               "returned", "join", "exit"}
ThreadPlaces == {"idle", "post", "notify", "notify_last", "ended"}
Items == {"drain", "work"}

TypeOK ==
    /\ main \in MainPlaces
    /\ thread \in [Threads -> ThreadPlaces]
    /\ window \in {"none", "open"}
    /\ quit_flag \in BOOLEAN
    /\ post_queue \in Seq(Items)
    /\ input_queue \in Seq(Nat)
    /\ input_work_pending \in BOOLEAN
    /\ local \in Seq(Nat)
    /\ shutting_down \in BOOLEAN
    /\ accepted \in Nat
    /\ handled \in Seq(Nat)
    /\ work_posted \in Nat
    /\ first_quit \in [by : {"nobody", "reader", "plugin"}, at : Nat]

\* AppHost::run() has loaded the plugin and started the reader.
Init ==
    /\ main = "setup"
    /\ thread = [t \in Threads |-> "idle"]
    /\ window = "none"
    /\ quit_flag = FALSE
    /\ post_queue = <<>>
    /\ input_queue = <<>>
    /\ input_work_pending = FALSE
    /\ local = <<>>
    /\ shutting_down = FALSE
    /\ accepted = 0
    /\ handled = <<>>
    /\ work_posted = 0
    /\ first_quit = [by |-> "nobody", at |-> 0]

-----------------------------------------------------------------------------
(* The host's operations, as any thread may call them.                     *)

\* on_host_quit(), under the lock.
SetQuit(who) ==
    /\ quit_flag' = TRUE
    /\ first_quit' = IF quit_flag THEN first_quit
                     ELSE [by |-> who, at |-> accepted]

\* Mutant of Notify: the condition variable is not signalled.
NotifyNobody(t, next) ==
    /\ thread' = [thread EXCEPT ![t] = next]
    /\ UNCHANGED main

\* cv.notify_all(), and the caller goes on to `next'.
Notify(t, next) ==
    /\ thread' = [thread EXCEPT ![t] = next]
    /\ main' = IF main = "waiting" THEN "loop" ELSE main

ReturnFromNotify(t) ==
    /\ \/ thread[t] = "notify" /\ Notify(t, "idle")
       \/ thread[t] = "notify_last" /\ Notify(t, "ended")
    /\ UNCHANGED <<hostVars, shutting_down, history>>

-----------------------------------------------------------------------------
(* The reader thread: Impl::reader_loop() and the packet handlers.         *)

\* Mutant of ReaderInput: every input posts a drain of its own.
ReaderInputAlwaysPosts ==
    /\ thread[Reader] = "idle" /\ accepted < MaxInputs
    /\ accepted' = accepted + 1
    /\ input_queue' = Append(input_queue, accepted + 1)
    /\ input_work_pending' = TRUE
    /\ thread' = [thread EXCEPT ![Reader] = "post"]
    /\ UNCHANGED <<main, window, quit_flag, post_queue, local, shutting_down,
                   handled, work_posted, first_quit>>

\* post_mouse_input() and post_keyboard_input(), under the lock: whoever
\* finds input_work_pending clear sets it and owes a drain.
ReaderInput ==
    /\ thread[Reader] = "idle" /\ accepted < MaxInputs
    /\ accepted' = accepted + 1
    /\ input_queue' = Append(input_queue, accepted + 1)
    /\ input_work_pending' = TRUE
    /\ thread' = [thread EXCEPT ![Reader] =
                    IF input_work_pending THEN "idle" ELSE "post"]
    /\ UNCHANGED <<main, window, quit_flag, post_queue, local, shutting_down,
                   handled, work_posted, first_quit>>

\* Mutant of ReaderPostDrain: the WorkProc that is posted has no function.
ReaderPostEmpty ==
    /\ thread[Reader] = "post"
    /\ post_queue' = Append(post_queue, "none")
    /\ thread' = [thread EXCEPT ![Reader] = "notify"]
    /\ UNCHANGED <<main, window, quit_flag, input_queue, input_work_pending,
                   local, shutting_down, history>>

\* on_host_post_work() of the drain that is owed, under the lock.
ReaderPostDrain ==
    /\ thread[Reader] = "post"
    /\ post_queue' = Append(post_queue, "drain")
    /\ thread' = [thread EXCEPT ![Reader] = "notify"]
    /\ UNCHANGED <<main, window, quit_flag, input_queue, input_work_pending,
                   local, shutting_down, history>>

\* CLOSE_SESSION: the plugin is asked to quit and the reader reads on.  (With
\* quit_flag set already, here and in WorkerQuits, only the notify_all() would
\* be repeated.)
ReaderClose ==
    /\ thread[Reader] = "idle" /\ ~quit_flag
    /\ SetQuit("reader")
    /\ thread' = [thread EXCEPT ![Reader] = "notify"]
    /\ UNCHANGED <<main, window, post_queue, input_queue, input_work_pending,
                   local, shutting_down, accepted, handled, work_posted>>

\* recv() returned 0 or an error: the reader asks for quit and ends.
ReaderEof ==
    /\ thread[Reader] = "idle"
    /\ SetQuit("reader")
    /\ thread' = [thread EXCEPT ![Reader] = "notify_last"]
    /\ UNCHANGED <<main, window, post_queue, input_queue, input_work_pending,
                   local, shutting_down, accepted, handled, work_posted>>

\* The reader sees shutting_down_ at the head of its loop.
ReaderStops ==
    /\ thread[Reader] = "idle" /\ shutting_down
    /\ thread' = [thread EXCEPT ![Reader] = "ended"]
    /\ UNCHANGED <<main, hostVars, shutting_down, history>>

-----------------------------------------------------------------------------
(* Threads of the plugin.                                                  *)

WorkerPosts(t) ==
    /\ thread[t] = "idle" /\ work_posted < MaxWork
    /\ post_queue' = Append(post_queue, "work")
    /\ work_posted' = work_posted + 1
    /\ thread' = [thread EXCEPT ![t] = "notify"]
    /\ UNCHANGED <<main, window, quit_flag, input_queue, input_work_pending,
                   local, shutting_down, accepted, handled, first_quit>>

WorkerQuits(t) ==
    /\ thread[t] = "idle" /\ ~quit_flag
    /\ SetQuit("plugin")
    /\ thread' = [thread EXCEPT ![t] = "notify"]
    /\ UNCHANGED <<main, window, post_queue, input_queue, input_work_pending,
                   local, shutting_down, accepted, handled, work_posted>>

-----------------------------------------------------------------------------
(* The main thread: the plugin, its Loop and the end of AppHost::run().    *)

\* What plugin code on the main thread may do to the host before it returns:
\* nothing (or only draw), Quit(), PostWork(), Destroy() or CreateToplevel().
\* The notify_all() of its calls finds no one waiting.
PluginCode ==
    \/ UNCHANGED <<window, quit_flag, post_queue, work_posted, first_quit>>
    \/ SetQuit("plugin") /\ UNCHANGED <<window, post_queue, work_posted>>
    \/ /\ work_posted < MaxWork
       /\ post_queue' = Append(post_queue, "work")
       /\ work_posted' = work_posted + 1
       /\ UNCHANGED <<window, quit_flag, first_quit>>
    \/ /\ window' = IF window = "open" THEN "none" ELSE "open"
       /\ UNCHANGED <<quit_flag, post_queue, work_posted, first_quit>>

\* GuiMain() up to GuiHelper::Loop(), or all of it if it never calls Loop().
Setup ==
    /\ main = "setup"
    /\ PluginCode
    /\ main' \in {"setup", "loop", "returned"}
    /\ UNCHANGED <<thread, input_queue, input_work_pending, local,
                   shutting_down, accepted, handled>>

\* Mutant of Loop: quit_flag is looked at before the work that is posted.
LoopQuitsFirst ==
    /\ main = "loop"
    /\ \/ quit_flag /\ main' = "returned" /\ UNCHANGED post_queue
       \/ /\ ~quit_flag /\ post_queue # <<>>
          /\ main' = Head(post_queue) /\ post_queue' = Tail(post_queue)
       \/ /\ ~quit_flag /\ post_queue = <<>>
          /\ main' = "waiting" /\ UNCHANGED post_queue
    /\ UNCHANGED <<thread, window, quit_flag, input_queue, input_work_pending,
                   local, shutting_down, history>>

\* on_host_loop() with the lock held: take the next work item; with none
\* left, break on quit_flag, else wait on cv.
Loop ==
    /\ main = "loop"
    /\ \/ /\ post_queue # <<>>
          /\ main' = Head(post_queue) /\ post_queue' = Tail(post_queue)
       \/ /\ post_queue = <<>> /\ UNCHANGED post_queue
          /\ main' = IF quit_flag THEN "returned" ELSE "waiting"
    /\ UNCHANGED <<thread, window, quit_flag, input_queue, input_work_pending,
                   local, shutting_down, history>>

\* cv.wait() may return although nobody notified it.
SpuriousWakeup ==
    /\ main = "waiting" /\ main' = "loop"
    /\ UNCHANGED <<thread, hostVars, shutting_down, history>>

Work ==
    /\ main = "work" /\ main' = "loop"
    /\ PluginCode
    /\ UNCHANGED <<thread, input_queue, input_work_pending, local,
                   shutting_down, accepted, handled>>

\* Mutant of Drain: input_work_pending is left set.
DrainKeepsPending ==
    /\ main = "drain" /\ main' = "dispatch"
    /\ local' = input_queue
    /\ input_queue' = <<>>
    /\ UNCHANGED <<thread, window, quit_flag, post_queue, input_work_pending,
                   shutting_down, history>>

\* Mutant of Drain: one input is taken out, as if each had its own drain.
DrainTakesOne ==
    /\ main = "drain" /\ main' = "dispatch"
    /\ local' = SubSeq(input_queue, 1, 1)
    /\ input_queue' = SubSeq(input_queue, 2, Len(input_queue))
    /\ input_work_pending' = FALSE
    /\ UNCHANGED <<thread, window, quit_flag, post_queue, shutting_down, history>>

\* drain_input_queue_on_main_thread(), under the lock.
Drain ==
    /\ main = "drain" /\ main' = "dispatch"
    /\ local' = input_queue
    /\ input_queue' = <<>>
    /\ input_work_pending' = FALSE
    /\ UNCHANGED <<thread, window, quit_flag, post_queue, shutting_down, history>>

\* dispatch_mouse() or dispatch_keyboard() of the oldest input taken out: the
\* window's handler runs, if there is a window.
Dispatch ==
    /\ main = "dispatch" /\ local # <<>>
    /\ handled' = Append(handled, Head(local))
    /\ local' = Tail(local)
    /\ \/ window = "open" /\ PluginCode
       \/ window = "none" /\ UNCHANGED <<window, quit_flag, post_queue,
                                         work_posted, first_quit>>
    /\ UNCHANGED <<main, thread, input_queue, input_work_pending,
                   shutting_down, accepted>>

Drained ==
    /\ main = "dispatch" /\ local = <<>>
    /\ main' = "loop"
    /\ UNCHANGED <<thread, hostVars, shutting_down, history>>

\* Mutant of Shutdown: the reader is joined with its socket still open.
ShutdownKeepsSocket ==
    /\ main = "returned" /\ main' = "join"
    /\ UNCHANGED <<thread, hostVars, shutting_down, history>>

\* The plugin returned: shutting_down_ is set, the socket closed.
Shutdown ==
    /\ main = "returned" /\ main' = "join"
    /\ shutting_down' = TRUE
    /\ UNCHANGED <<thread, hostVars, history>>

Join ==
    /\ main = "join" /\ thread[Reader] = "ended"
    /\ main' = "exit"
    /\ UNCHANGED <<thread, hostVars, shutting_down, history>>

-----------------------------------------------------------------------------

MainStep == \/ Loop \/ Work \/ Drain \/ Dispatch \/ Drained \/ Shutdown \/ Join

ReaderStep == ReaderInput \/ ReaderClose \/ ReaderEof \/ ReaderStops

Next ==
    \/ MainStep \/ Setup \/ SpuriousWakeup
    \/ ReaderStep \/ ReaderPostDrain
    \/ \E t \in Threads : ReturnFromNotify(t)
    \/ \E t \in Workers : WorkerPosts(t) \/ WorkerQuits(t)

Spec == Init /\ [][Next]_vars

\* Threads run and plugin code returns, GuiMain() by way of Loop() or not.  A
\* closed socket ends the reader's recv().  Nothing has to arrive, and no
\* spurious wakeup has to come.
Fairness ==
    /\ WF_vars(MainStep)
    /\ WF_vars(Setup /\ main' # "setup")
    /\ WF_vars(ReaderPostDrain)
    /\ WF_vars(shutting_down /\ (ReaderEof \/ ReaderStops))
    /\ \A t \in Threads : WF_vars(ReturnFromNotify(t))

FairSpec == Spec /\ Fairness

-----------------------------------------------------------------------------
(* Properties.                                                             *)

DrainsIn(q) == {i \in DOMAIN q : q[i] = "drain"}
DrainItems == DrainsIn(post_queue)

\* "A burst of N events enqueues at most one drain WorkProc" (M5.md:168), and
\* input_work_pending says exactly whether a drain is owed by the reader,
\* queued, or started and yet to take the queue.
OneDrain ==
    /\ \A i, j \in DrainItems : i = j
    /\ input_work_pending <=>
         \/ thread[Reader] = "post" \/ DrainItems # {} \/ main = "drain"
    /\ thread[Reader] = "post" => DrainItems = {} /\ main # "drain"
    /\ DrainItems # {} => main # "drain"

\* No input is stranded: one that is queued has a drain coming.
NoStrandedInput == input_queue # <<>> => input_work_pending

\* No wakeup is lost: the main thread never sleeps on work or on a quit that
\* nobody is about to notify it of.
NoLostWakeup ==
    main = "waiting" /\ (quit_flag \/ post_queue # <<>>) =>
       \E t \in Threads : thread[t] \in {"notify", "notify_last"}

\* An input that arrived before the CLOSE_SESSION (or the end of the socket)
\* that ends the Loop is handled before Loop() returns.
InputsBeforeClose ==
    [][main = "loop" /\ main' = "returned" /\ first_quit.by = "reader"
          => Len(handled) >= first_quit.at]_vars

\* quit_flag ends the process: Loop() returns, the socket is closed, and the
\* reader is joined, wherever the quit came from.
QuitEndsProcess == quit_flag ~> main = "exit"

\* The queues of the host are one FIFO of inputs: exactly once, in order, and
\* handled as long as the plugin has not returned.
Inputs == INSTANCE InputFifo WITH
             pending <- local \o input_queue,
             open <- main \notin {"returned", "join", "exit"}

ImplementsFifo == Inputs!FifoSpec
=============================================================================
