----------------------------- MODULE InputFifo -----------------------------
(***************************************************************************)
(* What the AppHost promises of INPUT_EVENTs (docs/design/M5.md): each one *)
(* that the socket reader accepts is handed to the plugin once, in the     *)
(* order of arrival, and none is left waiting while the plugin's Loop is   *)
(* open.  Inputs are numbered as they arrive.                              *)
(***************************************************************************)
EXTENDS Naturals, Sequences

CONSTANT MaxInputs  \* bound on the inputs that arrive

VARIABLES
    pending,  \* inputs accepted and not yet handled, oldest first
    handled,  \* inputs handled, in the order of handling
    open      \* Loop has not returned

fifoVars == <<pending, handled, open>>

FifoInit == pending = <<>> /\ handled = <<>> /\ open = TRUE

\* The next input arrives, also when nobody will handle it any more.
Accept ==
    /\ Len(handled) + Len(pending) < MaxInputs
    /\ pending' = Append(pending, Len(handled) + Len(pending) + 1)
    /\ UNCHANGED <<handled, open>>

Handle ==
    /\ open /\ pending # <<>>
    /\ handled' = Append(handled, Head(pending))
    /\ pending' = Tail(pending)
    /\ UNCHANGED open

Close == open /\ open' = FALSE /\ UNCHANGED <<pending, handled>>

FifoNext == Accept \/ Handle \/ Close

FifoSpec == FifoInit /\ [][FifoNext]_fifoVars /\ WF_fifoVars(Handle)
=============================================================================
