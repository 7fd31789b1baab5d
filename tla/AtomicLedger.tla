---------------------------- MODULE AtomicLedger ----------------------------
(***************************************************************************)
(* What the event ledger promises its callers: a submitted batch takes     *)
(* effect at one instant, whole and valid against the log of that instant, *)
(* or it has no effect at all.  A caller that names an expected base       *)
(* revision is only granted while nobody else has appended since it looked.*)
(* Ledger.tla is shown to implement this specification.                    *)
(***************************************************************************)
EXTENDS Naturals, Sequences

CONSTANTS
    Writers,   \* the tasks and processes that append
    Events,    \* event identities
    Batches,   \* the batches a caller may submit: sequences of events
    Refused    \* Refused[e]: events whose presence makes the projector refuse e

VARIABLES
    log,       \* the canonical sequence of events
    view,      \* view[w]: the revision w last looked at
    want,      \* want[w]: the batch w submitted last
    guarded,   \* guarded[w]: w asked for its batch to be applied to view[w] only
    req        \* req[w]: how w's request stands

vars == <<log, view, want, guarded, req>>

(* Every event of s is new to the events before it and not refused by them. *)
Admissible(s) ==
    \A i, j \in DOMAIN s :
        j < i => /\ s[j] # s[i]
                 /\ s[j] \notin Refused[s[i]]

Init ==
    /\ log = <<>>
    /\ view = [w \in Writers |-> 0]
    /\ want = [w \in Writers |-> <<>>]
    /\ guarded = [w \in Writers |-> FALSE]
    /\ req = [w \in Writers |-> "none"]

Look(w) ==
    /\ req[w] = "none"
    /\ view' = [view EXCEPT ![w] = Len(log)]
    /\ UNCHANGED <<log, want, guarded, req>>

Ask(w, b, g) ==
    /\ req[w] = "none"
    /\ want' = [want EXCEPT ![w] = b]
    /\ guarded' = [guarded EXCEPT ![w] = g]
    /\ req' = [req EXCEPT ![w] = "pending"]
    /\ UNCHANGED <<log, view>>

Grant(w) ==
    /\ req[w] = "pending"
    /\ want[w] # <<>>
    /\ guarded[w] => view[w] = Len(log)
    /\ Admissible(log \o want[w])
    /\ log' = log \o want[w]
    /\ req' = [req EXCEPT ![w] = "granted"]
    /\ UNCHANGED <<view, want, guarded>>

Refuse(w) ==
    /\ req[w] = "pending"
    /\ req' = [req EXCEPT ![w] = "refused"]
    /\ UNCHANGED <<log, view, want, guarded>>

(* The caller takes its answer, or dies before or after there is one. *)
Forget(w) ==
    /\ req[w] # "none"
    /\ req' = [req EXCEPT ![w] = "none"]
    /\ UNCHANGED <<log, view, want, guarded>>

Next ==
    \E w \in Writers :
        \/ Look(w)
        \/ \E b \in Batches, g \in BOOLEAN : Ask(w, b, g)
        \/ Grant(w)
        \/ Refuse(w)
        \/ Forget(w)

Spec == Init /\ [][Next]_vars
=============================================================================
