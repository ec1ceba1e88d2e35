----------------------------- MODULE LeasedCache -----------------------------
(***************************************************************************)
(* What the project manager promises its callers                           *)
(* (crates/cli/src/project_manager.rs), without LRU order, idle timers,    *)
(* byte budgets, snapshots or counters: a cache of at most one graph per   *)
(* project that lends its graphs to threads.                               *)
(*                                                                         *)
(* A thread borrows the resident graph, or builds it while nobody else     *)
(* builds it and then holds it.  Reclaiming memory takes out only graphs   *)
(* that nobody holds.  The one exception is a refresh (stale source, an    *)
(* explicit reload): it drops the graph whoever holds it, the holders keep *)
(* a graph of their own, and from then on the project is `torn`: its       *)
(* bookkeeping may be off and reclaiming may hit a graph in use.           *)
(***************************************************************************)
CONSTANTS
  Project,
  Thread,
  NoThread

VARIABLES
  resident,  \* the projects whose graph is in the cache
  builder,   \* who builds the project's graph, or NoThread
  holds,     \* the project whose cached graph the thread holds, as a set
  torn       \* projects refreshed under a holder, or whose borrow leaked

vars == <<resident, builder, holds, torn>>

Holders(p) == {t \in Thread : p \in holds[t]}

Init ==
  /\ resident = {}
  /\ builder = [p \in Project |-> NoThread]
  /\ holds = [t \in Thread |-> {}]
  /\ torn = {}

\* The graphs of S leave the cache; who holds one keeps it, as a stranger.
Forget(S) ==
  /\ resident' = resident \ S
  /\ holds' = [t \in Thread |-> holds[t] \ S]
  /\ torn' = torn \cup {p \in S : Holders(p) # {}}

Borrow(t, p) ==
  /\ p \in resident
  /\ holds[t] = {}
  /\ holds' = [holds EXCEPT ![t] = {p}]
  /\ UNCHANGED <<resident, builder, torn>>

\* A miss, or a hit on a stale graph: the thread becomes the builder unless
\* there is one already.
Refresh(t, p) ==
  /\ holds[t] = {}
  /\ Forget({p})
  /\ \/ UNCHANGED builder
     \/ builder[p] = NoThread /\ builder' = [builder EXCEPT ![p] = t]

Finish(t, p) ==
  /\ builder[p] = t
  /\ p \notin resident
  /\ builder' = [builder EXCEPT ![p] = NoThread]
  /\ resident' = resident \cup {p}
  /\ holds' = [holds EXCEPT ![t] = {p}]
  /\ UNCHANGED torn

Fail(t, p) ==
  /\ builder[p] = t
  /\ builder' = [builder EXCEPT ![p] = NoThread]
  /\ UNCHANGED <<resident, holds, torn>>

\* The thread is done with the graph it may still hold.
Return(t) ==
  /\ holds' = [holds EXCEPT ![t] = {}]
  /\ UNCHANGED <<resident, builder, torn>>

\* The same, but the cache is not told: the graph stays counted as held.
Leak(t, p) ==
  /\ holds' = [holds EXCEPT ![t] = {}]
  /\ torn' = torn \cup {p}
  /\ UNCHANGED <<resident, builder>>

\* Cap, budget and idle time reclaim what nobody holds.
Reclaim ==
  /\ \E S \in SUBSET resident : (\A p \in S : p \in torn \/ Holders(p) = {}) /\ Forget(S)
  /\ UNCHANGED builder

Next ==
  \/ \E t \in Thread, p \in Project :
       Borrow(t, p) \/ Refresh(t, p) \/ Finish(t, p) \/ Fail(t, p) \/ Leak(t, p)
  \/ \E t \in Thread : Return(t)
  \/ Reclaim

Spec == Init /\ [][Next]_vars
==============================================================================
