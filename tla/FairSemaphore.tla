---------------------------- MODULE FairSemaphore ----------------------------
(***************************************************************************)
(* The tokio::sync::Semaphore behind AppState.semaphore, as post_ask uses  *)
(* it.  tokio is a dependency, not code of this repository; what is        *)
(* modelled is the part of its contract the server relies on: one permit   *)
(* per acquire, waiters served in arrival order, a released permit handed  *)
(* to the first waiter rather than to a newcomer, and an acquire future    *)
(* that is dropped giving back what it was handed.                         *)
(***************************************************************************)
EXTENDS Naturals

CONSTANTS Tasks,      \* the tasks that may acquire, each at most once; finite
          Capacity    \* the permits the semaphore is created with; positive

VARIABLES free,       \* available_permits()
          held,       \* the tasks a permit is assigned to
          ticket,     \* a waiting task's place in the queue, 0 for the others
          nextTicket

semVars == <<free, held, ticket, nextTicket>>

SemTypeOK == /\ free \in 0..Capacity
             /\ held \subseteq Tasks
             /\ ticket \in [Tasks -> Nat]
             /\ nextTicket \in Nat \ {0}

SemInit == /\ free = Capacity
           /\ held = {}
           /\ ticket = [t \in Tasks |-> 0]
           /\ nextTicket = 1

Waiting == {t \in Tasks : ticket[t] # 0}
FirstWaiting == {t \in Waiting : \A u \in Waiting : ticket[t] <= ticket[u]}

\* acquire() is polled for the first time: it takes a free permit or joins the
\* end of the queue.
TakePermit(t) == /\ free > 0
                 /\ free' = free - 1
                 /\ held' = held \cup {t}
                 /\ UNCHANGED <<ticket, nextTicket>>

JoinQueue(t) == /\ free = 0
                /\ ticket' = [ticket EXCEPT ![t] = nextTicket]
                /\ nextTicket' = nextTicket + 1
                /\ UNCHANGED <<free, held>>

Acquire(t) == t \notin held \cup Waiting /\ (TakePermit(t) \/ JoinQueue(t))

\* A permit guard, or an acquire future that was already handed a permit, is
\* dropped.
PassOn(t) == \E u \in FirstWaiting :
                /\ held' = (held \ {t}) \cup {u}
                /\ ticket' = [ticket EXCEPT ![u] = 0]
                /\ UNCHANGED <<free, nextTicket>>

PutBack(t) == /\ Waiting = {}
              /\ free' = free + 1
              /\ held' = held \ {t}
              /\ UNCHANGED <<ticket, nextTicket>>

Release(t) == t \in held /\ (PassOn(t) \/ PutBack(t))

\* An acquire future that still waits is dropped.
Abandon(t) == /\ t \in Waiting
              /\ ticket' = [ticket EXCEPT ![t] = 0]
              /\ UNCHANGED <<free, held, nextTicket>>

\* The process restarts and creates the semaphore anew.
Recreate == /\ free' = Capacity
            /\ held' = {}
            /\ ticket' = [t \in Tasks |-> 0]
            /\ nextTicket' = 1

SemNext == \/ \E t \in Tasks : Acquire(t) \/ Release(t) \/ Abandon(t)
           \/ Recreate

SemSpec == SemInit /\ [][SemNext]_semVars

----------------------------------------------------------------------------

\* Nobody queues while a permit is available: a release that found waiters
\* handed its permit over, and a 503 service_busy is only ever answered while
\* every permit is in use.
NoIdlePermit == Waiting # {} => free = 0

\* A task that holds a permit has left the queue, and no two tasks share a
\* place in it.
QueueOrdered == /\ held \cap Waiting = {}
                /\ \A t \in Waiting : ticket[t] < nextTicket
                /\ \A t, u \in Waiting : ticket[t] = ticket[u] => t = u

SemInv == NoIdlePermit /\ QueueOrdered

=============================================================================
