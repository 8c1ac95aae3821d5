------------------------------- MODULE Assessor -------------------------------
(***************************************************************************)
(* One assessment of shadowcrafter.blackbox.assessor: the coroutines of     *)
(* _observe_one on one event loop, the semaphore, the sliding-window        *)
(* limiter and the DNS pins they share, and the threads of                  *)
(* PinnedStdlibTransport that outlive a timeout or a cancellation.          *)
(* A step is what runs between two awaits.  What is requested and answered  *)
(* is left out: an answer is good or it fails the safety checks.            *)
(***************************************************************************)
EXTENDS Integers, Sequences, FiniteSets

CONSTANTS
    Task,               \* the requests of the batch: a target and a method
    Host,
    HostOf,             \* the host and port of each request
    Address,            \* addresses the resolver may answer
    NoAddress,
    Limit,              \* requests_per_minute
    Window,             \* the window of the limiter
    MaxConcurrency,     \* permits of the semaphore
    Timeout,            \* request_timeout_seconds
    Expiry,             \* valid_until of the authorization
    MaxTime             \* bound: the clock stops here

ASSUME TaskAssumption ==
    /\ HostOf \in [Task -> Host]
    /\ NoAddress \notin Address
    /\ IsFiniteSet(Task)

ASSUME LimitAssumption ==
    /\ Limit \in Nat \ {0}
    /\ Window \in Nat \ {0}
    /\ MaxConcurrency \in Nat \ {0}
    /\ Timeout \in Nat \ {0}

ASSUME TimeAssumption ==
    /\ Expiry \in Nat \ {0}
    /\ MaxTime \in Nat
    /\ MaxTime >= Expiry + Window /\ MaxTime >= Expiry + Timeout

VARIABLES
    now,        \* the clock
    batch,      \* the coroutine of assess
    task,       \* the coroutines of _observe_one
    stamps,     \* the deque of the limiter
    pins,       \* the address each host is pinned to
    thread,     \* the transport thread of each request
    grants,     \* history: when the limiter let a request through
    used        \* history: the address a request was given

vars == <<now, batch, task, stamps, pins, thread, grants, used>>

-----------------------------------------------------------------------------
TaskState ==
    [at : {"created", "asleep", "admitted", "resolving", "sending", "done", "failed",
           "cancelled"},
     due : Nat]     \* when it wakes up, or when wait_for ends

At(t, location) == task[t].at = location
Ended(t) == task[t].at \in {"done", "failed", "cancelled"}

(* Inside the semaphore, and holding the lock of the pins.                  *)
Holders == {t \in Task : ~At(t, "created") /\ ~Ended(t)}
DnsLocked == \E t \in Task : At(t, "resolving")

Live(t) == thread[t] = "open"
Connections == {t \in Task : Live(t)}

(* An asyncio task only runs while the batch is being gathered.             *)
Running(t) == batch = "gathering" /\ ~Ended(t)

Move(t, location) == task' = [task EXCEPT ![t].at = location]

Init ==
    /\ now = 0
    /\ batch = "gathering"
    /\ task = [t \in Task |-> [at |-> "created", due |-> 0]]
    /\ stamps = <<>>
    /\ pins = [h \in Host |-> NoAddress]
    /\ thread = [t \in Task |-> "none"]
    /\ grants = <<>>
    /\ used = [t \in Task |-> NoAddress]

-----------------------------------------------------------------------------
(* The semaphore and SlidingWindowRateLimiter.acquire                       *)

Authorized == now < Expiry

(* Faulty: a stamp leaves the window one unit early.                        *)
ExpiredEarly(stamp) == stamp <= now - Window + 1

Expired(stamp) == stamp <= now - Window

(* What the popleft loop leaves: the stamps from the first that is fresh.   *)
Popped(rest) ==
    \E k \in 0 .. Len(stamps) :
        /\ \A i \in 1 .. k : Expired(stamps[i])
        /\ k < Len(stamps) => ~Expired(stamps[k + 1])
        /\ rest = SubSeq(stamps, k + 1, Len(stamps))

(* Faulty: the wrong sign.                                                  *)
SleepBackwards(t, rest) ==
    /\ Len(rest) >= Limit
    /\ stamps' = rest
    /\ task' = [task EXCEPT ![t] = [at |-> "asleep", due |-> rest[1] - Window]]
    /\ UNCHANGED grants

(* Let through: the authorization is read again at once.                    *)
Admit(t, rest) ==
    /\ Len(rest) < Limit
    /\ stamps' = Append(rest, now)
    /\ grants' = Append(grants, now)
    /\ task' = [task EXCEPT ![t] =
                  [at |-> IF Authorized THEN "admitted" ELSE "failed", due |-> now + Timeout]]

(* Sent to sleep until the oldest stamp leaves the window.                  *)
Sleep(t, rest) ==
    /\ Len(rest) >= Limit
    /\ stamps' = rest
    /\ task' = [task EXCEPT ![t] = [at |-> "asleep", due |-> rest[1] + Window]]
    /\ UNCHANGED grants

TryAcquire(t) ==
    /\ \E k \in 0 .. Len(stamps) :
         LET rest == SubSeq(stamps, k + 1, Len(stamps)) IN
         Popped(rest) /\ (Admit(t, rest) \/ Sleep(t, rest))
    /\ UNCHANGED <<now, batch, pins, thread, used>>

(* Faulty: no semaphore.                                                    *)
EnterUnbounded(t) == Running(t) /\ At(t, "created") /\ TryAcquire(t)

Enter(t) ==
    /\ Running(t)
    /\ At(t, "created")
    /\ Cardinality(Holders) < MaxConcurrency
    /\ TryAcquire(t)

Wake(t) ==
    /\ Running(t)
    /\ At(t, "asleep")
    /\ now >= task[t].due
    /\ TryAcquire(t)

-----------------------------------------------------------------------------
(* resolve_and_send, under wait_for                                         *)

(* The authorization is read again, and the request handed to a thread.     *)
Submit(t, address) ==
    IF Authorized
    THEN /\ Move(t, "sending")
         /\ thread' = [thread EXCEPT ![t] = "queued"]
         /\ used' = [used EXCEPT ![t] = address]
    ELSE /\ Move(t, "failed")
         /\ UNCHANGED <<thread, used>>

UsePin(t) ==
    /\ Running(t)
    /\ At(t, "admitted")
    /\ ~DnsLocked
    /\ pins[HostOf[t]] # NoAddress
    /\ Submit(t, pins[HostOf[t]])
    /\ UNCHANGED <<now, batch, stamps, pins, grants>>

(* Faulty: the pin is looked up without the lock.                           *)
ResolveUnlocked(t) ==
    /\ Running(t)
    /\ At(t, "admitted")
    /\ pins[HostOf[t]] = NoAddress
    /\ Move(t, "resolving")
    /\ UNCHANGED <<now, batch, stamps, pins, thread, grants, used>>

(* The lock stays taken while the resolver is awaited.                      *)
Resolve(t) ==
    /\ Running(t)
    /\ At(t, "admitted")
    /\ ~DnsLocked
    /\ pins[HostOf[t]] = NoAddress
    /\ Move(t, "resolving")
    /\ UNCHANGED <<now, batch, stamps, pins, thread, grants, used>>

(* The resolver answers with what passes the checks, and any answer will do. *)
Pin(t) ==
    /\ Running(t)
    /\ At(t, "resolving")
    /\ \E address \in Address :
         /\ pins' = [pins EXCEPT ![HostOf[t]] = address]
         /\ Submit(t, address)
    /\ UNCHANGED <<now, batch, stamps, grants>>

(* It answers with nothing that does, or not at all.                        *)
ResolveFails(t) ==
    /\ Running(t)
    /\ At(t, "resolving")
    /\ Move(t, "failed")
    /\ UNCHANGED <<now, batch, stamps, pins, thread, grants, used>>

(* A job of the pool that no worker has taken yet is dropped with the       *)
(* future that waits for it; a thread that runs is not stopped.             *)
Dropped(ts) == [t \in Task |-> IF t \in ts /\ thread[t] = "queued" THEN "none" ELSE thread[t]]

(* Faulty: the resolver is awaited outside wait_for.                        *)
TimeOutSending(t) ==
    /\ Running(t)
    /\ At(t, "sending")
    /\ now >= task[t].due
    /\ Move(t, "failed")
    /\ thread' = Dropped({t})
    /\ UNCHANGED <<now, batch, stamps, pins, grants, used>>

TimeOut(t) ==
    /\ Running(t)
    /\ task[t].at \in {"admitted", "resolving", "sending"}
    /\ now >= task[t].due
    /\ Move(t, "failed")
    /\ thread' = Dropped({t})
    /\ UNCHANGED <<now, batch, stamps, pins, grants, used>>

(* The response, or the exception, of the thread; the response passes the   *)
(* checks of _validate_transport_response or it does not.                   *)
Receive(t) ==
    /\ Running(t)
    /\ At(t, "sending")
    /\ thread[t] = "closed"
    /\ \E result \in {"done", "failed"} : Move(t, result)
    /\ UNCHANGED <<now, batch, stamps, pins, thread, grants, used>>

-----------------------------------------------------------------------------
(* The transport threads                                                    *)

OpenConnection(t) ==
    /\ thread[t] = "queued"
    /\ thread' = [thread EXCEPT ![t] = "open"]
    /\ UNCHANGED <<now, batch, task, stamps, pins, grants, used>>

(* Whatever the server does: each socket operation has a timeout, the       *)
(* exchange as a whole has none.                                            *)
CloseConnection(t) ==
    /\ Live(t)
    /\ thread' = [thread EXCEPT ![t] = "closed"]
    /\ UNCHANGED <<now, batch, task, stamps, pins, grants, used>>

-----------------------------------------------------------------------------
(* assess                                                                   *)

(* Every task that has not ended is cancelled, and waited for.              *)
CancelAll ==
    /\ batch' = "raised"
    /\ task' = [t \in Task |-> IF Ended(t) THEN task[t] ELSE [task[t] EXCEPT !.at = "cancelled"]]
    /\ thread' = Dropped(Task)
    /\ UNCHANGED <<now, stamps, pins, grants, used>>

(* Faulty: the exception is raised and the other tasks are left.            *)
AbortAlone ==
    /\ batch = "gathering"
    /\ \E t \in Task : At(t, "failed")
    /\ batch' = "raised"
    /\ UNCHANGED <<now, task, stamps, pins, thread, grants, used>>

(* gather raises the first failure.                                         *)
Abort ==
    /\ batch = "gathering"
    /\ \E t \in Task : At(t, "failed")
    /\ CancelAll

(* assess itself is cancelled by its caller.                                *)
Interrupt ==
    /\ batch = "gathering"
    /\ CancelAll

Finish ==
    /\ batch = "gathering"
    /\ \A t \in Task : At(t, "done")
    /\ batch' = "finished"
    /\ UNCHANGED <<now, task, stamps, pins, thread, grants, used>>

Tick ==
    /\ now < MaxTime
    /\ now' = now + 1
    /\ UNCHANGED <<batch, task, stamps, pins, thread, grants, used>>

-----------------------------------------------------------------------------
(* What the event loop runs by itself.                                      *)
Observe(t) ==
    \/ Enter(t) \/ Wake(t) \/ UsePin(t) \/ Resolve(t) \/ TimeOut(t) \/ Receive(t)

(* What depends on the resolver, the pool and the server.                   *)
Network(t) == Pin(t) \/ ResolveFails(t) \/ OpenConnection(t) \/ CloseConnection(t)

Next ==
    \/ \E t \in Task : Observe(t) \/ Network(t)
    \/ Abort \/ Interrupt \/ Finish \/ Tick

Spec == Init /\ [][Next]_vars

(* The event loop runs what is ready and time passes; the network may hang. *)
FairSpec ==
    /\ Spec
    /\ \A t \in Task : WF_vars(Wake(t) \/ UsePin(t) \/ Resolve(t) \/ TimeOut(t) \/ Receive(t))
    /\ WF_vars(\E t \in Task : Enter(t))
    /\ WF_vars(Abort) /\ WF_vars(Finish) /\ WF_vars(Tick)

-----------------------------------------------------------------------------
(* Properties                                                               *)

(* Every variable has its type.                                             *)
TypeOK ==
    /\ now \in Nat
    /\ batch \in {"gathering", "raised", "finished"}
    /\ task \in [Task -> TaskState]
    /\ stamps \in Seq(Nat)
    /\ pins \in [Host -> Address \cup {NoAddress}]
    /\ thread \in [Task -> {"none", "queued", "open", "closed"}]
    /\ grants \in Seq(Nat)
    /\ used \in [Task -> Address \cup {NoAddress}]

(* The limiter never lets more than Limit requests through in a window,     *)
(* whoever sleeps, wakes up late or is cancelled: from one grant to the     *)
(* Limit-th after it a whole window has passed.                             *)
GrantsAreSpaced ==
    \A i \in 1 .. Len(grants) :
        i + Limit <= Len(grants) => grants[i + Limit] >= grants[i] + Window

(* All requests to a host go to one address, also when several resolve it   *)
(* at once and the resolver answers differently each time.                  *)
OneAddressPerHost ==
    \A t \in Task : used[t] # NoAddress => used[t] = pins[HostOf[t]]

(* As long as nothing has failed the permits bound the connections, and not *)
(* only the coroutines.                                                     *)
ConnectionsFollowPermits ==
    (\A t \in Task : task[t].at \notin {"failed", "cancelled"})
        => Cardinality(Connections) <= MaxConcurrency

(* An assessment that is over, well or not, has left nothing behind that    *)
(* could still begin: no coroutine and no queued request.                   *)
OverIsOver ==
    batch # "gathering" => \A t \in Task : Ended(t) /\ thread[t] # "queued"

(* The deque holds the last grants; what has left it is a window old.       *)
LimiterInv ==
    LET past == Len(grants) - Len(stamps) IN
    /\ past >= 0 /\ Len(stamps) <= Limit
    /\ \A i \in 1 .. Len(stamps) : stamps[i] = grants[past + i]
    /\ \A i \in 1 .. past : grants[i] + Window <= now
    /\ \A i \in 1 .. Len(grants) : grants[i] <= now
    /\ \A i, j \in 1 .. Len(grants) : i <= j => grants[i] <= grants[j]

(* One coroutine resolves at a time, for a host that has no pin.            *)
PinInv ==
    /\ \A t \in Task : At(t, "resolving") => pins[HostOf[t]] = NoAddress
    /\ \A s, t \in Task : At(s, "resolving") /\ At(t, "resolving") => s = t

(* Where the coroutine of a request with a thread can be.                   *)
ThreadInv ==
    \A t \in Task :
        /\ thread[t] = "queued" => At(t, "sending")
        /\ thread[t] = "open" => task[t].at \in {"sending", "failed", "cancelled"}

(* What makes the invariants inductive.                                     *)
IInv ==
    /\ TypeOK
    /\ LimiterInv /\ GrantsAreSpaced
    /\ PinInv /\ OneAddressPerHost
    /\ ThreadInv /\ OverIsOver
    /\ Cardinality(Holders) <= MaxConcurrency

(* An assessment ends, with a result or an error, whatever the resolver and *)
(* the servers do.                                                          *)
AssessmentEnds == <>(batch # "gathering")

(* docs/BLACK_BOX_ASSESSMENT.md: no more requests than the permits are      *)
(* under way.                                                               *)
ConnectionsBounded == Cardinality(Connections) <= MaxConcurrency
=============================================================================
