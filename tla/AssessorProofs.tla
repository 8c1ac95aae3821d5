---------------------------- MODULE AssessorProofs ----------------------------
(***************************************************************************)
(* The invariants of one assessment, for any batch, limits and lifetime of  *)
(* the authorization.                                                       *)
(***************************************************************************)
EXTENDS Assessor, FiniteSetTheorems, TLAPS

USE TaskAssumption, LimitAssumption, TimeAssumption

Location ==
    {"created", "asleep", "admitted", "resolving", "sending", "done", "failed", "cancelled"}

-----------------------------------------------------------------------------
(* One coroutine moved to a place it keeps its due time at.                 *)
LEMMA MoveFields ==
    ASSUME TypeOK, NEW t \in Task, NEW l \in Location, Move(t, l)
    PROVE  /\ task' \in [Task -> TaskState]
           /\ task'[t].at = l
           /\ \A s \in Task : s # t => task'[s] = task[s]
  BY DEF TypeOK, TaskState, Move, Location

LEMMA PutFields ==
    ASSUME TypeOK, NEW t \in Task, NEW x \in TaskState, task' = [task EXCEPT ![t] = x]
    PROVE  /\ task' \in [Task -> TaskState]
           /\ task'[t] = x
           /\ \A s \in Task : s # t => task'[s] = task[s]
  BY DEF TypeOK

(* The coroutines inside the semaphore are finitely many.                   *)
LEMMA HoldersFinite == IsFiniteSet(Holders) /\ Cardinality(Holders) \in Nat
  BY FS_Subset, FS_CardinalityType DEF Holders

(* No more permits are taken when nobody enters.                            *)
LEMMA HoldersShrink ==
    ASSUME Holders' \subseteq Holders, Cardinality(Holders) <= MaxConcurrency
    PROVE  Cardinality(Holders)' <= MaxConcurrency
<1>1. Cardinality(Holders') <= Cardinality(Holders) /\ Cardinality(Holders') \in Nat
  BY HoldersFinite, FS_Subset, FS_CardinalityType
<1> QED
  BY <1>1, HoldersFinite

(* One more, when there was a permit left.                                  *)
LEMMA HoldersGrow ==
    ASSUME NEW t, Holders' \subseteq Holders \cup {t}, Cardinality(Holders) < MaxConcurrency
    PROVE  Cardinality(Holders)' <= MaxConcurrency
<1>1. /\ IsFiniteSet(Holders \cup {t})
      /\ Cardinality(Holders \cup {t}) \in {Cardinality(Holders), Cardinality(Holders) + 1}
  BY HoldersFinite, FS_AddElement
<1>2. Cardinality(Holders') <= Cardinality(Holders \cup {t}) /\ Cardinality(Holders') \in Nat
  BY <1>1, FS_Subset, FS_CardinalityType
<1> QED
  BY <1>1, <1>2, HoldersFinite

-----------------------------------------------------------------------------
(* The limiter                                                              *)

(* What popping leaves.                                                     *)
LEMMA RestFields ==
    ASSUME TypeOK, NEW k \in 0 .. Len(stamps), NEW rest,
           rest = SubSeq(stamps, k + 1, Len(stamps))
    PROVE  /\ rest \in Seq(Nat) /\ Len(rest) = Len(stamps) - k
           /\ \A i \in 1 .. Len(rest) : rest[i] = stamps[k + i]
  BY DEF TypeOK

(* Popping is right: what leaves the deque is a window old.                 *)
LEMMA PoppedKeeps ==
    ASSUME TypeOK, LimiterInv, NEW rest, Popped(rest)
    PROVE  LET past == Len(grants) - Len(rest) IN
           /\ rest \in Seq(Nat) /\ Len(rest) <= Len(stamps)
           /\ past >= 0
           /\ \A i \in 1 .. Len(rest) : rest[i] = grants[past + i]
           /\ \A i \in 1 .. past : grants[i] + Window <= now
<1> DEFINE past == Len(grants) - Len(rest)
           old == Len(grants) - Len(stamps)
<1>1. PICK k \in 0 .. Len(stamps) :
        /\ \A i \in 1 .. k : Expired(stamps[i])
        /\ rest = SubSeq(stamps, k + 1, Len(stamps))
  BY DEF Popped
<1>2. /\ rest \in Seq(Nat) /\ Len(rest) = Len(stamps) - k
      /\ \A i \in 1 .. Len(rest) : rest[i] = stamps[k + i]
  BY <1>1, RestFields
<1>3. /\ Len(grants) \in Nat /\ Len(stamps) \in Nat /\ k \in Nat /\ old \in Nat
      /\ now \in Nat /\ past = old + k
      /\ \A i \in 1 .. Len(grants) : grants[i] \in Nat
      /\ \A i \in 1 .. Len(stamps) : stamps[i] = grants[old + i]
      /\ \A i \in 1 .. old : grants[i] + Window <= now
  <2>1. Len(grants) \in Nat /\ Len(stamps) \in Nat /\ now \in Nat
        /\ \A i \in 1 .. Len(grants) : grants[i] \in Nat
    BY DEF TypeOK
  <2>2. /\ old >= 0
        /\ \A i \in 1 .. Len(stamps) : stamps[i] = grants[old + i]
        /\ \A i \in 1 .. old : grants[i] + Window <= now
    BY DEF LimiterInv
  <2>3. old \in Nat /\ k \in Nat
    BY <2>1, <2>2
  <2>4. past = old + k
    BY <1>2, <2>1, <2>3
  <2> QED
    BY <2>1, <2>2, <2>3, <2>4
<1>4. ASSUME NEW i \in 1 .. Len(rest) PROVE rest[i] = grants[past + i]
  <2>1. k + i \in 1 .. Len(stamps) /\ old + (k + i) = past + i
    BY <1>2, <1>3, <1>4
  <2> QED
    BY <1>2, <1>3, <1>4, <2>1
<1>5. ASSUME NEW i \in 1 .. past PROVE grants[i] + Window <= now
  <2>1. CASE i \in 1 .. old
    BY <1>3, <2>1
  <2>2. CASE i \notin 1 .. old
    <3> DEFINE j == i - old
    <3>1. j \in 1 .. k /\ j \in 1 .. Len(stamps) /\ old + j = i
      BY <1>3, <1>5, <2>2
    <3>2. stamps[j] = grants[i] /\ grants[i] \in Nat
      BY <1>2, <1>3, <3>1
    <3> QED
      BY <1>1, <1>3, <3>1, <3>2 DEF Expired
  <2> QED
    BY <2>1, <2>2
<1> QED
  BY <1>2, <1>3, <1>4, <1>5

(* Going to sleep only pops.                                                *)
LEMMA SleepLimits ==
    ASSUME TypeOK, LimiterInv, GrantsAreSpaced, NEW rest, Popped(rest),
           stamps' = rest, UNCHANGED <<grants, now>>
    PROVE  LimiterInv' /\ GrantsAreSpaced' /\ stamps' \in Seq(Nat)
<1>1. /\ rest \in Seq(Nat) /\ Len(rest) <= Len(stamps)
      /\ Len(grants) - Len(rest) >= 0
      /\ \A i \in 1 .. Len(rest) : rest[i] = grants[(Len(grants) - Len(rest)) + i]
      /\ \A i \in 1 .. (Len(grants) - Len(rest)) : grants[i] + Window <= now
  BY PoppedKeeps
<1>2. Len(rest) <= Limit
  BY <1>1 DEF LimiterInv, TypeOK
<1> QED
  BY <1>1, <1>2 DEF LimiterInv, GrantsAreSpaced

(* The invariant of the limiter, put together.                              *)
LEMMA LimiterComposed ==
    ASSUME NEW n \in Nat, NEW m \in Nat, NEW past \in Nat, past + m = n, m <= Limit,
           Len(grants') = n, Len(stamps') = m,
           \A i \in 1 .. m : stamps'[i] = grants'[past + i],
           \A i \in 1 .. past : grants'[i] + Window <= now',
           \A i \in 1 .. n : grants'[i] <= now',
           \A i, j \in 1 .. n : i <= j => grants'[i] <= grants'[j]
    PROVE  LimiterInv'
<1>1. Len(grants') - Len(stamps') = past
  OBVIOUS
<1> QED
  BY <1>1 DEF LimiterInv

(* The same for the sequences.                                              *)
LEMMA GrantSequences ==
    ASSUME NEW rest, now \in Nat, Len(grants) \in Nat, Len(rest) \in Nat,
           Len(rest) <= Len(grants), Len(rest) < Limit,
           \A i \in 1 .. Len(grants) :
             grants[i] \in Nat /\ grants[i] <= now /\ grants'[i] = grants[i],
           grants'[Len(grants) + 1] = now,
           \A i \in 1 .. Len(rest) :
             stamps'[i] = rest[i] /\ rest[i] = grants[(Len(grants) - Len(rest)) + i],
           stamps'[Len(rest) + 1] = now,
           \A i \in 1 .. (Len(grants) - Len(rest)) : grants[i] + Window <= now,
           \A i, j \in 1 .. Len(grants) : i <= j => grants[i] <= grants[j],
           \A i \in 1 .. Len(grants) :
             i + Limit <= Len(grants) => grants[i + Limit] >= grants[i] + Window,
           Len(grants') = Len(grants) + 1, Len(stamps') = Len(rest) + 1, now' = now
    PROVE  LimiterInv' /\ GrantsAreSpaced'
<1>1. PICK n \in Nat, m \in Nat, past \in Nat :
        n = Len(grants) /\ m = Len(rest) /\ past = Len(grants) - Len(rest)
  <2>1. Len(grants) - Len(rest) \in Nat
    OBVIOUS
  <2> QED
    BY <2>1
<1>2. /\ past + m = n /\ m < Limit
      /\ \A i \in 1 .. n : grants[i] \in Nat /\ grants[i] <= now /\ grants'[i] = grants[i]
      /\ grants'[n + 1] = now
      /\ \A i \in 1 .. m : stamps'[i] = rest[i] /\ rest[i] = grants[past + i]
      /\ stamps'[m + 1] = now
      /\ \A i \in 1 .. past : grants[i] + Window <= now
      /\ \A i, j \in 1 .. n : i <= j => grants[i] <= grants[j]
      /\ \A i \in 1 .. n : i + Limit <= n => grants[i + Limit] >= grants[i] + Window
      /\ Len(grants') = n + 1 /\ Len(stamps') = m + 1
  BY <1>1
<1>3. /\ \A i \in 1 .. m + 1 : stamps'[i] = grants'[past + i]
      /\ \A i \in 1 .. past : grants'[i] + Window <= now
      /\ \A i \in 1 .. n + 1 : grants'[i] <= now
      /\ \A i, j \in 1 .. n + 1 : i <= j => grants'[i] <= grants'[j]
      /\ \A i \in 1 .. n + 1 : i + Limit <= n + 1 => grants'[i + Limit] >= grants'[i] + Window
  <2>1. ASSUME NEW i \in 1 .. m + 1 PROVE stamps'[i] = grants'[past + i]
    <3>1. CASE i = m + 1
      <4>1. past + i = n + 1
        BY <1>2, <3>1
      <4> QED
        BY <1>2, <3>1, <4>1
    <3>2. CASE i # m + 1
      <4>1. i \in 1 .. m /\ past + i \in 1 .. n
        BY <1>2, <2>1, <3>2
      <4> QED
        BY <1>2, <4>1
    <3> QED
      BY <1>2, <3>1, <3>2
  <2>2. ASSUME NEW i \in 1 .. past PROVE grants'[i] + Window <= now
    <3>1. i \in 1 .. n
      BY <1>2
    <3>2. grants'[i] = grants[i] /\ grants[i] + Window <= now
      BY <1>2, <3>1
    <3> QED
      BY <3>2
  <2>3. ASSUME NEW i \in 1 .. n + 1 PROVE grants'[i] <= now
    <3>1. i = n + 1 \/ i \in 1 .. n
      BY <1>2
    <3>2. CASE i = n + 1
      BY <1>2, <3>2
    <3>3. CASE i \in 1 .. n
      <4>1. grants'[i] = grants[i] /\ grants[i] <= now
        BY <1>2, <3>3
      <4> QED
        BY <4>1
    <3> QED
      BY <3>1, <3>2, <3>3
  <2>4. ASSUME NEW i \in 1 .. n + 1, NEW j \in 1 .. n + 1, i <= j PROVE grants'[i] <= grants'[j]
    <3>1. j = n + 1 \/ (i \in 1 .. n /\ j \in 1 .. n)
      BY <1>2, <2>4
    <3> QED
      BY <1>2, <2>3, <2>4, <3>1
  <2>5. ASSUME NEW i \in 1 .. n + 1, i + Limit <= n + 1
        PROVE  grants'[i + Limit] >= grants'[i] + Window
    <3>1. i \in 1 .. n /\ (i + Limit \in 1 .. n \/ i + Limit = n + 1)
      BY <1>2, <2>5
    <3>2. CASE i + Limit \in 1 .. n
      <4>1. i + Limit <= n /\ i \in 1 .. n
        BY <3>1, <3>2
      <4>2. grants[i + Limit] >= grants[i] + Window
        BY <1>2, <4>1
      <4>3. grants'[i + Limit] = grants[i + Limit] /\ grants'[i] = grants[i]
        BY <1>2, <3>2, <4>1
      <4> QED
        BY <4>2, <4>3
    <3>3. CASE i + Limit = n + 1
      <4>1. i \in 1 .. past
        BY <1>2, <3>1, <3>3
      <4> QED
        BY <1>2, <2>2, <3>3, <4>1
    <3> QED
      BY <1>2, <3>1, <3>2, <3>3
  <2> QED
    BY <1>2, <2>1, <2>2, <2>3, <2>4, <2>5
<1>4. m + 1 <= Limit /\ m + 1 \in Nat /\ n + 1 \in Nat /\ past + (m + 1) = n + 1
  BY <1>2
<1>5. LimiterInv'
  BY <1>2, <1>3, <1>4, LimiterComposed
<1> QED
  BY <1>2, <1>3, <1>5 DEF GrantsAreSpaced

(* A grant, when fewer than Limit stamps are left, is a window after the    *)
(* Limit-th before it.                                                      *)
LEMMA GrantLimits ==
    ASSUME TypeOK, LimiterInv, GrantsAreSpaced, NEW rest, Popped(rest), Len(rest) < Limit,
           stamps' = Append(rest, now), grants' = Append(grants, now), now' = now
    PROVE  /\ LimiterInv' /\ GrantsAreSpaced'
           /\ stamps' \in Seq(Nat) /\ grants' \in Seq(Nat)
<1> DEFINE n == Len(grants)
           m == Len(rest)
           past == n - m
<1>1. /\ rest \in Seq(Nat) /\ past >= 0
      /\ \A i \in 1 .. m : rest[i] = grants[past + i]
      /\ \A i \in 1 .. past : grants[i] + Window <= now
  BY PoppedKeeps
<1>2. /\ now \in Nat /\ n \in Nat /\ m \in Nat /\ past \in Nat /\ past + m = n
      /\ m < Limit
  BY <1>1 DEF TypeOK
<1>3. /\ Len(grants') = n + 1 /\ grants'[n + 1] = now /\ grants' \in Seq(Nat)
      /\ \A i \in 1 .. n : grants'[i] = grants[i] /\ grants[i] \in Nat
  BY <1>2 DEF TypeOK
<1>4. /\ Len(stamps') = m + 1 /\ stamps'[m + 1] = now /\ stamps' \in Seq(Nat)
      /\ \A i \in 1 .. m : stamps'[i] = rest[i]
  BY <1>1, <1>2
<1>5. Len(grants') - Len(stamps') = past
  BY <1>2, <1>3, <1>4
<1>6. /\ \A i \in 1 .. n : grants[i] <= now
      /\ \A i, j \in 1 .. n : i <= j => grants[i] <= grants[j]
  BY DEF LimiterInv
<1>7. \A i \in 1 .. n : i + Limit <= n => grants[i + Limit] >= grants[i] + Window
  BY DEF GrantsAreSpaced
<1>8. /\ now \in Nat /\ Len(grants) \in Nat /\ Len(rest) \in Nat
      /\ Len(rest) <= Len(grants) /\ Len(rest) < Limit
  BY <1>2
<1>9. \A i \in 1 .. Len(grants) : grants[i] \in Nat /\ grants[i] <= now /\ grants'[i] = grants[i]
  BY <1>3, <1>6
<1>10. \A i \in 1 .. Len(rest) :
         stamps'[i] = rest[i] /\ rest[i] = grants[(Len(grants) - Len(rest)) + i]
  BY <1>1, <1>4
<1>11. LimiterInv' /\ GrantsAreSpaced'
  BY <1>1, <1>3, <1>4, <1>6, <1>7, <1>8, <1>9, <1>10, GrantSequences
<1> QED
  BY <1>3, <1>4, <1>11

(* Steps that leave the limiter alone; time only makes it safer.            *)
LEMMA LimiterStays ==
    ASSUME TypeOK, LimiterInv, GrantsAreSpaced,
           UNCHANGED <<stamps, grants>>, now' = now \/ now' = now + 1
    PROVE  LimiterInv' /\ GrantsAreSpaced'
<1>1. now \in Nat /\ \A i \in 1 .. Len(grants) : grants[i] \in Nat
  BY DEF TypeOK
<1>2. now' \in Nat /\ now' >= now
  BY <1>1
<1>3. \A i \in 1 .. Len(grants) : grants[i] <= now'
  BY <1>1, <1>2 DEF LimiterInv
<1>4. \A i \in 1 .. (Len(grants) - Len(stamps)) : grants[i] + Window <= now'
  <2>1. ASSUME NEW i \in 1 .. (Len(grants) - Len(stamps)) PROVE grants[i] + Window <= now'
    <3>1. i \in 1 .. Len(grants)
      BY DEF TypeOK
    <3> QED
      BY <1>1, <1>2, <2>1, <3>1 DEF LimiterInv
  <2> QED
    BY <2>1
<1> QED
  BY <1>3, <1>4 DEF LimiterInv, GrantsAreSpaced

-----------------------------------------------------------------------------
(* The steps                                                                *)

LEMMA InitHolds == Init => IInv
<1> SUFFICES ASSUME Init PROVE IInv
  OBVIOUS
<1>1. TypeOK
  BY DEF Init, TypeOK, TaskState
<1>2. LimiterInv /\ GrantsAreSpaced
  BY DEF Init, LimiterInv, GrantsAreSpaced
<1>3. PinInv /\ OneAddressPerHost /\ ThreadInv /\ OverIsOver
  BY DEF Init, PinInv, OneAddressPerHost, ThreadInv, OverIsOver, At
<1>4. Holders = {}
  BY DEF Init, Holders, At
<1>5. Cardinality(Holders) <= MaxConcurrency
  BY <1>4, FS_EmptySet
<1> QED
  BY <1>1, <1>2, <1>3, <1>5 DEF IInv

(* Let through or sent to sleep: the limiter keeps its promise, and nothing *)
(* else is touched.                                                         *)
LEMMA TryAcquireStep ==
    ASSUME IInv, NEW t \in Task, Running(t), At(t, "created") \/ At(t, "asleep"),
           At(t, "created") => Cardinality(Holders) < MaxConcurrency, TryAcquire(t)
    PROVE  IInv'
<1> USE DEF IInv
<1>1. UNCHANGED <<now, batch, pins, thread, used>>
  BY DEF TryAcquire
<1>2. PICK rest : Popped(rest) /\ (Admit(t, rest) \/ Sleep(t, rest))
  BY DEF TryAcquire
<1>3. now \in Nat /\ rest \in Seq(Nat)
  BY <1>2, PoppedKeeps DEF TypeOK
<1>4. PICK x \in TaskState :
        x.at \in {"admitted", "failed", "asleep"} /\ task' = [task EXCEPT ![t] = x]
  <2>1. CASE Admit(t, rest)
    <3> DEFINE x == [at |-> IF Authorized THEN "admitted" ELSE "failed", due |-> now + Timeout]
    <3>1. now + Timeout \in Nat
      BY <1>3
    <3>2. x.at \in {"admitted", "failed"} /\ x \in TaskState
      BY <3>1 DEF TaskState
    <3>3. task' = [task EXCEPT ![t] = x]
      BY <2>1 DEF Admit
    <3> QED
      BY <3>2, <3>3
  <2>2. CASE Sleep(t, rest)
    <3>1. rest[1] + Window \in Nat
      BY <1>3, <2>2 DEF Sleep
    <3> QED
      BY <2>2, <3>1 DEF Sleep, TaskState
  <2> QED
    BY <1>2, <2>1, <2>2
<1>5. /\ task' \in [Task -> TaskState] /\ task'[t].at \in {"admitted", "failed", "asleep"}
      /\ \A s \in Task : s # t => task'[s] = task[s]
  BY <1>4, PutFields
<1>6. LimiterInv' /\ GrantsAreSpaced' /\ stamps' \in Seq(Nat) /\ grants' \in Seq(Nat)
  <2>1. CASE Admit(t, rest)
    BY <1>1, <1>2, <2>1, GrantLimits DEF Admit
  <2>2. CASE Sleep(t, rest)
    <3>1. LimiterInv' /\ GrantsAreSpaced' /\ stamps' \in Seq(Nat)
      BY <1>1, <1>2, <2>2, SleepLimits DEF Sleep
    <3> QED
      BY <2>2, <3>1 DEF Sleep, TypeOK
  <2> QED
    BY <1>2, <2>1, <2>2
<1>7. TypeOK'
  BY <1>1, <1>5, <1>6 DEF TypeOK
<1>8. PinInv' /\ OneAddressPerHost'
  BY <1>1, <1>5 DEF PinInv, OneAddressPerHost, At
<1>9. ThreadInv' /\ OverIsOver'
  BY <1>1, <1>5 DEF ThreadInv, OverIsOver, At, Running
<1>10. Cardinality(Holders)' <= MaxConcurrency
  <2>1. CASE At(t, "created")
    <3>1. Holders' \subseteq Holders \cup {t}
      BY <1>5 DEF Holders, At, Ended
    <3> QED
      BY <2>1, <3>1, HoldersGrow
  <2>2. CASE At(t, "asleep")
    <3>1. Holders' \subseteq Holders
      BY <1>5, <2>2 DEF Holders, At, Ended
    <3> QED
      BY <3>1, HoldersShrink
  <2> QED
    BY <2>1, <2>2
<1> QED
  BY <1>6, <1>7, <1>8, <1>9, <1>10

(* A request handed to a thread, with the address its host is pinned to.    *)
LEMMA SubmitStep ==
    ASSUME IInv, NEW t \in Task, NEW address \in Address, Running(t),
           At(t, "admitted") \/ At(t, "resolving"), Submit(t, address),
           pins' \in [Host -> Address \cup {NoAddress}],
           \/ At(t, "admitted") /\ pins' = pins /\ pins[HostOf[t]] = address
           \/ At(t, "resolving") /\ pins' = [pins EXCEPT ![HostOf[t]] = address],
           UNCHANGED <<now, batch, stamps, grants>>
    PROVE  IInv'
<1> USE DEF IInv
<1>1. /\ task' \in [Task -> TaskState] /\ task'[t].at \in {"sending", "failed"}
      /\ \A s \in Task : s # t => task'[s] = task[s]
  BY MoveFields DEF Submit, Location
<1>2. /\ thread' \in [Task -> {"none", "queued", "open", "closed"}]
      /\ used' \in [Task -> Address \cup {NoAddress}]
      /\ \A s \in Task : s # t => thread'[s] = thread[s] /\ used'[s] = used[s]
      /\ \/ used'[t] = address /\ thread'[t] = "queued" /\ task'[t].at = "sending"
         \/ used'[t] = used[t] /\ thread'[t] = thread[t]
  BY MoveFields DEF Submit, TypeOK, Location
<1>3. TypeOK'
  BY <1>1, <1>2 DEF TypeOK
<1>4. LimiterInv' /\ GrantsAreSpaced'
  BY LimiterStays
<1>5. /\ pins'[HostOf[t]] = address
      /\ \A s \in Task : used[s] # NoAddress => used[s] = pins'[HostOf[s]]
      /\ \A s \in Task : s # t /\ At(s, "resolving") => pins'[HostOf[s]] = NoAddress
  <2>1. HostOf[t] \in Host /\ \A s \in Task : HostOf[s] \in Host
    OBVIOUS
  <2>2. CASE At(t, "admitted")
    BY <2>2 DEF At, PinInv, OneAddressPerHost
  <2>3. CASE At(t, "resolving")
    BY <2>1, <2>3 DEF At, PinInv, OneAddressPerHost, TypeOK
  <2> QED
    BY <2>2, <2>3
<1>6. PinInv'
  BY <1>1, <1>5 DEF PinInv, At
<1>7. OneAddressPerHost'
  BY <1>2, <1>5 DEF OneAddressPerHost
<1>8. ThreadInv'
  BY <1>1, <1>2 DEF ThreadInv, At
<1>9. OverIsOver'
  BY DEF OverIsOver, Running
<1>10. Holders' \subseteq Holders
  BY <1>1 DEF Holders, At, Ended
<1> QED
  BY <1>3, <1>4, <1>6, <1>7, <1>8, <1>9, <1>10, HoldersShrink

(* The pin is looked up by one coroutine at a time.                         *)
LEMMA ResolveStep == ASSUME IInv, NEW t \in Task, Resolve(t) PROVE IInv'
<1> USE DEF IInv
<1>1. UNCHANGED <<now, batch, stamps, pins, thread, grants, used>>
  BY DEF Resolve
<1>2. /\ task' \in [Task -> TaskState] /\ task'[t].at = "resolving"
      /\ \A s \in Task : s # t => task'[s] = task[s]
  BY MoveFields DEF Resolve, Location
<1>3. TypeOK'
  BY <1>1, <1>2 DEF TypeOK
<1>4. LimiterInv' /\ GrantsAreSpaced'
  BY <1>1, LimiterStays
<1>5. PinInv' /\ OneAddressPerHost'
  BY <1>1, <1>2 DEF PinInv, OneAddressPerHost, At, Resolve, DnsLocked
<1>6. ThreadInv' /\ OverIsOver'
  BY <1>1, <1>2 DEF ThreadInv, OverIsOver, At, Resolve, Running
<1>7. Holders' \subseteq Holders
  BY <1>2 DEF Holders, At, Ended, Resolve
<1> QED
  BY <1>3, <1>4, <1>5, <1>6, <1>7, HoldersShrink

(* A coroutine that ends; its queued job, if it has one, is dropped.        *)
LEMMA EndStep ==
    ASSUME IInv, NEW t \in Task, NEW l \in {"done", "failed"}, Running(t),
           ~At(t, "created"), Move(t, l),
           \/ thread' = thread /\ thread[t] # "queued" /\ (l = "done" => thread[t] # "open")
           \/ thread' = Dropped({t}) /\ l = "failed",
           UNCHANGED <<now, batch, stamps, pins, grants, used>>
    PROVE  IInv'
<1> USE DEF IInv
<1>1. /\ task' \in [Task -> TaskState] /\ task'[t].at = l
      /\ \A s \in Task : s # t => task'[s] = task[s]
  BY MoveFields DEF Location
<1>2. /\ thread' \in [Task -> {"none", "queued", "open", "closed"}]
      /\ \A s \in Task : s # t => thread'[s] = thread[s]
      /\ thread'[t] # "queued" /\ (thread'[t] = "open" => l = "failed")
  BY DEF TypeOK, Dropped
<1>3. TypeOK'
  BY <1>1, <1>2 DEF TypeOK
<1>4. LimiterInv' /\ GrantsAreSpaced'
  BY LimiterStays
<1>5. PinInv' /\ OneAddressPerHost'
  BY <1>1 DEF PinInv, OneAddressPerHost, At
<1>6. ThreadInv'
  BY <1>1, <1>2 DEF ThreadInv, At
<1>7. OverIsOver'
  BY DEF OverIsOver, Running
<1>8. Holders' \subseteq Holders
  BY <1>1 DEF Holders, At, Ended
<1> QED
  BY <1>3, <1>4, <1>5, <1>6, <1>7, <1>8, HoldersShrink

(* A thread opens or closes its connection.                                 *)
LEMMA ConnectionStep ==
    ASSUME IInv, NEW t \in Task, OpenConnection(t) \/ CloseConnection(t) PROVE IInv'
<1> USE DEF IInv
<1>1. UNCHANGED <<now, batch, task, stamps, pins, grants, used>>
  BY DEF OpenConnection, CloseConnection
<1>2. /\ thread' \in [Task -> {"none", "queued", "open", "closed"}]
      /\ \A s \in Task : s # t => thread'[s] = thread[s]
      /\ (thread[t] = "queued" /\ thread'[t] = "open") \/ thread'[t] = "closed"
  BY DEF OpenConnection, CloseConnection, Live, TypeOK
<1>3. TypeOK'
  BY <1>1, <1>2 DEF TypeOK
<1>4. LimiterInv' /\ GrantsAreSpaced'
  BY <1>1, LimiterStays
<1>5. PinInv' /\ OneAddressPerHost'
  BY <1>1 DEF PinInv, OneAddressPerHost, At
<1>6. ThreadInv'
  BY <1>1, <1>2 DEF ThreadInv, At
<1>7. OverIsOver'
  BY <1>1, <1>2 DEF OverIsOver, Ended
<1>8. Holders' \subseteq Holders
  BY <1>1 DEF Holders, At, Ended
<1> QED
  BY <1>3, <1>4, <1>5, <1>6, <1>7, <1>8, HoldersShrink

(* Every coroutine ends, and no job stays in the pool.                      *)
LEMMA CancelStep == ASSUME IInv, CancelAll PROVE IInv'
<1> USE DEF IInv
<1>1. batch' = "raised" /\ UNCHANGED <<now, stamps, pins, grants, used>>
  BY DEF CancelAll
<1>2. /\ task' \in [Task -> TaskState]
      /\ \A s \in Task : task'[s].at = IF Ended(s) THEN task[s].at ELSE "cancelled"
  BY DEF CancelAll, TypeOK, TaskState
<1>3. /\ thread' \in [Task -> {"none", "queued", "open", "closed"}]
      /\ \A s \in Task : thread'[s] = IF thread[s] = "queued" THEN "none" ELSE thread[s]
  BY DEF CancelAll, Dropped, TypeOK
<1>4. TypeOK'
  BY <1>1, <1>2, <1>3 DEF TypeOK
<1>5. LimiterInv' /\ GrantsAreSpaced'
  BY <1>1, LimiterStays
<1>6. PinInv' /\ OneAddressPerHost'
  BY <1>1, <1>2 DEF PinInv, OneAddressPerHost, At, Ended
<1>7. ThreadInv'
  BY <1>2, <1>3 DEF ThreadInv, At, Ended
<1>8. OverIsOver'
  BY <1>2, <1>3 DEF OverIsOver, Ended
<1>9. Holders' \subseteq Holders
  BY <1>2 DEF Holders, At, Ended
<1> QED
  BY <1>4, <1>5, <1>6, <1>7, <1>8, <1>9, HoldersShrink

LEMMA FinishStep == ASSUME IInv, Finish PROVE IInv'
<1> USE DEF IInv
<1>1. batch' = "finished" /\ UNCHANGED <<now, task, stamps, pins, thread, grants, used>>
  BY DEF Finish
<1>2. TypeOK'
  BY <1>1 DEF TypeOK
<1>3. LimiterInv' /\ GrantsAreSpaced'
  BY <1>1, LimiterStays
<1>4. PinInv' /\ OneAddressPerHost' /\ ThreadInv'
  BY <1>1 DEF PinInv, OneAddressPerHost, ThreadInv, At
<1>5. OverIsOver'
  BY <1>1 DEF OverIsOver, Ended, Finish, ThreadInv, At
<1>6. Holders' \subseteq Holders
  BY <1>1 DEF Holders, At, Ended
<1> QED
  BY <1>2, <1>3, <1>4, <1>5, <1>6, HoldersShrink

LEMMA TickStep ==
    ASSUME IInv, now' = now \/ now' = now + 1,
           UNCHANGED <<batch, task, stamps, pins, thread, grants, used>>
    PROVE  IInv'
<1> USE DEF IInv
<1>1. TypeOK'
  BY DEF TypeOK
<1>2. LimiterInv' /\ GrantsAreSpaced'
  BY LimiterStays
<1>3. PinInv' /\ OneAddressPerHost' /\ ThreadInv' /\ OverIsOver'
  BY DEF PinInv, OneAddressPerHost, ThreadInv, OverIsOver, At, Ended
<1>4. Holders' \subseteq Holders
  BY DEF Holders, At, Ended
<1> QED
  BY <1>1, <1>2, <1>3, <1>4, HoldersShrink

-----------------------------------------------------------------------------
LEMMA ObserveStep == ASSUME IInv, NEW t \in Task, Observe(t) PROVE IInv'
<1>1. CASE Enter(t)
  BY <1>1, TryAcquireStep DEF Enter
<1>2. CASE Wake(t)
  BY <1>2, TryAcquireStep DEF Wake, At
<1>3. CASE UsePin(t)
  <2>1. pins[HostOf[t]] \in Address /\ pins' \in [Host -> Address \cup {NoAddress}]
    BY <1>3 DEF UsePin, IInv, TypeOK
  <2> QED
    BY <1>3, <2>1, SubmitStep DEF UsePin
<1>4. CASE Resolve(t)
  BY <1>4, ResolveStep
<1>5. CASE TimeOut(t)
  BY <1>5, EndStep DEF TimeOut, At
<1>6. CASE Receive(t)
  <2>1. PICK l \in {"done", "failed"} : Move(t, l)
    BY <1>6 DEF Receive
  <2> QED
    BY <1>6, <2>1, EndStep DEF Receive, At
<1> QED
  BY <1>1, <1>2, <1>3, <1>4, <1>5, <1>6 DEF Observe

LEMMA NetworkStep == ASSUME IInv, NEW t \in Task, Network(t) PROVE IInv'
<1>1. CASE Pin(t)
  <2>1. PICK address \in Address :
          pins' = [pins EXCEPT ![HostOf[t]] = address] /\ Submit(t, address)
    BY <1>1 DEF Pin
  <2>2. pins' \in [Host -> Address \cup {NoAddress}]
    BY <2>1 DEF IInv, TypeOK
  <2> QED
    BY <1>1, <2>1, <2>2, SubmitStep DEF Pin
<1>2. CASE ResolveFails(t)
  <2>1. thread[t] # "queued" /\ ~At(t, "created")
    BY <1>2 DEF ResolveFails, IInv, ThreadInv, At
  <2> QED
    BY <1>2, <2>1, EndStep DEF ResolveFails
<1>3. CASE OpenConnection(t) \/ CloseConnection(t)
  BY <1>3, ConnectionStep
<1> QED
  BY <1>1, <1>2, <1>3 DEF Network

LEMMA Inductive == IInv /\ [Next]_vars => IInv'
<1> SUFFICES ASSUME IInv, [Next]_vars PROVE IInv'
  OBVIOUS
<1>1. CASE \E t \in Task : Observe(t) \/ Network(t)
  BY <1>1, ObserveStep, NetworkStep
<1>2. CASE Abort \/ Interrupt
  BY <1>2, CancelStep DEF Abort, Interrupt
<1>3. CASE Finish
  BY <1>3, FinishStep
<1>4. CASE Tick \/ UNCHANGED vars
  BY <1>4, TickStep DEF Tick, vars
<1> QED
  BY <1>1, <1>2, <1>3, <1>4 DEF Next

-----------------------------------------------------------------------------
(* The theorems                                                             *)

(* The inductive invariant of an assessment.                                *)
THEOREM Invariance == Spec => []IInv
<1>1. Init => IInv
  BY InitHolds
<1>2. IInv /\ [Next]_vars => IInv'
  BY Inductive
<1> QED
  BY <1>1, <1>2, PTL DEF Spec

(* Every variable keeps its type.                                           *)
THEOREM TypeCorrect == Spec => []TypeOK
<1>1. IInv => TypeOK
  BY DEF IInv
<1> QED
  BY <1>1, Invariance, PTL

(* SlidingWindowRateLimiter is strict for any limit, window and batch: no   *)
(* window holds more than Limit grants.                                     *)
THEOREM LimiterIsStrict == Spec => []GrantsAreSpaced
<1>1. IInv => GrantsAreSpaced
  BY DEF IInv
<1> QED
  BY <1>1, Invariance, PTL

(* _resolve_once: one address for each host, whatever the resolver answers. *)
THEOREM PinsHold == Spec => []OneAddressPerHost
<1>1. IInv => OneAddressPerHost
  BY DEF IInv
<1> QED
  BY <1>1, Invariance, PTL

(* assess: when it has returned or raised nothing is left that could begin. *)
THEOREM NothingBeginsAfter == Spec => []OverIsOver
<1>1. IInv => OverIsOver
  BY DEF IInv
<1> QED
  BY <1>1, Invariance, PTL

(* While nothing has failed every connection belongs to a coroutine inside  *)
(* the semaphore.                                                           *)
THEOREM PermitsBoundConnections == Spec => []ConnectionsFollowPermits
<1>1. IInv => ConnectionsFollowPermits
  <2> SUFFICES ASSUME IInv, \A t \in Task : task[t].at \notin {"failed", "cancelled"}
               PROVE  Cardinality(Connections) <= MaxConcurrency
    BY DEF ConnectionsFollowPermits
  <2>1. Connections \subseteq Holders
    BY DEF Connections, Live, Holders, IInv, ThreadInv, At, Ended
  <2>2. Cardinality(Connections) <= Cardinality(Holders) /\ Cardinality(Connections) \in Nat
    BY <2>1, HoldersFinite, FS_Subset, FS_CardinalityType
  <2> QED
    BY <2>2, HoldersFinite DEF IInv
<1> QED
  BY <1>1, Invariance, PTL
=============================================================================
