------------------------- MODULE DiagnosticRunProofs -------------------------
(***************************************************************************)
(* Theorems about TerminalWait and about DiagnosticRun, which extends it:  *)
(* for every set of executions, every finite set of waits and every budget *)
(* of scripts.                                                             *)
(***************************************************************************)
EXTENDS DiagnosticRun, FiniteSetTheorems, TLAPS

-----------------------------------------------------------------------------
(* Waiters: the inductive invariant.                                       *)

\* Whoever registered has an execution and a TerminalWaiter, that of its entry.
Early == {"idle", "start", "register"}
Placed ==
  \A w \in Waiters :
    /\ step[w] \in Registered \cup {"start", "register", "done"} => target[w] \in Executions
    /\ step[w] \in Registered => object[w] \in Waiters /\ entry[target[w]] = object[w]

\* One execution per TerminalWaiter, although its creator may be gone.
SameTarget ==
  \A v, w \in Waiters :
    step[v] \in Registered /\ step[w] \in Registered /\ object[v] = object[w]
      => target[v] = target[w]
Created ==
  \A w \in Waiters : step[w] \in Registered => step[object[w]] \notin Early

\* The entry of an execution is held by somebody who waits for that execution.
EntryHeld ==
  \A e \in Executions : entry[e] # None =>
    \E w \in Waiters : step[w] \in Registered /\ target[w] = e /\ object[w] = entry[e]

Counted == \A o \in Waiters : refCount[o] = Cardinality(RegisteredAt(o))

\* Nothing is notified that is not finished, and what is found is a TerminalWaiter.
Notified ==
  \A e \in Executions :
    /\ notifier[e] = "none" <=> e \notin finished
    /\ notifier[e] = "found" => found[e] \in Waiters

\* "terminal" is never said of an execution that is not.
AnswersTrue ==
  \A w \in Waiters :
    /\ answer[w] = "terminal" => target[w] \in finished
    /\ step[w] = "idle" => answer[w] = "none"

EntryInv == Placed /\ SameTarget /\ Created /\ EntryHeld /\ Counted
WakeInv == Notified /\ AnswersTrue /\ NoLostWakeup
WaitInv == WaitTypeOK /\ EntryInv /\ WakeInv

-----------------------------------------------------------------------------
(* Counting.                                                               *)

LEMMA RegisteredFinite ==
  ASSUME NEW o
  PROVE  IsFiniteSet(RegisteredAt(o)) /\ Cardinality(RegisteredAt(o)) \in Nat
<1>1. RegisteredAt(o) \in SUBSET Waiters
  BY DEF RegisteredAt
<1>2. QED
  BY <1>1, WaitAssumption, FS_Subset, FS_CardinalityType

\* The steps that neither register nor leave.
LEMMA CountKept ==
  ASSUME Counted, refCount' = refCount, object' = object,
         \A w \in Waiters : step'[w] \in Registered <=> step[w] \in Registered
  PROVE  Counted'
<1>1. \A o \in Waiters : RegisteredAt(o)' = RegisteredAt(o)
  BY DEF RegisteredAt
<1>2. QED
  BY <1>1 DEF Counted

LEMMA CountRegister ==
  ASSUME WaitTypeOK, Counted, NEW w \in Waiters, Register(w)
  PROVE  Counted'
<1> DEFINE o == IF entry[target[w]] = None THEN w ELSE entry[target[w]]
<1>1. /\ step[w] = "register" /\ step' = [step EXCEPT ![w] = "enter"]
      /\ object' = [object EXCEPT ![w] = o]
      /\ refCount' = [refCount EXCEPT ![o] = @ + 1]
  BY DEF Register, Goto
<1>2. \A p \in Waiters : RegisteredAt(p)' = IF p = o THEN RegisteredAt(p) \cup {w} ELSE RegisteredAt(p)
  BY <1>1 DEF RegisteredAt, WaitTypeOK, Registered
<1>3. \A p \in Waiters : w \notin RegisteredAt(p)
  BY <1>1 DEF RegisteredAt, Registered
<1>4. \A p \in Waiters : Cardinality(RegisteredAt(p) \cup {w}) = Cardinality(RegisteredAt(p)) + 1
  BY <1>3, RegisteredFinite, FS_AddElement
<1>5. \A p \in Waiters : refCount'[p] = IF p = o THEN refCount[p] + 1 ELSE refCount[p]
  BY <1>1 DEF WaitTypeOK
<1>6. QED
  BY <1>2, <1>4, <1>5 DEF Counted

LEMMA CountLeave ==
  ASSUME WaitTypeOK, Counted, Placed, NEW w \in Waiters, Leave(w)
  PROVE  Counted'
<1> DEFINE o == object[w]
<1>1. /\ step[w] = "leave" /\ step' = [step EXCEPT ![w] = "done"]
      /\ object' = [object EXCEPT ![w] = None]
      /\ refCount' = [refCount EXCEPT ![o] = @ - 1]
  BY DEF Leave, Goto, Decrement
<1>2. o \in Waiters /\ w \in RegisteredAt(o)
  BY <1>1 DEF Placed, Registered, RegisteredAt
<1>3. \A p \in Waiters : RegisteredAt(p)' = IF p = o THEN RegisteredAt(p) \ {w} ELSE RegisteredAt(p)
  BY <1>1 DEF RegisteredAt, WaitTypeOK, Registered
<1>4. Cardinality(RegisteredAt(o) \ {w}) = Cardinality(RegisteredAt(o)) - 1
  BY <1>2, RegisteredFinite, FS_RemoveElement
<1>5. \A p \in Waiters : refCount'[p] = IF p = o THEN refCount[p] - 1 ELSE refCount[p]
  BY <1>1 DEF WaitTypeOK
<1>6. QED
  BY <1>2, <1>3, <1>4, <1>5 DEF Counted

\* Whoever leaves last is alone; otherwise somebody else is still there.
LEMMA LastIsAlone ==
  ASSUME Counted, NEW w \in Waiters, object[w] \in Waiters, step[w] \in Registered
  PROVE  /\ refCount[object[w]] \in Nat \ {0}
         /\ IsLastReference(w) <=>
              ~\E v \in Waiters \ {w} : step[v] \in Registered /\ object[v] = object[w]
<1> DEFINE S == RegisteredAt(object[w])
<1>1. w \in S /\ IsFiniteSet(S) /\ Cardinality(S) \in Nat
  BY RegisteredFinite DEF RegisteredAt
<1>2. IsFiniteSet(S \ {w}) /\ Cardinality(S \ {w}) = Cardinality(S) - 1 /\ Cardinality(S \ {w}) \in Nat
  BY <1>1, FS_RemoveElement, FS_CardinalityType
<1>3. Cardinality(S \ {w}) = 0 <=> S \ {w} = {}
  BY <1>2, FS_EmptySet
<1>4. S \ {w} = {v \in Waiters \ {w} : step[v] \in Registered /\ object[v] = object[w]}
  BY DEF RegisteredAt
<1>5. QED
  BY <1>1, <1>2, <1>3, <1>4 DEF Counted, IsLastReference

-----------------------------------------------------------------------------
(* Types and entries.                                                      *)

LEMMA NextTypeOK ==
  ASSUME WaitTypeOK, Placed, Counted, [WaitNext]_waitVars
  PROVE  WaitTypeOK'
<1> USE WaitAssumption
    DEF WaitTypeOK, NotifierStates, Steps, Registered, Answers, Goto,
        notifiers, conditions, waits, waitVars
<1>1. ASSUME NEW e \in Executions, Finish(e) \/ Notification(e) \/ FailToNotify(e)
      PROVE  WaitTypeOK'
  BY <1>1 DEF Finish, Notification, Lookup, NotifyAll, FailToNotify, Woken
<1>2. ASSUME NEW w \in Waiters, ReadFirst(w) \/ Register(w)
      PROVE  WaitTypeOK'
  <2>1. CASE ReadFirst(w)
    BY <2>1 DEF ReadFirst, Answer, Seen
  <2>2. CASE Register(w)
    <3>1. target[w] \in Executions
      BY <2>2 DEF Register, Placed
    <3>2. PICK o \in Waiters :
            /\ entry' = [entry EXCEPT ![target[w]] = o]
            /\ object' = [object EXCEPT ![w] = o]
            /\ refCount' = [refCount EXCEPT ![o] = @ + 1]
      BY <2>2, <3>1 DEF Register
    <3>3. refCount' \in [Waiters -> Nat]
      BY <3>2
    <3>4. QED
      BY <2>2, <3>1, <3>2, <3>3 DEF Register
  <2>3. QED
    BY <1>2, <2>1, <2>2
<1>3. ASSUME NEW w \in Waiters, Enter(w) \/ Recheck(w) \/ EnterExpired(w) \/ Resume(w)
      PROVE  WaitTypeOK'
  BY <1>3 DEF Enter, Acquire, Recheck, Release, Answer, EnterExpired, Resume
<1>4. ASSUME NEW w \in Waiters, ReadExpired(w) \/ ReadLast(w)
      PROVE  WaitTypeOK'
  BY <1>4 DEF ReadExpired, ReadLast, Release, Answer, Seen
<1>5. ASSUME NEW w \in Waiters, Leave(w)
      PROVE  WaitTypeOK'
  <2>1. object[w] \in Waiters /\ refCount[object[w]] \in Nat \ {0}
    BY <1>5, LastIsAlone DEF Leave, Placed
  <2>2. refCount' \in [Waiters -> Nat]
    <3>1. refCount[object[w]] - 1 \in Nat
      BY <2>1
    <3>2. refCount' = [refCount EXCEPT ![object[w]] = @ - 1]
      BY <1>5 DEF Leave, Decrement
    <3>3. QED
      BY <2>1, <3>1, <3>2
  <2>3. QED
    BY <1>5, <2>2 DEF Leave
<1>6. ASSUME NEW w \in Waiters, Expire(w) \/ FailRead(w) \/ Respond(w)
      PROVE  WaitTypeOK'
  BY <1>6 DEF Expire, FailRead, Respond, Answer, Release
<1>7. ASSUME NEW w \in Waiters, NEW e \in Executions, Begin(w, e)
      PROVE  WaitTypeOK'
  BY <1>7 DEF Begin
<1>8. CASE UNCHANGED waitVars
  BY <1>8
<1>9. QED
  BY <1>1, <1>2, <1>3, <1>4, <1>5, <1>6, <1>7, <1>8 DEF WaitNext, WaitStep

\* The steps in which nobody registers or leaves.
LEMMA QuietKeepsEntries ==
  ASSUME EntryInv, entry' = entry, refCount' = refCount, object' = object,
         \A w \in Waiters : step'[w] \in Registered <=> step[w] \in Registered,
         \A w \in Waiters : step[w] \in Registered => target'[w] = target[w],
         \A w \in Waiters : step'[w] \in {"start", "register", "done"} => target'[w] \in Executions,
         \A w \in Waiters : step'[w] \in Early => step[w] \in Early
  PROVE  EntryInv'
<1>1. Counted'
  BY CountKept DEF EntryInv
<1>2. Placed' /\ SameTarget' /\ EntryHeld'
  BY DEF EntryInv, Placed, SameTarget, EntryHeld
<1>3. Created'
  BY DEF EntryInv, Created, Placed
<1>4. QED
  BY <1>1, <1>2, <1>3 DEF EntryInv

LEMMA RegisterKeepsEntries ==
  ASSUME WaitTypeOK, EntryInv, NEW w \in Waiters, Register(w)
  PROVE  EntryInv'
<1> DEFINE o == IF entry[target[w]] = None THEN w ELSE entry[target[w]]
<1>1. /\ step[w] = "register" /\ step' = [step EXCEPT ![w] = "enter"]
      /\ entry' = [entry EXCEPT ![target[w]] = o]
      /\ object' = [object EXCEPT ![w] = o]
      /\ target' = target
  BY DEF Register, Goto
<1>2. target[w] \in Executions /\ o \in Waiters /\ o # None
  BY <1>1, WaitAssumption DEF EntryInv, Placed, WaitTypeOK
<1>3. Counted'
  BY CountRegister DEF EntryInv
<1>4. \A v \in Waiters \ {w} : step[v] \in Registered /\ object[v] = o => target[v] = target[w]
  <2>1. CASE entry[target[w]] = None
    BY <1>1, <2>1 DEF EntryInv, Created, Early
  <2>2. CASE entry[target[w]] # None
    BY <1>2, <2>2 DEF EntryInv, EntryHeld, SameTarget
  <2>3. QED
    BY <2>1, <2>2
<1>5. Placed' /\ SameTarget'
  <2>1. /\ \A v \in Waiters \ {w} : step'[v] = step[v] /\ object'[v] = object[v]
        /\ step'[w] = "enter" /\ object'[w] = o /\ entry'[target[w]] = o
    BY <1>1, <1>2 DEF WaitTypeOK
  <2>2. \A v \in Waiters \ {w} : step[v] \in Registered => entry'[target[v]] = object[v]
    BY <1>1, <1>2, WaitAssumption DEF EntryInv, Placed, WaitTypeOK
  <2>3. Placed'
    <3>1. \A v \in Waiters \ {w} :
            /\ step'[v] \in Registered \cup {"start", "register", "done"} => target'[v] \in Executions
            /\ step'[v] \in Registered => object'[v] \in Waiters /\ entry'[target'[v]] = object'[v]
      BY <1>1, <2>1, <2>2 DEF EntryInv, Placed
    <3>2. target'[w] \in Executions /\ object'[w] \in Waiters /\ entry'[target'[w]] = object'[w]
      BY <1>1, <1>2, <2>1
    <3>3. QED
      BY <3>1, <3>2 DEF Placed
  <2>4. SameTarget'
    BY <1>1, <1>4, <2>1 DEF EntryInv, SameTarget
  <2>5. QED
    BY <2>3, <2>4
<1>6. EntryHeld'
  BY <1>1, <1>2 DEF EntryInv, EntryHeld, WaitTypeOK, Registered
<1>7. Created'
  <2>1. step'[o] \notin Early
    BY <1>1, <1>2 DEF EntryInv, EntryHeld, Created, WaitTypeOK, Early
  <2>2. QED
    BY <1>1, <2>1 DEF EntryInv, Created, Placed, WaitTypeOK, Registered, Early
<1>8. QED
  BY <1>3, <1>5, <1>6, <1>7 DEF EntryInv

LEMMA LeaveKeepsEntries ==
  ASSUME WaitTypeOK, EntryInv, NEW w \in Waiters, Leave(w)
  PROVE  EntryInv'
<1>1. /\ step[w] = "leave" /\ step' = [step EXCEPT ![w] = "done"]
      /\ object' = [object EXCEPT ![w] = None]
      /\ target' = target
      /\ entry' = IF IsLastReference(w) /\ entry[target[w]] = object[w]
                    THEN [entry EXCEPT ![target[w]] = None] ELSE entry
  BY DEF Leave, Goto
<1>2. /\ target[w] \in Executions /\ object[w] \in Waiters
      /\ entry[target[w]] = object[w] /\ step[w] \in Registered
  BY <1>1 DEF EntryInv, Placed, Registered
<1>3. Counted'
  BY CountLeave DEF EntryInv
<1>4. \A v \in Waiters : step'[v] \in Registered <=> v # w /\ step[v] \in Registered
  BY <1>1 DEF WaitTypeOK, Registered
<1>5. \A v \in Waiters : v # w => step'[v] = step[v] /\ object'[v] = object[v]
  BY <1>1 DEF WaitTypeOK
<1>6. IsLastReference(w) <=>
        ~\E v \in Waiters \ {w} : step[v] \in Registered /\ object[v] = object[w]
  BY <1>2, LastIsAlone DEF EntryInv
<1>7. \A v \in Waiters \ {w} :
        step[v] \in Registered /\ object[v] = object[w] => target[v] = target[w]
  BY <1>2 DEF EntryInv, SameTarget
<1>8. Placed'
  <2>1. \A v \in Waiters \ {w} : step[v] \in Registered => entry'[target[v]] = object[v]
    BY <1>1, <1>2, <1>6, <1>7 DEF EntryInv, Placed, WaitTypeOK
  <2>2. QED
    BY <1>1, <1>2, <1>4, <1>5, <2>1 DEF EntryInv, Placed, Registered
<1>9. EntryHeld'
  BY <1>1, <1>2, <1>4, <1>5, <1>6, <1>7 DEF EntryInv, EntryHeld, WaitTypeOK
<1>10. SameTarget' /\ Created'
  BY <1>1, <1>4, <1>5 DEF EntryInv, SameTarget, Created, Placed, Early, WaitTypeOK
<1>11. QED
  BY <1>3, <1>8, <1>9, <1>10 DEF EntryInv

LEMMA NextKeepsEntries ==
  ASSUME WaitTypeOK, EntryInv, [WaitNext]_waitVars
  PROVE  EntryInv'
<1> USE DEF Registered, Early, Goto, notifiers, conditions, waits, waitVars
<1>1. ASSUME NEW e \in Executions, Finish(e) \/ Notification(e) \/ FailToNotify(e)
      PROVE  EntryInv'
  <2>1. /\ entry' = entry /\ refCount' = refCount /\ object' = object /\ target' = target
        /\ \A w \in Waiters : step'[w] = step[w] \/ (step[w] = "parked" /\ step'[w] = "woken")
    <3>1. CASE Finish(e) \/ Lookup(e) \/ FailToNotify(e)
      BY <3>1 DEF Finish, Lookup, FailToNotify
    <3>2. CASE NotifyAll(e)
      BY <3>2 DEF NotifyAll, Woken
    <3>3. QED
      BY <1>1, <3>1, <3>2 DEF Notification
  <2>2. QED
    BY <2>1, QuietKeepsEntries DEF EntryInv, Placed
<1>2. ASSUME NEW w \in Waiters,
             \/ ReadFirst(w) \/ Enter(w) \/ Recheck(w) \/ EnterExpired(w) \/ ReadExpired(w)
             \/ Resume(w) \/ ReadLast(w) \/ Expire(w) \/ FailRead(w)
      PROVE  EntryInv'
  <2>1. /\ entry' = entry /\ refCount' = refCount /\ object' = object /\ target' = target
        /\ \E next \in Steps :
             /\ step' = [step EXCEPT ![w] = next]
             /\ \/ step[w] = "start" /\ next \in {"register", "done"}
                \/ step[w] \in Registered /\ next \in Registered
    BY <1>2 DEF ReadFirst, Enter, Recheck, EnterExpired, ReadExpired, Resume, ReadLast, Expire,
       FailRead, Answer, Acquire, Release, Holding, Steps
  <2>2. QED
    BY <2>1, QuietKeepsEntries DEF EntryInv, Placed, WaitTypeOK
<1>3. ASSUME NEW w \in Waiters, NEW e \in Executions, Begin(w, e)
      PROVE  EntryInv'
  BY <1>3, QuietKeepsEntries DEF Begin, EntryInv, Placed, WaitTypeOK
<1>4. ASSUME NEW w \in Waiters, Respond(w)
      PROVE  EntryInv'
  BY <1>4, QuietKeepsEntries DEF Respond, EntryInv, Placed, WaitTypeOK
<1>5. CASE UNCHANGED waitVars
  BY <1>5, QuietKeepsEntries DEF EntryInv, Placed
<1>6. QED
  BY <1>1, <1>2, <1>3, <1>4, <1>5, RegisterKeepsEntries, LeaveKeepsEntries
     DEF WaitNext, WaitStep

-----------------------------------------------------------------------------
(* Wake-ups.                                                               *)

\* What NoLostWakeup adds to the entries.
Awaited(w) ==
  \/ notifier[target[w]] \in {"committed", "failed"}
  \/ notifier[target[w]] = "found" /\ found[target[w]] = object[w]
SleepersAwaited == \A w \in Waiters : step[w] = "parked" /\ target[w] \in finished => Awaited(w)

\* The steps of a waiter put nobody to sleep on a finished execution.
LEMMA WaiterKeepsWake ==
  ASSUME WaitTypeOK, WakeInv, NEW w \in Waiters, UNCHANGED notifiers,
         \A v \in Waiters \ {w} : /\ step'[v] = step[v] /\ target'[v] = target[v]
                                 /\ object'[v] = object[v] /\ answer'[v] = answer[v],
         step'[w] # "idle", step'[w] = "parked" => target'[w] \notin finished,
         answer'[w] = "terminal" => target'[w] \in finished
  PROVE  Notified' /\ AnswersTrue' /\ SleepersAwaited'
<1>1. Notified' /\ AnswersTrue'
  BY DEF WakeInv, Notified, AnswersTrue, notifiers
<1>2. SleepersAwaited'
  BY DEF WakeInv, NoLostWakeup, SleepersAwaited, Awaited, notifiers
<1>3. QED
  BY <1>1, <1>2

LEMMA NotifierKeepsWake ==
  ASSUME WaitTypeOK, Placed, WakeInv, NEW e \in Executions,
         Finish(e) \/ Notification(e) \/ FailToNotify(e)
  PROVE  Notified' /\ AnswersTrue' /\ SleepersAwaited'
<1> USE DEF WaitTypeOK, WakeInv, conditions, waits
<1>1. CASE Finish(e)
  BY <1>1 DEF Finish, Notified, AnswersTrue, SleepersAwaited, Awaited, NoLostWakeup
<1>2. CASE Lookup(e)
  <2>1. Notified' /\ AnswersTrue'
    BY <1>2, WaitAssumption DEF Lookup, Notified, AnswersTrue
  <2>2. \A w \in Waiters : step[w] = "parked" /\ target[w] = e => entry[e] = object[w] /\ entry[e] # None
    BY WaitAssumption DEF Placed, Registered
  <2>3. SleepersAwaited'
    BY <1>2, <2>2 DEF Lookup, SleepersAwaited, Awaited, NoLostWakeup
  <2>4. QED
    BY <2>1, <2>3
<1>3. CASE NotifyAll(e)
  <2>1. Notified' /\ AnswersTrue'
    BY <1>3 DEF NotifyAll, Notified, AnswersTrue
  <2>2. SleepersAwaited'
    BY <1>3 DEF NotifyAll, Woken, SleepersAwaited, Awaited, NoLostWakeup
  <2>3. QED
    BY <2>1, <2>2
<1>4. CASE FailToNotify(e)
  BY <1>4 DEF FailToNotify, Notified, AnswersTrue, SleepersAwaited, Awaited, NoLostWakeup
<1>5. QED
  BY <1>1, <1>2, <1>3, <1>4 DEF Notification

LEMMA NextKeepsWake ==
  ASSUME WaitTypeOK, EntryInv, WakeInv, [WaitNext]_waitVars
  PROVE  WakeInv'
<1>1. ASSUME NEW w \in Waiters,
             WaitStep(w) \/ Expire(w) \/ FailRead(w) \/ Respond(w) \/ \E e \in Executions : Begin(w, e)
      PROVE  Notified' /\ AnswersTrue' /\ SleepersAwaited'
  <2>1. /\ UNCHANGED notifiers
        /\ \A v \in Waiters \ {w} : /\ step'[v] = step[v] /\ target'[v] = target[v]
                                   /\ object'[v] = object[v] /\ answer'[v] = answer[v]
    BY <1>1 DEF WaitStep, ReadFirst, Register, Enter, Recheck, EnterExpired, ReadExpired, Resume,
       ReadLast, Leave, Expire, FailRead, Respond, Begin, Answer, Goto, WaitTypeOK
  <2>2. /\ step'[w] # "idle" /\ (step'[w] = "parked" => target'[w] \notin finished)
        /\ answer'[w] = "terminal" => target'[w] \in finished
    <3> USE DEF Goto, WaitTypeOK, WakeInv, AnswersTrue, Answer, Seen
    <3>1. CASE ReadFirst(w)
      BY <3>1 DEF ReadFirst
    <3>2. CASE Register(w) \/ Enter(w) \/ EnterExpired(w) \/ Resume(w) \/ Leave(w) \/ Expire(w)
      BY <3>2 DEF Register, Enter, EnterExpired, Resume, Leave, Expire
    <3>3. CASE Recheck(w)
      BY <3>3 DEF Recheck, MustWait
    <3>4. CASE ReadExpired(w) \/ ReadLast(w)
      BY <3>4 DEF ReadExpired, ReadLast
    <3>5. CASE FailRead(w) \/ Respond(w)
      BY <3>5 DEF FailRead, Respond
    <3>6. CASE \E e \in Executions : Begin(w, e)
      BY <1>1, <3>6 DEF Begin
    <3>7. QED
      BY <1>1, <3>1, <3>2, <3>3, <3>4, <3>5, <3>6 DEF WaitStep
  <2>3. QED
    BY <2>1, <2>2, WaiterKeepsWake
<1>2. CASE UNCHANGED waitVars
  BY <1>2 DEF waitVars, notifiers, conditions, waits, WakeInv, Notified, AnswersTrue, NoLostWakeup
<1>3. CASE Notified' /\ AnswersTrue' /\ SleepersAwaited'
  <2>1. Placed'
    BY NextKeepsEntries DEF EntryInv
  <2>2. NoLostWakeup'
    BY <1>3, <2>1 DEF Placed, SleepersAwaited, Awaited, NoLostWakeup, Registered
  <2>3. QED
    BY <1>3, <2>2 DEF WakeInv
<1>4. QED
  BY <1>1, <1>2, <1>3, NotifierKeepsWake DEF WaitNext, EntryInv

-----------------------------------------------------------------------------
(* Theorems about the waiters.                                             *)

LEMMA InitWaitInv == WaitInit => WaitInv
<1> SUFFICES ASSUME WaitInit
             PROVE  WaitInv
  OBVIOUS
<1>1. WaitTypeOK
  BY DEF WaitInit, WaitTypeOK, NotifierStates, Steps, Answers
<1>2. Placed /\ SameTarget /\ Created /\ EntryHeld
  BY DEF WaitInit, Placed, SameTarget, Created, EntryHeld, Registered
<1>3. \A o \in Waiters : RegisteredAt(o) = {}
  BY DEF WaitInit, RegisteredAt, Registered
<1>4. Counted
  BY <1>3, FS_EmptySet DEF Counted, WaitInit
<1>5. WakeInv
  BY DEF WaitInit, WakeInv, Notified, AnswersTrue, NoLostWakeup
<1>6. QED
  BY <1>1, <1>2, <1>4, <1>5 DEF WaitInv, EntryInv

LEMMA WaitInvariance == WaitSpec => []WaitInv
<1>1. WaitInv /\ [WaitNext]_waitVars => WaitInv'
  BY NextTypeOK, NextKeepsEntries, NextKeepsWake DEF WaitInv, EntryInv
<1>2. QED
  BY <1>1, InitWaitInv, PTL DEF WaitSpec

\* The table of waiters stays exact: counted, shared by all waiters of an
\* execution and by nobody else, and emptied by the last one.
THEOREM EntriesExact == WaitSpec => []EntriesAreCounted
<1>1. WaitInv => EntriesAreCounted
  BY DEF WaitInv, EntryInv, Placed, EntryHeld, Counted, EntriesAreCounted, RegisteredAt, WaitTypeOK
<1>2. QED
  BY <1>1, WaitInvariance, PTL

\* No interleaving of reads, waits, timeouts and notifications lets a waiter sleep
\* on an execution whose notification is past.
THEOREM WakeupsNotLost == WaitSpec => []NoLostWakeup
<1>1. WaitInv => NoLostWakeup
  BY DEF WaitInv, WakeInv
<1>2. QED
  BY <1>1, WaitInvariance, PTL

-----------------------------------------------------------------------------
(* The driver uses the control plane only as TerminalWait allows.          *)

LEMMA InitWaits == Init => WaitInit
BY DEF Init

LEMMA NextWaits == [Next]_vars => [WaitNext]_waitVars
<1>1. CASE Driver
  BY <1>1 DEF Driver, Tool, OpenSession, StopRunner, CloseSession, FinalOutput, SubmitScript,
     TakeReply, TakeAnswer, WaitForExecution, FailCall, WaitNext
<1>2. CASE ControlPlane
  BY <1>2 DEF ControlPlane, ControlPlaneTasks, HandleSubmission, EndExecution, WaitNext
<1>3. CASE UNCHANGED vars
  BY <1>3 DEF vars
<1>4. QED
  BY <1>1, <1>2, <1>3 DEF Next

\* Every run of the driver is, for the waits, a behaviour of TerminalWait.
THEOREM RunsAreWaits == Spec => WaitSpec
BY InitWaits, NextWaits, PTL DEF Spec, WaitSpec

-----------------------------------------------------------------------------
(* The driver: the inductive invariant.                                    *)

RunTypeOK ==
  /\ phase \in {"opening", "failed_to_open", "running", "closing", "ended"}
  /\ sessionOpen \in BOOLEAN /\ completed \in BOOLEAN
  /\ call \in {NoCall} \cup {SubmitCall(e) : e \in Executions} \cup {WaitCall(w) : w \in Waiters}
  /\ inFlight \subseteq Executions /\ created \subseteq Executions
  /\ owned \subseteq created /\ terminal \subseteq owned
  /\ submitted \in 0 .. MaxSteps

Requested == created \cup inFlight

\* Every script that can reach the device was counted before it was sent.
CountedScripts ==
  /\ inFlight \cap created = {} /\ IsFiniteSet(Requested)
  /\ phase \in {"opening", "running"} => Cardinality(Requested) <= submitted
  /\ ScriptBudgetHolds

\* A wait that the driver has under way is for a script of its own, and what it
\* takes for terminal is.
OwnWaits ==
  /\ \A w \in Waiters : call = WaitCall(w) => target[w] \in owned
  /\ terminal \subseteq finished

Completion ==
  /\ completed => phase \in {"closing", "ended"}
  /\ CompletedMeansTerminal

RunInv == RunTypeOK /\ CountedScripts /\ OwnWaits /\ Completion
Whole == WaitInv /\ RunInv

LEMMA CallsDiffer ==
  /\ \A e, f : SubmitCall(e) = SubmitCall(f) => e = f
  /\ \A v, w : WaitCall(v) = WaitCall(w) => v = w
  /\ \A e, w : SubmitCall(e) # WaitCall(w) /\ SubmitCall(e) # NoCall /\ WaitCall(w) # NoCall
<1>1. \A e : SubmitCall(e).tool = "submit_script" /\ SubmitCall(e).id = e
  BY DEF SubmitCall
<1>2. \A w : WaitCall(w).tool = "wait_for_execution" /\ WaitCall(w).id = w
  BY DEF WaitCall
<1>3. NoCall.tool = "none"
  BY DEF NoCall
<1>4. QED
  BY <1>1, <1>2, <1>3

LEMMA InitRunInv == Init => RunInv
<1> SUFFICES ASSUME Init
             PROVE  RunInv
  OBVIOUS
<1>1. Requested = {} /\ IsFiniteSet(Requested) /\ Cardinality(Requested) = 0
  BY FS_EmptySet DEF Init, Requested
<1>2. RunTypeOK
  <2>1. sessionOpen \in BOOLEAN /\ completed \in BOOLEAN
    BY DEF Init
  <2>2. submitted \in 0 .. MaxSteps
    BY DriverAssumption DEF Init
  <2>3. QED
    BY <2>1, <2>2 DEF Init, RunTypeOK
<1>3. CountedScripts
  BY <1>1, DriverAssumption DEF Init, CountedScripts, ScriptBudgetHolds, Requested
<1>4. OwnWaits /\ Completion
  BY CallsDiffer DEF Init, OwnWaits, Completion, CompletedMeansTerminal
<1>5. QED
  BY <1>2, <1>3, <1>4 DEF RunInv

-----------------------------------------------------------------------------
(* The steps of the driver and of the control plane.                       *)

LEMMA NextRunTypeOK ==
  ASSUME RunTypeOK, OwnWaits, [Next]_vars
  PROVE  RunTypeOK'
<1> USE DriverAssumption DEF RunTypeOK, context, server, driverVars
<1>1. ASSUME OpenSession \/ StopRunner \/ CloseSession \/ FailCall
      PROVE  RunTypeOK'
  <2>1. CASE OpenSession \/ CloseSession
    BY <2>1 DEF OpenSession, CloseSession
  <2>2. CASE StopRunner \/ FailCall
    <3>1. submitted' \in 0 .. MaxSteps
      BY <2>2 DEF StopRunner, FailCall, LeaveRunner
    <3>2. sessionOpen' \in BOOLEAN /\ completed' \in BOOLEAN
      BY <2>2 DEF StopRunner, FailCall
    <3>3. QED
      BY <2>2, <3>1, <3>2 DEF StopRunner, FailCall, LeaveRunner
  <2>3. QED
    BY <1>1, <2>1, <2>2
<1>2. ASSUME NEW text \in BOOLEAN, FinalOutput(text)
      PROVE  RunTypeOK'
  <2>1. completed' \in BOOLEAN
    BY <1>2 DEF FinalOutput
  <2>2. QED
    BY <1>2, <2>1 DEF FinalOutput, LeaveRunner
<1>3. ASSUME NEW e \in Executions, SubmitScript(e) \/ TakeReply(e) \/ HandleSubmission(e)
      PROVE  RunTypeOK'
  <2>1. CASE SubmitScript(e)
    BY <2>1 DEF SubmitScript, CountAtRequest
  <2>2. CASE TakeReply(e)
    BY <2>2 DEF TakeReply
  <2>3. CASE HandleSubmission(e)
    BY <2>3 DEF HandleSubmission
  <2>4. QED
    BY <1>3, <2>1, <2>2, <2>3
<1>4. ASSUME NEW w \in Waiters, TakeAnswer(w)
      PROVE  RunTypeOK'
  <2>1. terminal' \subseteq owned
    BY <1>4 DEF TakeAnswer, OwnWaits
  <2>2. QED
    BY <1>4, <2>1 DEF TakeAnswer
<1>5. ASSUME NEW w \in Waiters, NEW e \in Executions, WaitForExecution(w, e)
      PROVE  RunTypeOK'
  BY <1>5 DEF WaitForExecution
<1>6. CASE UNCHANGED driverVars
  BY <1>6
<1>7. QED
  BY <1>1, <1>2, <1>3, <1>4, <1>5, <1>6
     DEF Next, Driver, Tool, ControlPlane, ControlPlaneTasks, EndExecution, vars

LEMMA NextCountsScripts ==
  ASSUME RunTypeOK, CountedScripts, [Next]_vars
  PROVE  CountedScripts'
<1> USE DriverAssumption
    DEF RunTypeOK, CountedScripts, ScriptBudgetHolds, Requested, context, server, driverVars
<1>1. Cardinality(Requested) \in Nat
  BY FS_CardinalityType
<1>2. ASSUME UNCHANGED server,
             \/ phase' \notin {"opening", "running"}
             \/ phase \in {"opening", "running"} /\ submitted' = submitted
      PROVE  CountedScripts'
  BY <1>2
<1>3. ASSUME OpenSession \/ StopRunner \/ CloseSession \/ \E text \in BOOLEAN : FinalOutput(text)
      PROVE  CountedScripts'
  BY <1>2, <1>3 DEF OpenSession, StopRunner, CloseSession, FinalOutput, LeaveRunner
<1>4. ASSUME NEW e \in Executions, SubmitScript(e)
      PROVE  CountedScripts'
  <2>1. e \notin Requested /\ Requested' = Requested \cup {e}
    BY <1>4 DEF SubmitScript, Unused
  <2>2. IsFiniteSet(Requested') /\ Cardinality(Requested') = Cardinality(Requested) + 1
    BY <2>1, FS_AddElement
  <2>3. submitted' = submitted + 1 /\ Cardinality(Requested) <= submitted /\ submitted < MaxSteps
    BY <1>4 DEF SubmitScript, CountAtRequest, Idle
  <2>4. inFlight' \cap created' = {}
    BY <1>4, <2>1 DEF SubmitScript
  <2>5. QED
    BY <1>1, <2>2, <2>3, <2>4
<1>5. ASSUME NEW e \in Executions, HandleSubmission(e)
      PROVE  CountedScripts'
  <2>1. Requested' \in SUBSET Requested
    BY <1>5 DEF HandleSubmission
  <2>2. /\ IsFiniteSet(Requested') /\ Cardinality(Requested') <= Cardinality(Requested)
        /\ Cardinality(Requested') \in Nat
    BY <2>1, FS_Subset, FS_CardinalityType
  <2>3. inFlight' \cap created' = {} /\ phase' = phase /\ submitted' = submitted
    BY <1>5 DEF HandleSubmission
  <2>4. QED
    BY <1>1, <2>2, <2>3
<1>6. ASSUME \/ FailCall
             \/ \E e \in Executions : TakeReply(e)
             \/ \E w \in Waiters : TakeAnswer(w)
             \/ \E w \in Waiters, e \in Executions : WaitForExecution(w, e)
      PROVE  CountedScripts'
  BY <1>6 DEF FailCall, TakeReply, TakeAnswer, WaitForExecution
<1>7. CASE UNCHANGED driverVars
  BY <1>7
<1>8. QED
  BY <1>3, <1>4, <1>5, <1>6, <1>7
     DEF Next, Driver, Tool, ControlPlane, ControlPlaneTasks, EndExecution, vars

\* No step takes back that an execution is terminal, or touches the driver's wait.
LEMMA WaitsOfOthers ==
  ASSUME WaitTypeOK, [Next]_vars
  PROVE  /\ finished \subseteq finished'
         /\ \A w \in Waiters : call = WaitCall(w) /\ call' = call => target'[w] = target[w]
<1> USE DEF WaitTypeOK, waitVars, notifiers, waits, Goto, Answer
<1>1. ASSUME UNCHANGED <<finished, target>>
      PROVE  /\ finished \subseteq finished'
             /\ \A w \in Waiters : call = WaitCall(w) /\ call' = call => target'[w] = target[w]
  BY <1>1
<1>2. CASE ControlPlaneTasks
  BY <1>1, <1>2 DEF ControlPlaneTasks, Notification, Lookup, NotifyAll, WaitStep, ReadFirst, Register,
     Enter, Recheck, EnterExpired, ReadExpired, Resume, ReadLast, Leave
<1>3. ASSUME NEW w \in Waiters,
             \/ Expire(w) \/ FailRead(w)
             \/ call # WaitCall(w) /\ Respond(w)
      PROVE  /\ finished \subseteq finished'
             /\ \A v \in Waiters : call = WaitCall(v) /\ call' = call => target'[v] = target[v]
  BY <1>3 DEF Expire, FailRead, Respond
<1>4. ASSUME NEW e \in Executions, HandleSubmission(e) \/ EndExecution(e) \/ FailToNotify(e)
      PROVE  /\ finished \subseteq finished'
             /\ \A w \in Waiters : call = WaitCall(w) /\ call' = call => target'[w] = target[w]
  BY <1>4 DEF HandleSubmission, EndExecution, Finish, FailToNotify
<1>5. CASE Driver
  <2>1. ASSUME NEW w \in Waiters, TakeAnswer(w)
        PROVE  UNCHANGED finished /\ call # call'
    BY <2>1, CallsDiffer DEF TakeAnswer, Respond
  <2>2. ASSUME NEW w \in Waiters, NEW e \in Executions, WaitForExecution(w, e)
        PROVE  UNCHANGED finished /\ call # call'
    BY <2>2, CallsDiffer DEF WaitForExecution, Begin, Idle
  <2>3. CASE ~\E w \in Waiters : TakeAnswer(w) \/ \E e \in Executions : WaitForExecution(w, e)
    BY <1>1, <1>5, <2>3 DEF Driver, Tool, OpenSession, StopRunner, CloseSession, FinalOutput,
       SubmitScript, TakeReply, FailCall
  <2>4. QED
    BY <2>1, <2>2, <2>3
<1>6. CASE UNCHANGED vars
  BY <1>1, <1>6 DEF vars
<1>7. QED
  BY <1>2, <1>3, <1>4, <1>5, <1>6 DEF Next, ControlPlane

LEMMA NextOwnsWaits ==
  ASSUME WaitTypeOK, AnswersTrue, RunTypeOK, OwnWaits, [Next]_vars
  PROVE  OwnWaits'
<1> USE CallsDiffer DEF OwnWaits, context, driverVars
<1>1. ASSUME UNCHANGED terminal, owned \subseteq owned', UNCHANGED call \/ \A w \in Waiters : call' # WaitCall(w)
      PROVE  OwnWaits'
  BY <1>1, WaitsOfOthers
<1>2. CASE OpenSession \/ CloseSession \/ FailCall
  BY <1>1, <1>2 DEF OpenSession, CloseSession, FailCall
<1>3. CASE StopRunner \/ \E text \in BOOLEAN : FinalOutput(text)
  BY <1>3 DEF StopRunner, FinalOutput, LeaveRunner, Idle
<1>4. ASSUME NEW e \in Executions, SubmitScript(e) \/ TakeReply(e) \/ HandleSubmission(e)
      PROVE  OwnWaits'
  BY <1>1, <1>4 DEF SubmitScript, TakeReply, HandleSubmission
<1>5. ASSUME NEW w \in Waiters, TakeAnswer(w)
      PROVE  OwnWaits'
  BY <1>5, WaitsOfOthers DEF TakeAnswer, SaysTerminal, AnswersTrue
<1>6. ASSUME NEW w \in Waiters, NEW e \in Executions, WaitForExecution(w, e)
      PROVE  OwnWaits'
  BY <1>6, WaitsOfOthers DEF WaitForExecution, Begin, WaitTypeOK
<1>7. CASE UNCHANGED driverVars
  BY <1>1, <1>7
<1>8. QED
  BY <1>2, <1>3, <1>4, <1>5, <1>6, <1>7
     DEF Next, Driver, Tool, ControlPlane, ControlPlaneTasks, EndExecution, vars

\* A completed run owns every script that was requested, and saw each one end.
LEMMA FinalOutputCompletes ==
  ASSUME RunTypeOK, CountedScripts, OwnWaits, NEW text \in BOOLEAN, FinalOutput(text), completed'
  PROVE  inFlight = {} /\ created \subseteq finished /\ Cardinality(created) >= RequiredScripts
<1>1. /\ Cardinality(terminal) >= RequiredScripts /\ submitted = Cardinality(owned)
      /\ owned = terminal /\ Cardinality(Requested) <= submitted
  BY DEF FinalOutput, AllSubmittedTerminal, RunTypeOK, CountedScripts, Idle
<1>2. owned \in SUBSET Requested /\ Cardinality(owned) \in Nat /\ Cardinality(Requested) \in Nat
  BY FS_Subset, FS_CardinalityType DEF RunTypeOK, Requested, CountedScripts
<1>3. owned = Requested
  BY <1>1, <1>2, FS_Subset DEF CountedScripts
<1>4. inFlight = {} /\ created = terminal
  BY <1>1, <1>3 DEF Requested, CountedScripts, RunTypeOK
<1>5. QED
  BY <1>1, <1>4 DEF OwnWaits

LEMMA NextCompletes ==
  ASSUME WaitTypeOK, RunInv, [Next]_vars
  PROVE  Completion'
<1> USE DEF RunInv, Completion, CompletedMeansTerminal, server, driverVars
<1>1. CASE UNCHANGED <<phase, completed, created, inFlight>>
  BY <1>1, WaitsOfOthers
<1>2. ASSUME NEW text \in BOOLEAN, FinalOutput(text)
      PROVE  Completion'
  BY <1>2, FinalOutputCompletes, WaitsOfOthers DEF FinalOutput, LeaveRunner
<1>3. CASE OpenSession \/ StopRunner \/ CloseSession
  <2>1. CASE OpenSession \/ StopRunner
    BY <2>1 DEF OpenSession, StopRunner
  <2>2. CASE CloseSession
    BY <2>2, WaitsOfOthers DEF CloseSession
  <2>3. QED
    BY <1>3, <2>1, <2>2
<1>4. ASSUME NEW e \in Executions, SubmitScript(e) \/ HandleSubmission(e)
      PROVE  Completion'
  BY <1>4 DEF SubmitScript, HandleSubmission, Idle
<1>5. QED
  BY <1>1, <1>2, <1>3, <1>4
     DEF Next, Driver, Tool, TakeReply, TakeAnswer, WaitForExecution, FailCall, ControlPlane,
         ControlPlaneTasks, EndExecution, vars

LEMMA Invariance == Spec => []Whole
<1>1. Init => Whole
  BY InitRunInv, InitWaits, InitWaitInv DEF Whole
<1>2. ASSUME Whole, [Next]_vars
      PROVE  Whole'
  <2>1. WaitInv'
    BY <1>2, NextWaits, NextTypeOK, NextKeepsEntries, NextKeepsWake DEF Whole, WaitInv, EntryInv
  <2>2. RunInv'
    BY <1>2, NextRunTypeOK, NextCountsScripts, NextOwnsWaits, NextCompletes
       DEF Whole, WaitInv, WakeInv, RunInv
  <2>3. QED
    BY <2>1, <2>2 DEF Whole
<1>3. Whole /\ [Next]_vars => Whole'
  BY <1>2
<1>4. QED
  BY <1>1, <1>3, PTL DEF Spec

-----------------------------------------------------------------------------
(* Theorems about the driver.                                              *)

\* The state keeps its types; a script is owned only if the control plane created
\* it, and seen as terminal only if it is owned.
THEOREM TypeCorrect == Spec => []TypeOK
<1>1. Whole => TypeOK
  BY DEF Whole, WaitInv, RunInv, RunTypeOK, TypeOK
<1>2. QED
  BY <1>1, Invariance, PTL

\* max_steps bounds the scripts that reach the device, because a script is counted
\* before it is requested and never given back.
THEOREM BudgetHolds == Spec => []ScriptBudgetHolds
<1>1. Whole => ScriptBudgetHolds
  BY DEF Whole, RunInv, CountedScripts
<1>2. QED
  BY <1>1, Invariance, PTL

\* A completed run has no script that could still run or is not terminal.
THEOREM CompletedRunsAreOver == Spec => []CompletedMeansTerminal
<1>1. Whole => CompletedMeansTerminal
  BY DEF Whole, RunInv, Completion
<1>2. QED
  BY <1>1, Invariance, PTL
=============================================================================
