---------------------------- MODULE TerminalWait ----------------------------
(***************************************************************************)
(* Waiting for an execution to become terminal (app.py, wait_for_terminal  *)
(* and notify_terminal): a condition variable per execution, shared by its *)
(* waiters, created by the first and deleted by the last one.              *)
(*                                                                         *)
(* A TerminalWaiter is named after the waiter that created it.  Every read *)
(* of the row is an await: here it is a step, and so is every wait for the *)
(* lock of the condition.  Code without an await in between is one step.   *)
(***************************************************************************)
EXTENDS Naturals, FiniteSets

CONSTANTS Executions, Waiters, None

ASSUME WaitAssumption == None \notin Waiters \cup Executions /\ IsFiniteSet(Waiters)

VARIABLES
  finished,   \* executions whose terminal status is committed
  notifier,   \* what is left to do for the one that committed it
  found,      \* the TerminalWaiter that notifier has looked up
  entry,      \* terminal_waiters
  refCount,   \* TerminalWaiter.ref_count
  lock,       \* holder of the lock of TerminalWaiter.condition
  step,       \* of each wait_for_terminal
  target,     \* its execution
  object,     \* its TerminalWaiter
  answer      \* its answer

notifiers == <<finished, notifier, found>>
conditions == <<entry, refCount, lock>>
waits == <<step, target, object, answer>>
waitVars == <<notifiers, conditions, waits>>

NotifierStates == {"none", "committed", "found", "done", "failed"}
Registered == {"enter", "recheck", "parked", "woken", "expired", "lastread", "read", "leave"}
Steps == Registered \cup {"idle", "start", "register", "done", "sent"}
Holding == {"recheck", "lastread"}
Answers == {"none", "terminal", "wait_timed_out", "other"} \* other: not terminal yet, or an error

Goto(w, next) == step' = [step EXCEPT ![w] = next]
Seen(w, otherwise) == IF target[w] \in finished THEN "terminal" ELSE otherwise

-----------------------------------------------------------------------------
(* notify_terminal, called after the transaction that ended the execution. *)

Finish(e) ==
  /\ e \notin finished
  /\ finished' = finished \cup {e}
  /\ notifier' = [notifier EXCEPT ![e] = "committed"]
  /\ UNCHANGED <<found, conditions, waits>>

Lookup(e) ==
  /\ notifier[e] = "committed"
  /\ notifier' = [notifier EXCEPT ![e] = IF entry[e] = None THEN "done" ELSE "found"]
  /\ found' = [found EXCEPT ![e] = entry[e]]
  /\ UNCHANGED <<finished, conditions, waits>>

Woken_One(o) == \* mutant
  IF \E w \in Waiters : step[w] = "parked" /\ object[w] = o
    THEN {CHOOSE w \in Waiters : step[w] = "parked" /\ object[w] = o} ELSE {}
Woken(o) == {w \in Waiters : step[w] = "parked" /\ object[w] = o}

NotifyAll(e) ==
  /\ notifier[e] = "found" /\ lock[found[e]] = None
  /\ step' = [w \in Waiters |-> IF w \in Woken(found[e]) THEN "woken" ELSE step[w]]
  /\ notifier' = [notifier EXCEPT ![e] = "done"]
  /\ found' = [found EXCEPT ![e] = None]
  /\ UNCHANGED <<finished, conditions, target, object, answer>>

\* submit_execution reads the row between the commit and the notification.
FailToNotify(e) ==
  /\ notifier[e] = "committed"
  /\ notifier' = [notifier EXCEPT ![e] = "failed"]
  /\ UNCHANGED <<finished, found, conditions, waits>>

-----------------------------------------------------------------------------
(* wait_for_terminal.                                                      *)

Begin(w, e) ==
  /\ step[w] = "idle"
  /\ Goto(w, "start")
  /\ target' = [target EXCEPT ![w] = e]
  /\ UNCHANGED <<notifiers, conditions, object, answer>>

Answer(w, a, next) ==
  /\ answer' = [answer EXCEPT ![w] = a]
  /\ Goto(w, next)
  /\ UNCHANGED <<notifiers, target, object>>

\* The first read; a caller that does not want to wait gets the row as it is.
ReadFirst(w) ==
  /\ step[w] = "start"
  /\ \/ Answer(w, Seen(w, "other"), "done") /\ UNCHANGED conditions
     \/ /\ target[w] \notin finished
        /\ Goto(w, "register")
        /\ UNCHANGED <<notifiers, conditions, target, object, answer>>

Register(w) ==
  /\ step[w] = "register"
  /\ LET o == IF entry[target[w]] = None THEN w ELSE entry[target[w]] IN
       /\ entry' = [entry EXCEPT ![target[w]] = o]
       /\ object' = [object EXCEPT ![w] = o]
       /\ refCount' = [refCount EXCEPT ![o] = @ + 1]
  /\ Goto(w, "enter")
  /\ UNCHANGED <<notifiers, lock, target, answer>>

Acquire(w) == lock[object[w]] = None /\ lock' = [lock EXCEPT ![object[w]] = w]
Release(w) == lock' = [lock EXCEPT ![object[w]] = None]

Enter(w) ==
  /\ step[w] = "enter"
  /\ Acquire(w) /\ Goto(w, "recheck")
  /\ UNCHANGED <<notifiers, entry, refCount, target, object, answer>>

\* The read under the lock; Condition.wait gives the lock back.
MustWait_Always(w) == TRUE \* mutant
MustWait(w) == target[w] \notin finished

Recheck(w) ==
  /\ step[w] = "recheck"
  /\ Release(w)
  /\ IF MustWait(w) THEN Goto(w, "parked") /\ UNCHANGED <<notifiers, target, object, answer>>
                    ELSE Answer(w, "terminal", "leave")
  /\ UNCHANGED <<entry, refCount>>

\* wait_for cancels the wait, also one that was notified and waits for the lock.
Expire(w) ==
  /\ step[w] \in {"parked", "woken"}
  /\ Goto(w, "expired")
  /\ UNCHANGED <<notifiers, conditions, target, object, answer>>

EnterExpired(w) ==
  /\ step[w] = "expired"
  /\ Acquire(w) /\ Goto(w, "lastread")
  /\ UNCHANGED <<notifiers, entry, refCount, target, object, answer>>

ReadExpired(w) ==
  /\ step[w] = "lastread"
  /\ Release(w)
  /\ Answer(w, Seen(w, "wait_timed_out"), "leave")
  /\ UNCHANGED <<entry, refCount>>

\* The notified waiter takes the lock and leaves the block without an await.
Resume(w) ==
  /\ step[w] = "woken" /\ lock[object[w]] = None
  /\ Goto(w, "read")
  /\ UNCHANGED <<notifiers, conditions, target, object, answer>>

ReadLast(w) ==
  /\ step[w] = "read"
  /\ Answer(w, Seen(w, "other"), "leave")
  /\ UNCHANGED conditions

\* A read that raises; the finally block runs all the same.
FailRead(w) ==
  \/ step[w] = "start" /\ Answer(w, "other", "done") /\ UNCHANGED conditions
  \/ step[w] = "read" /\ Answer(w, "other", "leave") /\ UNCHANGED conditions
  \/ step[w] \in Holding /\ Release(w) /\ Answer(w, "other", "leave") /\ UNCHANGED <<entry, refCount>>

IsLastReference_Any(w) == TRUE \* mutant
IsLastReference(w) == refCount[object[w]] = 1
Decrement_Twice(n) == n - 2 \* mutant
Decrement(n) == n - 1

Leave(w) ==
  /\ step[w] = "leave"
  /\ refCount' = [refCount EXCEPT ![object[w]] = Decrement(@)]
  /\ entry' = IF IsLastReference(w) /\ entry[target[w]] = object[w]
                THEN [entry EXCEPT ![target[w]] = None] ELSE entry
  /\ object' = [object EXCEPT ![w] = None]
  /\ Goto(w, "done")
  /\ UNCHANGED <<notifiers, lock, target, answer>>

\* The response is sent, or nobody is there to take it.
Respond(w) ==
  /\ step[w] = "done"
  /\ Goto(w, "sent")
  /\ target' = [target EXCEPT ![w] = None]
  /\ answer' = [answer EXCEPT ![w] = "none"]
  /\ UNCHANGED <<notifiers, conditions, object>>

-----------------------------------------------------------------------------

WaitInit ==
  /\ finished = {}
  /\ notifier = [e \in Executions |-> "none"]
  /\ found = [e \in Executions |-> None]
  /\ entry = [e \in Executions |-> None]
  /\ refCount = [w \in Waiters |-> 0]
  /\ lock = [w \in Waiters |-> None]
  /\ step = [w \in Waiters |-> "idle"]
  /\ target = [w \in Waiters |-> None]
  /\ object = [w \in Waiters |-> None]
  /\ answer = [w \in Waiters |-> "none"]

Notification(e) == Lookup(e) \/ NotifyAll(e)

\* The steps of a waiter that need no time to pass and no fault.
WaitStep(w) ==
  \/ ReadFirst(w) \/ Register(w) \/ Enter(w) \/ Recheck(w)
  \/ EnterExpired(w) \/ ReadExpired(w) \/ Resume(w) \/ ReadLast(w) \/ Leave(w)

WaitNext ==
  \/ \E e \in Executions : Finish(e) \/ Notification(e) \/ FailToNotify(e)
  \/ \E w \in Waiters : WaitStep(w) \/ Expire(w) \/ FailRead(w) \/ Respond(w)
  \/ \E w \in Waiters, e \in Executions : Begin(w, e)

WaitSpec == WaitInit /\ [][WaitNext]_waitVars

-----------------------------------------------------------------------------
(* Properties.                                                             *)

WaitTypeOK ==
  /\ finished \subseteq Executions
  /\ notifier \in [Executions -> NotifierStates]
  /\ found \in [Executions -> Waiters \cup {None}]
  /\ entry \in [Executions -> Waiters \cup {None}]
  /\ refCount \in [Waiters -> Nat]
  /\ lock \in [Waiters -> Waiters \cup {None}]
  /\ step \in [Waiters -> Steps]
  /\ target \in [Waiters -> Executions \cup {None}]
  /\ object \in [Waiters -> Waiters \cup {None}]
  /\ answer \in [Waiters -> Answers]

\* A waiter sleeps on a terminal execution only while the notification of the
\* very TerminalWaiter it sleeps on is still to come, or has failed.
NoLostWakeup ==
  \A w \in Waiters : step[w] = "parked" /\ target[w] \in finished =>
    LET e == target[w] IN
      \/ notifier[e] = "committed" /\ entry[e] = object[w]
      \/ notifier[e] = "found" /\ found[e] = object[w]
      \/ notifier[e] = "failed"

\* terminal_waiters holds one TerminalWaiter per execution that somebody waits
\* for, the one all its waiters share, and none for the others.
RegisteredAt(o) == {w \in Waiters : step[w] \in Registered /\ object[w] = o}
EntriesAreCounted ==
  /\ \A o \in Waiters : refCount[o] = Cardinality(RegisteredAt(o))
  /\ \A w \in Waiters : step[w] \in Registered => entry[target[w]] = object[w]
  /\ \A e \in Executions : entry[e] # None => RegisteredAt(entry[e]) # {}
=============================================================================
