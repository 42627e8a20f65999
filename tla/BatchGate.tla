------------------------------ MODULE BatchGate ------------------------------
(***************************************************************************)
(* The batch gate of a tool executor: batch_mutex, batch_changed and       *)
(* batch_active in src/agent/src/turbo_agent_tool_executor.c.  At most one *)
(* batch runs at a time; other callers sleep on the condition variable.    *)
(*                                                                         *)
(* A critical section (from a lock or a wake-up to the next wait or        *)
(* unlock) is one step.  A signal wakes one sleeper, which competes for    *)
(* the mutex with everybody else; a sleeper may also wake by itself.       *)
(***************************************************************************)
EXTENDS Naturals, FiniteSets, TLAPS

CONSTANTS
    Threads,    \* callers of turbo_agent_tool_executor_execute
    Tokens      \* those that pass a cancel token

ASSUME GateConstants == Tokens \subseteq Threads

VARIABLES
    active,     \* batch_active
    place,      \* where a thread is: see Places
    stopped     \* threads whose token has been cancelled or is past its deadline

gate == <<active, place, stopped>>

Places == {"outside", "asleep", "woken", "inside"}

At(p) == {t \in Threads : place[t] = p}

Move(t, p) == place' = [place EXCEPT ![t] = p]

GateTypeOK ==
    /\ active \in BOOLEAN
    /\ place \in [Threads -> Places]
    /\ stopped \subseteq Tokens

GateInit ==
    /\ active = FALSE
    /\ place = [t \in Threads |-> "outside"]
    /\ stopped = {}

(* cmeta_cond_signal by t, which itself moves to p: one sleeper, if there  *)
(* is one, leaves the wait.                                                *)
SignalAndMove(t, p) ==
    \/ /\ At("asleep") = {}
       /\ Move(t, p)
    \/ \E s \in At("asleep") :
          place' = [place EXCEPT ![t] = p, ![s] = "woken"]

(* batch_acquire, first pass of the loop: a token that is already stopped  *)
(* still enters an idle gate; on a busy gate a passed deadline leaves no   *)
(* time to wait, and the loop ends with DEADLINE_EXCEEDED.                 *)
Acquire(t) ==
    /\ place[t] = "outside"
    /\ \/ /\ ~active
          /\ active' = TRUE
          /\ Move(t, "inside")
       \/ /\ active
          /\ Move(t, "asleep")
          /\ UNCHANGED active
       \/ /\ active
          /\ t \in stopped
          /\ UNCHANGED <<active, place>>
    /\ UNCHANGED stopped

(* The wait of t ends without a signal: a time slice of a token, or a      *)
(* spurious wake-up.                                                       *)
WakeUp(t) ==
    /\ place[t] = "asleep"
    /\ Move(t, "woken")
    /\ UNCHANGED <<active, stopped>>

(* Faulty variant: a stopped waiter leaves without passing its wake-up on. *)
RecheckNoPassOn(t) ==
    /\ place[t] = "woken"
    /\ \/ /\ t \in stopped
          /\ Move(t, "outside")
          /\ UNCHANGED active
       \/ /\ t \notin stopped
          /\ ~active
          /\ active' = TRUE
          /\ Move(t, "inside")
       \/ /\ t \notin stopped
          /\ active
          /\ Move(t, "asleep")
          /\ UNCHANGED active
    /\ UNCHANGED stopped

(* batch_acquire, every later pass: a stopped waiter leaves and passes the *)
(* wake-up it may have consumed on when the gate is idle.                  *)
Recheck(t) ==
    /\ place[t] = "woken"
    /\ \/ /\ t \in stopped
          /\ IF active THEN Move(t, "outside") ELSE SignalAndMove(t, "outside")
          /\ UNCHANGED active
       \/ /\ t \notin stopped
          /\ ~active
          /\ active' = TRUE
          /\ Move(t, "inside")
       \/ /\ t \notin stopped
          /\ active
          /\ Move(t, "asleep")
          /\ UNCHANGED active
    /\ UNCHANGED stopped

(* batch_release. *)
Release(t) ==
    /\ place[t] = "inside"
    /\ active' = FALSE
    /\ SignalAndMove(t, "outside")
    /\ UNCHANGED stopped

(* The host cancels t's token, or its deadline passes. *)
StopToken(t) ==
    /\ t \in Tokens \ stopped
    /\ stopped' = stopped \union {t}
    /\ UNCHANGED <<active, place>>

(* Outside the gate a thread may come back with a new token. *)
Renew(t) ==
    /\ place[t] = "outside"
    /\ t \in stopped
    /\ stopped' = stopped \ {t}
    /\ UNCHANGED <<active, place>>

GateNext ==
    \E t \in Threads :
        \/ Acquire(t) \/ WakeUp(t) \/ Recheck(t) \/ Release(t)
        \/ StopToken(t) \/ Renew(t)

GateSpec == GateInit /\ [][GateNext]_gate

-----------------------------------------------------------------------------
(* At most one thread is inside the gate, and batch_active says whether    *)
(* one is (batch_acquire, batch_release).                                  *)
OneInside ==
    /\ \A s, t \in At("inside") : s = t
    /\ active <=> At("inside") # {}

(* No lost wake-up: while the gate is idle and someone sleeps, someone is  *)
(* awake and on the way to the mutex, so no waiter depends on a time slice *)
(* or on luck.  This is what the signal of a cancelled waiter is for.      *)
NoLostWakeUp ==
    ~active /\ At("asleep") # {} => At("woken") # {}

-----------------------------------------------------------------------------
(* Proofs, for any set of threads.  Mutual exclusion, the absence of lost  *)
(* wake-ups and the type invariant together are already inductive.         *)
GateInv == GateTypeOK /\ OneInside /\ NoLostWakeUp

(* An idle, empty gate satisfies the invariant. *)
LEMMA GateInitHolds == GateInit => GateInv
  BY ZenonT(30), GateConstants DEF GateInit, GateInv, GateTypeOK, OneInside, NoLostWakeUp, At, Places

(* A signal wakes a sleeper if there is one, and moves nobody else but the *)
(* signaller.                                                              *)
LEMMA SignalWakes ==
  ASSUME GateTypeOK, NEW t \in Threads, place[t] # "asleep", SignalAndMove(t, "outside")
  PROVE  /\ place' \in [Threads -> Places]
         /\ place'[t] = "outside"
         /\ \A s \in Threads : s # t /\ place[s] # "asleep" => place'[s] = place[s]
         /\ \A s \in Threads : place'[s] = "inside" => place[s] = "inside" /\ s # t
         /\ (\E s \in Threads : place'[s] = "asleep") => \E s \in Threads : place'[s] = "woken"
<1>1. CASE At("asleep") = {} /\ Move(t, "outside")
  BY Zenon, <1>1 DEF GateTypeOK, At, Move, Places
<1>2. ASSUME NEW s \in At("asleep"), place' = [place EXCEPT ![t] = "outside", ![s] = "woken"]
      PROVE  /\ place' \in [Threads -> Places]
             /\ place'[t] = "outside"
             /\ \A u \in Threads : u # t /\ place[u] # "asleep" => place'[u] = place[u]
             /\ \A u \in Threads : place'[u] = "inside" => place[u] = "inside" /\ u # t
             /\ \E u \in Threads : place'[u] = "woken"
  BY Zenon, <1>2 DEF GateTypeOK, At, Places
<1> QED
  BY Zenon, <1>1, <1>2 DEF SignalAndMove

(* A move of one thread leaves the others where they are. *)
LEMMA MoveMovesOne ==
  ASSUME GateTypeOK, NEW t \in Threads, NEW p \in Places, Move(t, p)
  PROVE  /\ place' \in [Threads -> Places]
         /\ place'[t] = p
         /\ \A s \in Threads : s # t => place'[s] = place[s]
BY Zenon DEF GateTypeOK, Move

(* A thread that finds the gate idle is alone in it. *)
LEMMA EntersAlone ==
  ASSUME GateInv, NEW t \in Threads, ~active, active' = TRUE, Move(t, "inside"), UNCHANGED stopped
  PROVE  GateInv'
<1>1. /\ place' \in [Threads -> Places]
      /\ place'[t] = "inside"
      /\ \A s \in Threads : s # t => place'[s] = place[s]
  BY Zenon, MoveMovesOne DEF GateInv, Places
<1>2. GateTypeOK'
  BY Zenon, <1>1 DEF GateInv, GateTypeOK
<1>3. \A s \in Threads : place'[s] = "inside" <=> s = t
  BY Zenon, <1>1 DEF GateInv, OneInside, At
<1> QED
  BY Zenon, <1>2, <1>3 DEF GateInv, OneInside, NoLostWakeUp, At

(* A thread that finds the gate taken leaves it taken. *)
LEMMA SleepsBehind ==
  ASSUME GateInv, NEW t \in Threads, active, place[t] # "inside", Move(t, "asleep"),
         UNCHANGED <<active, stopped>>
  PROVE  GateInv'
<1>1. /\ place' \in [Threads -> Places]
      /\ place'[t] = "asleep"
      /\ \A s \in Threads : s # t => place'[s] = place[s]
  BY Zenon, MoveMovesOne DEF GateInv, Places
<1>2. GateTypeOK'
  BY Zenon, <1>1 DEF GateInv, GateTypeOK
<1>3. \A s \in Threads : place'[s] = "inside" <=> place[s] = "inside"
  BY Zenon, <1>1
<1> QED
  BY Zenon, <1>2, <1>3 DEF GateInv, OneInside, NoLostWakeUp, At

(* Every step of every thread preserves the invariant. *)
LEMMA GateStepKeeps == GateInv /\ [GateNext]_gate => GateInv'
<1> SUFFICES ASSUME GateInv, [GateNext]_gate PROVE GateInv'
  BY Zenon
<1>1. ASSUME NEW t \in Threads, Acquire(t) PROVE GateInv'
  <2>1. CASE UNCHANGED <<active, place>>
    BY Zenon, <1>1, <2>1 DEF Acquire, GateInv, GateTypeOK, OneInside, NoLostWakeUp, At
  <2> QED
    BY Zenon, <1>1, <2>1, EntersAlone, SleepsBehind DEF Acquire
<1>2. ASSUME NEW t \in Threads, WakeUp(t) PROVE GateInv'
  BY Zenon, <1>2 DEF WakeUp, GateInv, Move, GateTypeOK, OneInside, NoLostWakeUp, At, Places
<1>3. ASSUME NEW t \in Threads, Recheck(t) PROVE GateInv'
  <2>1. CASE t \in stopped /\ ~active
    BY <1>3, <2>1, SignalWakes DEF Recheck, GateInv, GateTypeOK, OneInside, NoLostWakeUp, At
  <2>2. CASE t \in stopped /\ active
    BY Zenon, <1>3, <2>2 DEF Recheck, GateInv, Move, GateTypeOK, OneInside, NoLostWakeUp, At, Places
  <2>3. CASE t \notin stopped /\ active
    BY Zenon, <1>3, <2>3, SleepsBehind DEF Recheck
  <2>4. CASE t \notin stopped /\ ~active
    BY Zenon, <1>3, <2>4, EntersAlone DEF Recheck
  <2> QED
    BY Zenon, <2>1, <2>2, <2>3, <2>4
<1>4. ASSUME NEW t \in Threads, Release(t) PROVE GateInv'
  <2>1. /\ place' \in [Threads -> Places]
        /\ \A s \in Threads : place'[s] = "inside" => place[s] = "inside" /\ s # t
        /\ (\E s \in Threads : place'[s] = "asleep") => \E s \in Threads : place'[s] = "woken"
    BY Zenon, <1>4, SignalWakes DEF Release, GateInv
  <2>2. \A s \in Threads : place'[s] # "inside"
    BY Zenon, <1>4, <2>1 DEF Release, GateInv, OneInside, At
  <2> QED
    BY Zenon, <1>4, <2>1, <2>2 DEF Release, GateInv, GateTypeOK, OneInside, NoLostWakeUp, At
<1>5. ASSUME NEW t \in Threads, StopToken(t) \/ Renew(t) PROVE GateInv'
  BY <1>5 DEF StopToken, GateInv, Renew, GateTypeOK, OneInside, NoLostWakeUp, At
<1>6. CASE UNCHANGED gate
  BY Zenon, <1>6 DEF gate, GateInv, GateTypeOK, OneInside, NoLostWakeUp, At
<1> QED
  BY Zenon, <1>1, <1>2, <1>3, <1>4, <1>5, <1>6 DEF GateNext

(* At most one batch is inside the gate and batch_active tells the truth,  *)
(* for any number of callers (batch_acquire, batch_release).               *)
THEOREM GateExcludes == GateSpec => []OneInside
<1>1. GateInv => OneInside
  BY Zenon DEF GateInv
<1> QED
  BY <1>1, GateInitHolds, GateStepKeeps, PTL DEF GateSpec

(* An idle gate with a sleeper has somebody awake: cancelled waiters never *)
(* swallow the last wake-up (the pass-on signal in batch_acquire).         *)
THEOREM WakeUpsSurvive == GateSpec => []NoLostWakeUp
<1>1. GateInv => NoLostWakeUp
  BY Zenon DEF GateInv
<1> QED
  BY <1>1, GateInitHolds, GateStepKeeps, PTL DEF GateSpec
=============================================================================
