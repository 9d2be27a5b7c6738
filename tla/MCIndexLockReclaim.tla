-------------------------- MODULE MCIndexLockReclaim --------------------------
(***************************************************************************)
(* IndexLock from the state that tests/index-lock.test.ts:211 builds by    *)
(* hand: the lock of a dead owner, holding the claim of a dead reclaimer.  *)
(* Spec reaches this state when one process is killed with the lease and   *)
(* another while it reclaims it.                                           *)
(***************************************************************************)
EXTENDS MCIndexLock

CONSTANTS DeadOwner, DeadReclaimer

CrashedInit ==
  /\ lock = <<DeadOwner, 1>>
  /\ reclaim = [by |-> <<DeadReclaimer, 1>>, expect |-> lock]
  /\ marker = [t \in Token |-> "none"]
  /\ alive = [p \in Proc |-> p \notin {DeadOwner, DeadReclaimer}]
  /\ pc = [p \in Proc |-> IF alive[p] THEN "idle" ELSE "down"]
  /\ own = [p \in Proc |-> None]
  /\ seen = [p \in Proc |-> None]
  /\ tries = [p \in Proc |-> 0]
  /\ claims = [p \in Proc |-> 0]
  /\ at = [p \in Proc |-> None]
  /\ mark = [p \in Proc |-> None]
  /\ prize = [p \in Proc |-> None]
  /\ recov = [p \in Proc |-> {}]
  /\ verdict = [p \in Proc |-> "idle"]
  /\ todo = [p \in Proc |-> {}]
  /\ tomb = [p \in Proc |-> None]
  /\ unrecovered = {lock}

\* Nobody takes the pid of a dead process.
CrashedNext == \E p \in Proc : Begin(p) \/ Proceed(p) \/ Crash(p)

CrashedSpec == CrashedInit /\ [][CrashedNext]_vars

FairCrashedSpec == CrashedSpec /\ Fairness

Survivors == Permutations(Proc \ {DeadOwner, DeadReclaimer})
=============================================================================
