--------------------------- MODULE IndexLockProofs ---------------------------
(***************************************************************************)
(* Proofs about IndexLock, for any number of processes.                    *)
(*                                                                         *)
(* Type correctness holds under every fault.  The safety of the lease is   *)
(* proved for the faults HolderFaults names: a process may die anywhere    *)
(* but inside reclaimDeadOwner, and a dead pid is not handed out again.    *)
(* Without that restriction LeaseExclusive is false: see the run           *)
(* lock_reclaim_race.                                                      *)
(***************************************************************************)
EXTENDS IndexLock, TLAPS

HolderFaults == CrashSteps \cap ReclaimSteps = {} /\ Reusable = {}

AtRest(p) == pc[p] \in Outcomes \cup {"down"}

\* What a process in the middle of a call has in its frames.
FrameOK(p) ==
  /\ pc[p] = "down" <=> ~alive[p]
  /\ ~AtRest(p) => own[p] \in Token /\ PidOf[own[p]] = p
  /\ pc[p] \in ReclaimSteps \cup {"probe"} => seen[p] \in Token
  /\ pc[p] \in {"place", "settle", "restore"} => at[p] \in Token
  /\ pc[p] = "check" => tomb[p] \in Dir

ClaimInDir == reclaim # None => lock \in Token

TypeInv == TypeOK /\ ClaimInDir /\ \A p \in Proc : FrameOK(p)

\* A process whose claim has stood once and that is about to take the lock away.
Standing == {"mark", "verify", "quarantine"}

\* The dead stay dead, and only the dead are reclaimed or recovered.
DeadTokens ==
  /\ \A p \in Proc : pc[p] \in ReclaimSteps => Dead(p, seen[p])
  /\ \A p \in Proc : \A t \in recov[p] \cup todo[p] : ~alive[PidOf[t]]
  /\ \A t \in Token : marker[t] # "none" \/ t \in unrecovered => ~alive[PidOf[t]]

\* A claim that names the owner of the lock it lies in is the claim of a live
\* process that is still reclaiming that lock.
ClaimLive ==
  reclaim # None /\ reclaim.expect = lock =>
    LET q == PidOf[reclaim.by]
    IN own[q] = reclaim.by /\ seen[q] = lock /\ pc[q] \in Standing \cup {"confirm"}

\* A claim that has stood once keeps standing.
ClaimKept ==
  \A p \in Proc : pc[p] \in Standing =>
    lock = seen[p] /\ reclaim = [by |-> own[p], expect |-> seen[p]]

\* Nobody removes another reclaimer's marker: there is no dead one to remove.
NoSeizure == \A p \in Proc : pc[p] \notin {"seize", "settle", "restore"}

\* The recovery marker of a lock that is still in place is its reclaimer's.
MarkerOfLock ==
  /\ \A p \in Proc : pc[p] \in {"verify", "quarantine"} => marker[seen[p]] = "full"
  /\ \A t \in Token : lock = t /\ marker[t] # "none" =>
       \E p \in Proc : pc[p] \in {"verify", "quarantine"} /\ seen[p] = t

OwnTomb == \A p \in Proc : pc[p] = "check" => tomb[p].owner = own[p]

\* A writer that has succeeded leaves nothing unrepaired.
Repaired ==
  \A p \in Proc : pc[p] \in {"complete", "unlink", "rmdir"} => unrecovered = {}

LeaseInv ==
  /\ TypeInv
  /\ DeadTokens
  /\ LiveLeaseInPlace
  /\ ClaimLive
  /\ ClaimKept
  /\ NoSeizure
  /\ MarkerOfLock
  /\ OwnTomb
  /\ CrashRemembered
  /\ WriterKnowsCrashes
  /\ Repaired

-----------------------------------------------------------------------------
\* A fresh token belongs to the process that draws it.
LEMMA FreshToken == \A p \in Proc : \A t \in Fresh(p) : t \in Token /\ PidOf[t] = p
  BY DEF Fresh

USE DEF Goto, Attempts, AttemptsLeft, Steps, Outcomes, ReclaimSteps, LeaseSteps, locks, claimFrame, leaseFrame

DiskTypes ==
  /\ lock \in Token \cup {None, Legacy}
  /\ reclaim \in Claim \cup {None}
  /\ marker \in [Token -> {"none", "full", "husk"}]
  /\ ClaimInDir

LEMMA TypingInit == ASSUME ConstantsAssumption, Init PROVE TypeInv
  BY DEF ConstantsAssumption, Init, TypeInv, TypeOK, ClaimInDir, FrameOK, AtRest

\* The three ways a call of acquireIndexLock ends or goes round keep the types.
LEMMA ReturnTypes ==
  ASSUME TypeInv, DiskTypes', ConstantsAssumption,
         NEW p \in Proc, pc[p] # "down", NEW o \in Outcomes, Return(p, o)
  PROVE  TypeInv'
BY DEF DiskTypes, TypeInv, TypeOK, ClaimInDir, FrameOK, AtRest, Return, Drop, ConstantsAssumption

LEMMA TryAgainTypes ==
  ASSUME TypeInv, DiskTypes', ConstantsAssumption,
         NEW p \in Proc, pc[p] # "down", TryAgain(p)
  PROVE  TypeInv'
<1>1. CASE Return(p, "reclaiming")
  BY <1>1, ReturnTypes DEF Outcomes
<1>2. CASE ~Return(p, "reclaiming")
  <2> USE DEF TypeInv, TypeOK, ClaimInDir, FrameOK, AtRest, ConstantsAssumption
  <2>1. PICK t \in Fresh(p) : own' = [own EXCEPT ![p] = t]
    BY <1>2 DEF TryAgain
  <2>2. t \in Token /\ PidOf[t] = p
    BY FreshToken
  <2>3. TypeOK'
    <3>1. own' \in [Proc -> Token \cup {None}] /\ tries' \in [Proc -> 0 .. MaxAttempts - 1]
      BY <1>2, <2>1, <2>2 DEF TryAgain
    <3>2. seen' \in [Proc -> Token \cup {None}] /\ at' \in [Proc -> Token \cup {None}]
      BY <1>2 DEF TryAgain
    <3>3. mark' \in [Proc -> Claim \cup {None}] /\ prize' \in [Proc -> Claim \cup {None}]
      BY <1>2 DEF TryAgain
    <3>4. claims' \in [Proc -> 0 .. 1]
      BY <1>2 DEF TryAgain
    <3>5. pc' \in [Proc -> Steps]
      BY <1>2 DEF TryAgain
    <3> QED
      BY <1>2, <3>1, <3>2, <3>3, <3>4, <3>5 DEF DiskTypes, TryAgain
  <2>4. \A q \in Proc : FrameOK(q)'
    BY <1>2, <2>1, <2>2 DEF TryAgain
  <2> QED
    BY <2>3, <2>4 DEF DiskTypes
<1> QED
  BY <1>1, <1>2

LEMMA ClaimFailsTypes ==
  ASSUME TypeInv, DiskTypes', ConstantsAssumption,
         NEW p \in Proc, pc[p] \in ReclaimSteps, ClaimFails(p)
  PROVE  TypeInv'
<1>1. CASE Return(p, "reclaiming")
  BY <1>1, ReturnTypes DEF Outcomes
<1>2. CASE ~Return(p, "reclaiming")
  <2> USE DEF TypeInv, TypeOK, ClaimInDir, FrameOK, AtRest, ConstantsAssumption
  <2>1. TypeOK'
    BY <1>2 DEF DiskTypes, ClaimFails
  <2>2. \A q \in Proc : FrameOK(q)'
    BY <1>2 DEF ClaimFails
  <2> QED
    BY <2>1, <2>2 DEF DiskTypes
<1> QED
  BY <1>1, <1>2

LEMMA TypingStep == ASSUME ConstantsAssumption, TypeInv, [Next]_vars PROVE TypeInv'
<1> USE DEF ConstantsAssumption, DiskTypes
<1>1. ASSUME NEW p \in Proc, Begin(p) PROVE TypeInv'
  BY <1>1, FreshToken DEF TypeInv, TypeOK, ClaimInDir, FrameOK, AtRest, Begin
<1>2. ASSUME NEW p \in Proc, Publish(p) PROVE TypeInv'
  BY <1>2 DEF TypeInv, TypeOK, ClaimInDir, FrameOK, AtRest, Publish
<1>3. ASSUME NEW p \in Proc, Install(p) PROVE TypeInv'
  <2> USE DEF TypeInv, TypeOK, ClaimInDir, FrameOK, AtRest
  <2>1. TypeOK'
    BY <1>3 DEF Install
  <2>2. ClaimInDir' /\ \A q \in Proc : FrameOK(q)'
    BY <1>3 DEF Install
  <2> QED
    BY <2>1, <2>2
<1>4. ASSUME NEW p \in Proc, Recheck(p) PROVE TypeInv'
  <2>1. DiskTypes' /\ pc[p] # "down"
    BY <1>4 DEF Recheck, TypeInv, TypeOK, ClaimInDir, FrameOK, AtRest, LockDir, Claim, Dir, TryAgain, ClaimFails, Return
  <2>2. CASE Return(p, "fsError")
    BY <2>1, <2>2, ReturnTypes
  <2>3. CASE ~Return(p, "fsError")
    BY <2>1, <2>3, <1>4 DEF TypeInv, TypeOK, ClaimInDir, FrameOK, AtRest, Recheck
  <2> QED
    BY <2>2, <2>3
<1>5. ASSUME NEW p \in Proc, Stat(p) PROVE TypeInv'
  <2>1. DiskTypes' /\ pc[p] # "down"
    BY <1>5 DEF Stat, TypeInv, TypeOK, ClaimInDir, FrameOK, AtRest, LockDir, Claim, Dir, TryAgain, ClaimFails, Return
  <2> QED
    BY <2>1, <1>5, ReturnTypes, TryAgainTypes DEF TypeInv, TypeOK, ClaimInDir, FrameOK, AtRest, Stat, LockDir
<1>6. ASSUME NEW p \in Proc, Read(p) PROVE TypeInv'
  <2>1. DiskTypes' /\ pc[p] # "down"
    BY <1>6 DEF Read, TypeInv, TypeOK, ClaimInDir, FrameOK, AtRest, LockDir, Claim, Dir, TryAgain, ClaimFails, Return
  <2> QED
    BY SMTT(60), <2>1, <1>6, ReturnTypes DEF TypeInv, TypeOK, ClaimInDir, FrameOK, AtRest, Read, LockDir
<1>7. ASSUME NEW p \in Proc, Probe(p) PROVE TypeInv'
  <2>1. DiskTypes' /\ pc[p] # "down"
    BY <1>7 DEF Probe, TypeInv, TypeOK, ClaimInDir, FrameOK, AtRest, LockDir, Claim, Dir, TryAgain, ClaimFails, Return
  <2> QED
    BY <2>1, <1>7, ReturnTypes DEF TypeInv, TypeOK, ClaimInDir, FrameOK, AtRest, Probe
<1>8. ASSUME NEW p \in Proc, ClaimMarker(p) PROVE TypeInv'
  <2>1. DiskTypes' /\ pc[p] # "down"
    BY <1>8 DEF ClaimMarker, TypeInv, TypeOK, ClaimInDir, FrameOK, AtRest, LockDir, Claim, Dir, TryAgain, ClaimFails, Return
  <2>2. CASE ClaimFails(p)
    BY <2>1, <2>2, <1>8, ClaimFailsTypes DEF ClaimMarker
  <2>3. CASE ~ClaimFails(p)
    BY <2>1, <2>3, <1>8 DEF TypeInv, TypeOK, ClaimInDir, FrameOK, AtRest, ClaimMarker, LockDir
  <2> QED
    BY <2>2, <2>3
<1>9. ASSUME NEW p \in Proc, PlaceMarker(p) PROVE TypeInv'
  <2>1. DiskTypes' /\ pc[p] # "down"
    BY <1>9 DEF PlaceMarker, TypeInv, TypeOK, ClaimInDir, FrameOK, AtRest, LockDir, Claim, Dir, TryAgain, ClaimFails, Return
  <2> QED
    <3>1. CASE ClaimFails(p)
      BY <2>1, <3>1, <1>9, ClaimFailsTypes DEF PlaceMarker
    <3>2. CASE ~ClaimFails(p)
      BY <2>1, <3>2, <1>9 DEF TypeInv, TypeOK, ClaimInDir, FrameOK, AtRest, PlaceMarker, DiskTypes
    <3> QED
      BY <3>1, <3>2
<1>10. ASSUME NEW p \in Proc, ReprobeMarker(p) PROVE TypeInv'
  <2>1. DiskTypes' /\ pc[p] # "down"
    BY <1>10 DEF ReprobeMarker, TypeInv, TypeOK, ClaimInDir, FrameOK, AtRest, LockDir, Claim, Dir, TryAgain, ClaimFails, Return
  <2> QED
    BY <2>1, <1>10, ReturnTypes, ClaimFailsTypes DEF TypeInv, TypeOK, ClaimInDir, FrameOK, AtRest, ReprobeMarker
<1>11. ASSUME NEW p \in Proc, InspectMarker(p) PROVE TypeInv'
  <2>1. DiskTypes' /\ pc[p] # "down"
    BY <1>11 DEF InspectMarker, TypeInv, TypeOK, ClaimInDir, FrameOK, AtRest, LockDir, Claim, Dir, TryAgain, ClaimFails, Return
  <2>2. CASE Return(p, "reclaiming")
    BY <2>1, <2>2, ReturnTypes
  <2>3. CASE ~Return(p, "reclaiming")
    <3> USE DEF TypeInv, TypeOK, ClaimInDir, FrameOK, AtRest
    <3>1. TypeOK'
      <4>1. pc' \in [Proc -> Steps]
        BY <2>3, <1>11 DEF InspectMarker
      <4>2. mark' \in [Proc -> Claim \cup {None}]
        BY <2>3, <1>11 DEF InspectMarker
      <4> QED
        BY <4>1, <4>2, <2>3, <1>11 DEF InspectMarker
    <3>2. ClaimInDir' /\ \A q \in Proc : FrameOK(q)'
      BY <2>1, <2>3, <1>11 DEF InspectMarker
    <3> QED
      BY <3>1, <3>2
  <2> QED
    BY <2>2, <2>3
<1>12. ASSUME NEW p \in Proc, SeizeMarker(p) PROVE TypeInv'
  <2>1. DiskTypes' /\ pc[p] # "down"
    BY <1>12 DEF SeizeMarker, TypeInv, TypeOK, ClaimInDir, FrameOK, AtRest, LockDir, Claim, Dir, TryAgain, ClaimFails, Return
  <2>2. CASE Return(p, "reclaiming")
    BY <2>1, <2>2, ReturnTypes
  <2>3. CASE ~Return(p, "reclaiming")
    <3> USE DEF TypeInv, TypeOK, ClaimInDir, FrameOK, AtRest, DiskTypes
    <3>1. TypeOK'
      <4>1. pc' \in [Proc -> Steps]
        BY <2>3, <1>12 DEF SeizeMarker
      <4>2. prize' \in [Proc -> Claim \cup {None}]
        BY <2>3, <1>12 DEF SeizeMarker
      <4>3. at' \in [Proc -> Token \cup {None}]
        BY <2>3, <1>12 DEF SeizeMarker
      <4> QED
        BY <4>1, <4>2, <4>3, <2>1, <2>3, <1>12 DEF SeizeMarker
    <3>2. ClaimInDir' /\ \A q \in Proc : FrameOK(q)'
      BY <2>1, <2>3, <1>12 DEF SeizeMarker
    <3> QED
      BY <3>1, <3>2
  <2> QED
    BY <2>2, <2>3
<1>13. ASSUME NEW p \in Proc, SettleMarker(p) PROVE TypeInv'
  <2> USE DEF TypeInv, TypeOK, ClaimInDir, FrameOK, AtRest
  <2>1. CASE pc' = [pc EXCEPT ![p] = "claim"]
    <3>1. TypeOK'
      <4>1. pc' \in [Proc -> Steps]
        BY <2>1
      <4>2. mark' \in [Proc -> Claim \cup {None}] /\ prize' \in [Proc -> Claim \cup {None}]
        BY <1>13 DEF SettleMarker
      <4>3. at' \in [Proc -> Token \cup {None}] /\ claims' \in [Proc -> 0 .. 1]
        BY <1>13 DEF SettleMarker
      <4> QED
        BY <4>1, <4>2, <4>3, <1>13 DEF SettleMarker
    <3>2. ClaimInDir' /\ \A q \in Proc : FrameOK(q)'
      BY <2>1, <1>13 DEF SettleMarker
    <3> QED
      BY <3>1, <3>2
  <2>2. CASE pc' = [pc EXCEPT ![p] = "restore"]
    <3>1. TypeOK'
      BY <2>2, <1>13 DEF SettleMarker
    <3>2. ClaimInDir' /\ \A q \in Proc : FrameOK(q)'
      BY <2>2, <1>13 DEF SettleMarker
    <3> QED
      BY <3>1, <3>2
  <2> QED
    BY <2>1, <2>2, <1>13 DEF SettleMarker
<1>14. ASSUME NEW p \in Proc, RestoreMarker(p) PROVE TypeInv'
  <2>1. DiskTypes' /\ pc[p] # "down"
    BY <1>14 DEF RestoreMarker, TypeInv, TypeOK, ClaimInDir, FrameOK, AtRest, LockDir, Claim, Dir, TryAgain, ClaimFails, Return
  <2> QED
    BY <2>1, <1>14, ReturnTypes DEF TypeInv, TypeOK, ClaimInDir, FrameOK, AtRest, RestoreMarker
<1>15. ASSUME NEW p \in Proc, ConfirmClaim(p) PROVE TypeInv'
  <2>1. DiskTypes' /\ pc[p] # "down"
    BY <1>15 DEF ConfirmClaim, TypeInv, TypeOK, ClaimInDir, FrameOK, AtRest, LockDir, Claim, Dir, TryAgain, ClaimFails, Return
  <2> QED
    <3>1. CASE Return(p, "reclaiming")
      BY <2>1, <3>1, ReturnTypes
    <3>2. CASE ~Return(p, "reclaiming")
      BY <2>1, <3>2, <1>15 DEF TypeInv, TypeOK, ClaimInDir, FrameOK, AtRest, ConfirmClaim
    <3> QED
      BY <3>1, <3>2
<1>16. ASSUME NEW p \in Proc, MarkRecovery(p) PROVE TypeInv'
  <2>1. DiskTypes' /\ pc[p] # "down"
    <3> USE DEF TypeInv, TypeOK, ClaimInDir
    <3>1. marker' \in [Token -> {"none", "full", "husk"}]
      BY <1>16 DEF MarkRecovery
    <3> QED
      BY <3>1, <1>16 DEF MarkRecovery
  <2> QED
    <3>1. CASE Return(p, "unknownOwner")
      BY <2>1, <3>1, ReturnTypes
    <3>2. CASE ~Return(p, "unknownOwner")
      BY <2>1, <3>2, <1>16 DEF TypeInv, TypeOK, ClaimInDir, FrameOK, AtRest, MarkRecovery
    <3> QED
      BY <3>1, <3>2
<1>17. ASSUME NEW p \in Proc, VerifyClaim(p) PROVE TypeInv'
  <2>1. DiskTypes' /\ pc[p] # "down"
    BY <1>17 DEF VerifyClaim, TypeInv, TypeOK, ClaimInDir, FrameOK, AtRest, LockDir, Claim, Dir, TryAgain, ClaimFails, Return
  <2> QED
    BY <2>1, <1>17, ReturnTypes DEF TypeInv, TypeOK, ClaimInDir, FrameOK, AtRest, VerifyClaim
<1>18. ASSUME NEW p \in Proc, Quarantine(p) PROVE TypeInv'
  <2>1. DiskTypes' /\ pc[p] # "down"
    BY <1>18 DEF Quarantine, TypeInv, TypeOK, ClaimInDir, FrameOK, AtRest, LockDir, Claim, Dir, TryAgain, ClaimFails, Return
  <2> QED
    BY <2>1, <1>18, ReturnTypes, TryAgainTypes DEF TypeInv, TypeOK, ClaimInDir, FrameOK, AtRest, Quarantine
<1>19. ASSUME NEW p \in Proc, Scan(p) PROVE TypeInv'
  <2> USE DEF TypeInv, TypeOK, ClaimInDir, FrameOK, AtRest
  <2>1. CASE pc' = [pc EXCEPT ![p] = "hold"]
    <3>1. TypeOK'
      BY <2>1, <1>19 DEF Scan, Pending
    <3>2. ClaimInDir' /\ \A q \in Proc : FrameOK(q)'
      BY <2>1, <1>19 DEF Scan
    <3> QED
      BY <3>1, <3>2
  <2>2. CASE pc' = [pc EXCEPT ![p] = "release"]
    <3>1. TypeOK'
      <4>1. pc' \in [Proc -> Steps]
        BY <2>2
      <4>2. recov' \in [Proc -> SUBSET Token]
        BY <1>19 DEF Scan, Pending
      <4>3. verdict' \in [Proc -> {"idle", "unknownOwner"}]
        BY <1>19 DEF Scan
      <4> QED
        BY <4>1, <4>2, <4>3, <1>19 DEF Scan
    <3>2. ClaimInDir' /\ \A q \in Proc : FrameOK(q)'
      BY <2>2, <1>19 DEF Scan
    <3> QED
      BY <3>1, <3>2
  <2> QED
    BY <2>1, <2>2, <1>19 DEF Scan
<1>20. ASSUME NEW p \in Proc, Succeed(p) PROVE TypeInv'
  BY <1>20 DEF TypeInv, TypeOK, ClaimInDir, FrameOK, AtRest, Succeed
<1>21. ASSUME NEW p \in Proc, Fail(p) PROVE TypeInv'
  BY <1>21 DEF TypeInv, TypeOK, ClaimInDir, FrameOK, AtRest, Fail
<1>22. ASSUME NEW p \in Proc, Complete(p) PROVE TypeInv'
  BY <1>22 DEF TypeInv, TypeOK, ClaimInDir, FrameOK, AtRest, Complete
<1>23. ASSUME NEW p \in Proc, UnlinkMarker(p) PROVE TypeInv'
  <2> USE DEF TypeInv, TypeOK, ClaimInDir, FrameOK, AtRest
  <2>1. pc' \in [Proc -> Steps]
    BY <1>23 DEF UnlinkMarker
  <2>2. marker' \in [Token -> {"none", "full", "husk"}] /\ at' \in [Proc -> Token \cup {None}]
    <3>1. CASE UNCHANGED <<marker, at>>
      BY <3>1
    <3>2. CASE \E t \in todo[p] : /\ marker' = [marker EXCEPT ![t] = "husk"]
                                  /\ at' = [at EXCEPT ![p] = t]
      <4>1. PICK t \in Token : /\ marker' = [marker EXCEPT ![t] = "husk"]
                               /\ at' = [at EXCEPT ![p] = t]
        BY <3>2
      <4> QED
        BY <4>1
    <3> QED
      BY <3>1, <3>2, <1>23 DEF UnlinkMarker
  <2>3. ClaimInDir' /\ \A q \in Proc : FrameOK(q)'
    BY <1>23 DEF UnlinkMarker
  <2> QED
    BY <2>1, <2>2, <2>3, <1>23 DEF UnlinkMarker
<1>24. ASSUME NEW p \in Proc, RemoveMarker(p) PROVE TypeInv'
  BY <1>24 DEF TypeInv, TypeOK, ClaimInDir, FrameOK, AtRest, RemoveMarker
<1>25. ASSUME NEW p \in Proc, Release(p) PROVE TypeInv'
  <2>1. DiskTypes' /\ pc[p] # "down"
    BY <1>25 DEF Release, TypeInv, TypeOK, ClaimInDir, FrameOK, AtRest, LockDir, Claim, Dir, TryAgain, ClaimFails, Return
  <2> QED
    BY <2>1, <1>25, ReturnTypes DEF TypeInv, TypeOK, ClaimInDir, FrameOK, AtRest, Release, Verdict
<1>26. ASSUME NEW p \in Proc, Detach(p) PROVE TypeInv'
  <2>1. DiskTypes' /\ pc[p] # "down"
    BY <1>26 DEF Detach, TypeInv, TypeOK, ClaimInDir, FrameOK, AtRest, LockDir, Claim, Dir, TryAgain, ClaimFails, Return
  <2> QED
    BY SMTT(60), <2>1, <1>26, ReturnTypes DEF TypeInv, TypeOK, ClaimInDir, FrameOK, AtRest, Detach, LockDir, Dir
<1>27. ASSUME NEW p \in Proc, CheckTomb(p) PROVE TypeInv'
  <2>1. DiskTypes' /\ pc[p] # "down"
    BY <1>27 DEF CheckTomb, TypeInv, TypeOK, ClaimInDir, FrameOK, AtRest, LockDir, Claim, Dir, TryAgain, ClaimFails, Return
  <2> QED
    BY <2>1, <1>27, ReturnTypes DEF TypeInv, TypeOK, ClaimInDir, FrameOK, AtRest, CheckTomb, Dir, Verdict
<1>28. ASSUME NEW p \in Proc, Crash(p) PROVE TypeInv'
  <2> USE DEF TypeInv, TypeOK, ClaimInDir, FrameOK, AtRest
  <2>1. TypeOK'
    <3>1. unrecovered' \subseteq Token
      <4>1. unrecovered \subseteq Token /\ (pc[p] = "hold" => own[p] \in Token)
        OBVIOUS
      <4>2. unrecovered' = unrecovered \/ (pc[p] = "hold" /\ unrecovered' = unrecovered \cup {own[p]})
        BY <1>28 DEF Crash
      <4> QED
        BY <4>1, <4>2
    <3>2. pc' \in [Proc -> Steps]
      BY <1>28 DEF Crash
    <3>3. alive' \in [Proc -> BOOLEAN]
      BY Zenon, <1>28 DEF Crash
    <3>4. /\ own' \in [Proc -> Token \cup {None}]
          /\ seen' \in [Proc -> Token \cup {None}]
          /\ tries' \in [Proc -> 0 .. MaxAttempts - 1]
          /\ claims' \in [Proc -> 0 .. 1]
          /\ at' \in [Proc -> Token \cup {None}]
      BY <1>28 DEF Crash, Drop, ConstantsAssumption
    <3>5. /\ mark' \in [Proc -> Claim \cup {None}]
          /\ prize' \in [Proc -> Claim \cup {None}]
          /\ recov' \in [Proc -> SUBSET Token]
          /\ verdict' \in [Proc -> {"idle", "unknownOwner"}]
          /\ todo' \in [Proc -> SUBSET Token]
          /\ tomb' \in [Proc -> Dir \cup {None}]
      BY <1>28 DEF Crash, Drop
    <3> QED
      BY <3>1, <3>2, <3>3, <3>4, <3>5, <1>28 DEF Crash
  <2>2. ClaimInDir' /\ \A q \in Proc : FrameOK(q)'
    BY <1>28 DEF Crash, Drop
  <2> QED
    BY <2>1, <2>2
<1>29. ASSUME NEW p \in Proc, Restart(p) PROVE TypeInv'
  BY <1>29 DEF TypeInv, TypeOK, ClaimInDir, FrameOK, AtRest, Restart
<1>30. CASE UNCHANGED vars
  BY <1>30 DEF TypeInv, TypeOK, ClaimInDir, FrameOK, AtRest, vars
<1> QED
  BY <1>1, <1>2, <1>3, <1>4, <1>5, <1>6, <1>7, <1>8, <1>9, <1>10, <1>11, <1>12, <1>13, <1>14, <1>15, <1>16, <1>17, <1>18, <1>19, <1>20, <1>21, <1>22, <1>23, <1>24, <1>25, <1>26, <1>27, <1>28, <1>29, <1>30 DEF Next, Proceed, Acquiring, Reclaiming, Leasing

\* Every state keeps its type, whatever dies and whenever.
THEOREM Typing == ASSUME ConstantsAssumption PROVE Spec => []TypeOK
<1>1. Init => TypeInv
  BY TypingInit
<1>2. TypeInv /\ [Next]_vars => TypeInv'
  BY TypingStep
<1>3. TypeInv => TypeOK
  BY DEF TypeInv
<1> QED
  BY <1>1, <1>2, <1>3, PTL DEF Spec

-----------------------------------------------------------------------------
\* What one step of a process does, seen from the invariant.

\* The frames of every other process are left alone; nobody comes to life.
OthersKept(p) ==
  /\ \A q \in Proc \ {p} :
       /\ pc'[q] = pc[q] /\ own'[q] = own[q] /\ seen'[q] = seen[q]
       /\ recov'[q] = recov[q] /\ todo'[q] = todo[q] /\ tomb'[q] = tomb[q]
  /\ \A q \in Proc : alive'[q] => alive[q]

\* The ways the lock and the claim in it change.
LockEffect(p) ==
  \/ UNCHANGED <<lock, reclaim>>
  \/ pc[p] = "install" /\ lock = None /\ lock' = own[p] /\ UNCHANGED reclaim
       /\ pc'[p] = "scan"
  \/ pc[p] = "place" /\ UNCHANGED lock /\ reclaim = None
       /\ reclaim' = [by |-> own[p], expect |-> seen[p]]
       /\ pc'[p] = "confirm"
  \/ pc[p] \in {"quarantine", "detach"} /\ lock' = None /\ reclaim' = None
  \/ pc[p] \in {"seize", "restore"}
  \/ pc[p] = "check" /\ tomb[p].owner # own[p]

\* The ways the recovery markers change.
MarkerEffect(p) ==
  \/ UNCHANGED marker
  \/ pc[p] = "mark" /\ pc'[p] = "verify"
       /\ marker' = [marker EXCEPT ![seen[p]] = "full"]
  \/ pc[p] = "unlink" /\ \E t \in todo[p] : marker' = [marker EXCEPT ![t] = "husk"]
  \/ pc[p] = "rmdir" /\ marker' = [marker EXCEPT ![at[p]] = "none"]

\* The ways the history of unrepaired work changes.
HistoryEffect(p) ==
  \/ UNCHANGED unrecovered
  \/ pc[p] = "hold" /\ pc'[p] = "complete" /\ unrecovered' = unrecovered \ recov[p]
  \/ pc[p] = "hold" /\ ~alive'[p] /\ unrecovered' = unrecovered \cup {own[p]}

\* How a process comes to, and goes on from, the steps the invariant names.
ReclaimMoves(p) ==
  /\ pc'[p] \in ReclaimSteps =>
       /\ own'[p] = own[p] /\ seen'[p] = seen[p]
       /\ pc[p] \in ReclaimSteps \/ Dead(p, seen[p])
  /\ pc'[p] = "seize" =>
       /\ lock = seen[p] /\ reclaim # None /\ reclaim.expect = lock
       /\ Dead(p, reclaim.by)
  /\ pc'[p] = "settle" => pc[p] = "seize"
  /\ pc'[p] = "restore" => pc[p] = "settle"
  /\ pc'[p] = "confirm" => pc[p] = "place"
  /\ pc'[p] = "mark" => pc[p] = "confirm" /\ ClaimStands(p)
  /\ pc'[p] = "verify" => pc[p] = "mark" /\ marker' = [marker EXCEPT ![seen[p]] = "full"]
  /\ pc'[p] = "quarantine" => pc[p] = "verify"
  /\ pc[p] = "confirm" => pc'[p] = "mark" \/ ~ClaimStands(p)
  /\ pc[p] = "mark" => pc'[p] = "verify" \/ marker[seen[p]] = "husk"
  /\ pc[p] = "verify" => pc'[p] = "quarantine" \/ ~ClaimStands(p)
  /\ pc[p] = "quarantine" => lock = None \/ lock' = None

LeaseMoves(p) ==
  /\ pc'[p] \in LeaseSteps =>
       /\ own'[p] = own[p]
       /\ pc[p] \in LeaseSteps \/ (pc[p] = "install" /\ lock' = own[p])
  /\ pc'[p] = "check" => pc[p] = "detach" /\ own'[p] = own[p] /\ tomb'[p].owner = lock
  /\ pc'[p] = "hold" =>
       /\ pc[p] = "scan" /\ recov'[p] = Pending
       /\ \A t \in Pending : marker[t] = "full" /\ Dead(p, t)
       /\ UNCHANGED unrecovered
  /\ pc'[p] = "complete" => pc[p] = "hold" /\ unrecovered' = unrecovered \ recov[p]
  /\ pc'[p] = "unlink" => pc[p] \in {"complete", "rmdir"} /\ UNCHANGED unrecovered
  /\ pc'[p] = "rmdir" => pc[p] = "unlink" /\ UNCHANGED unrecovered
  /\ pc[p] = "detach" => pc'[p] \notin LeaseSteps
  /\ \A t \in recov'[p] : t \in recov[p] \/ Dead(p, t)
  /\ todo'[p] \subseteq todo[p] \cup recov[p]

Effect(p) ==
  OthersKept(p) /\ LockEffect(p) /\ MarkerEffect(p) /\ HistoryEffect(p)
    /\ ReclaimMoves(p) /\ LeaseMoves(p)

LEMMA StepEffect ==
  ASSUME ConstantsAssumption, HolderFaults, TypeInv, [Next]_vars
  PROVE  \/ \E p \in Proc : Effect(p)
         \/ UNCHANGED vars
<1> USE DEF TypeInv, TypeOK, FrameOK, AtRest, Effect, OthersKept, LockEffect,
            MarkerEffect, HistoryEffect, ReclaimMoves, LeaseMoves
<1>1. ASSUME NEW p \in Proc, Begin(p) PROVE Effect(p)
  BY <1>1 DEF Begin
<1>2. ASSUME NEW p \in Proc, Publish(p) PROVE Effect(p)
  BY <1>2 DEF Publish
<1>3. ASSUME NEW p \in Proc, Install(p) PROVE Effect(p)
  BY <1>3 DEF Install
<1>4. ASSUME NEW p \in Proc, Recheck(p) PROVE Effect(p)
  BY <1>4 DEF Recheck, Return, Drop
<1>5. ASSUME NEW p \in Proc, Stat(p) PROVE Effect(p)
  BY <1>5 DEF Stat, TryAgain, LockDir, Return, Drop
<1>6. ASSUME NEW p \in Proc, Read(p) PROVE Effect(p)
  BY <1>6 DEF Read, LockDir, Return, Drop
<1>7. ASSUME NEW p \in Proc, Probe(p) PROVE Effect(p)
  BY <1>7 DEF Probe, Return, Drop
<1>8. ASSUME NEW p \in Proc, ClaimMarker(p) PROVE Effect(p)
  BY <1>8 DEF ClaimMarker, ClaimFails, Return, Drop, LockDir
<1>9. ASSUME NEW p \in Proc, PlaceMarker(p) PROVE Effect(p)
  BY <1>9 DEF PlaceMarker, ClaimFails, Return, Drop
<1>10. ASSUME NEW p \in Proc, ReprobeMarker(p) PROVE Effect(p)
  BY <1>10 DEF ReprobeMarker, ClaimFails, Return, Drop
<1>11. ASSUME NEW p \in Proc, InspectMarker(p) PROVE Effect(p)
  BY <1>11 DEF InspectMarker, Return, Drop
<1>12. ASSUME NEW p \in Proc, SeizeMarker(p) PROVE Effect(p)
  BY <1>12 DEF SeizeMarker, Return, Drop
<1>13. ASSUME NEW p \in Proc, SettleMarker(p) PROVE Effect(p)
  BY <1>13 DEF SettleMarker
<1>14. ASSUME NEW p \in Proc, RestoreMarker(p) PROVE Effect(p)
  BY <1>14 DEF RestoreMarker, Return, Drop
<1>15. ASSUME NEW p \in Proc, ConfirmClaim(p) PROVE Effect(p)
  BY <1>15 DEF ConfirmClaim, Return, Drop
<1>16. ASSUME NEW p \in Proc, MarkRecovery(p) PROVE Effect(p)
  BY <1>16 DEF MarkRecovery, Return, Drop
<1>17. ASSUME NEW p \in Proc, VerifyClaim(p) PROVE Effect(p)
  BY <1>17 DEF VerifyClaim, Return, Drop
<1>18. ASSUME NEW p \in Proc, Quarantine(p) PROVE Effect(p)
  BY <1>18 DEF Quarantine, TryAgain, Return, Drop
<1>19. ASSUME NEW p \in Proc, Scan(p) PROVE Effect(p)
  BY <1>19 DEF Scan
<1>20. ASSUME NEW p \in Proc, Succeed(p) PROVE Effect(p)
  BY <1>20 DEF Succeed
<1>21. ASSUME NEW p \in Proc, Fail(p) PROVE Effect(p)
  BY <1>21 DEF Fail
<1>22. ASSUME NEW p \in Proc, Complete(p) PROVE Effect(p)
  BY <1>22 DEF Complete
<1>23. ASSUME NEW p \in Proc, UnlinkMarker(p) PROVE Effect(p)
  BY <1>23 DEF UnlinkMarker
<1>24. ASSUME NEW p \in Proc, RemoveMarker(p) PROVE Effect(p)
  BY <1>24 DEF RemoveMarker
<1>25. ASSUME NEW p \in Proc, Release(p) PROVE Effect(p)
  BY <1>25 DEF Release, Verdict, Return, Drop
<1>26. ASSUME NEW p \in Proc, Detach(p) PROVE Effect(p)
  BY <1>26 DEF Detach, LockDir, Verdict, Return, Drop
<1>27. ASSUME NEW p \in Proc, CheckTomb(p) PROVE Effect(p)
  BY <1>27 DEF CheckTomb, Verdict, Return, Drop
<1>28. ASSUME NEW p \in Proc, Crash(p) PROVE Effect(p)
  BY <1>28 DEF Crash, Drop, HolderFaults
<1>29. ASSUME NEW p \in Proc, Restart(p) PROVE FALSE
  BY <1>29 DEF Restart, HolderFaults
<1> HIDE DEF TypeInv, TypeOK, FrameOK, AtRest, Effect, OthersKept, LockEffect,
             MarkerEffect, HistoryEffect, ReclaimMoves, LeaseMoves
<1> QED
  BY <1>1, <1>2, <1>3, <1>4, <1>5, <1>6, <1>7, <1>8, <1>9, <1>10, <1>11, <1>12, <1>13, <1>14, <1>15, <1>16, <1>17, <1>18, <1>19, <1>20, <1>21, <1>22, <1>23, <1>24, <1>25, <1>26, <1>27, <1>28, <1>29 DEF Next, Proceed, Acquiring, Reclaiming, Leasing

-----------------------------------------------------------------------------
\* The invariant is inductive: one lemma per conjunct.

\* The owner token of a process in the middle of a call is that of a live pid.
LEMMA OwnAlive ==
  ASSUME ConstantsAssumption, TypeInv, NEW q \in Proc, ~AtRest(q)
  PROVE  own[q] \in Token /\ PidOf[own[q]] = q /\ alive[PidOf[own[q]]]
BY DEF TypeInv, FrameOK, AtRest

LEMMA DeadTokensStep ==
  ASSUME ConstantsAssumption, LeaseInv, TypeInv', NEW p \in Proc, Effect(p)
  PROVE  DeadTokens'
<1> USE DEF DeadTokens, Dead, SameHost, LeaseInv, Effect, OthersKept
<1>1. ASSUME NEW q \in Proc, pc'[q] \in ReclaimSteps PROVE Dead(q, seen[q])' 
  BY <1>1 DEF ReclaimMoves, TypeInv, TypeOK, FrameOK
<1>2. ASSUME NEW q \in Proc, NEW t \in recov'[q] \cup todo'[q] PROVE ~alive'[PidOf[t]]
  <2>1. t \in Token
    BY <1>2 DEF TypeInv, TypeOK
  <2>2. ~alive[PidOf[t]]
    BY <1>2 DEF LeaseMoves
  <2> QED
    BY <2>1, <2>2 DEF ConstantsAssumption
<1>3. ASSUME NEW t \in Token, marker'[t] # "none" PROVE ~alive'[PidOf[t]]
  <2>1. CASE marker[t] # "none"
    BY <2>1 DEF ConstantsAssumption
  <2>2. CASE pc[p] = "mark" /\ t = seen[p]
    BY <2>2 DEF ConstantsAssumption
  <2>3. CASE pc[p] = "unlink" /\ t \in todo[p]
    BY <2>3 DEF ConstantsAssumption
  <2> QED
    BY <1>3, <2>1, <2>2, <2>3 DEF MarkerEffect, TypeInv, TypeOK
<1>4. ASSUME NEW t \in unrecovered' PROVE ~alive'[PidOf[t]]
  <2>1. CASE t \in unrecovered
    BY <2>1 DEF ConstantsAssumption, TypeInv, TypeOK
  <2>2. CASE pc[p] = "hold" /\ ~alive'[p] /\ t = own[p]
    BY <2>2, OwnAlive DEF AtRest
  <2> QED
    BY <1>4, <2>1, <2>2 DEF HistoryEffect
<1> QED
  BY <1>1, <1>2, <1>3, <1>4

LEMMA NoSeizureStep ==
  ASSUME ConstantsAssumption, LeaseInv, TypeInv', NEW p \in Proc, Effect(p)
  PROVE  NoSeizure'
<1>1. ASSUME pc'[p] = "seize" PROVE FALSE
  <2>1. reclaim \in Claim /\ reclaim.expect = lock /\ Dead(p, reclaim.by)
    BY <1>1 DEF Effect, ReclaimMoves, LeaseInv, TypeInv, TypeOK
  <2>2. PidOf[reclaim.by] \in Proc /\ ~alive[PidOf[reclaim.by]]
    BY <2>1 DEF Claim, Dead, ConstantsAssumption
  <2>3. pc[PidOf[reclaim.by]] \in Standing \cup {"confirm"}
    BY <1>1, <2>1 DEF LeaseInv, ClaimLive, Effect, ReclaimMoves
  <2> QED
    BY <2>2, <2>3 DEF LeaseInv, TypeInv, FrameOK, Standing
<1> QED
  BY <1>1 DEF NoSeizure, LeaseInv, Effect, OthersKept, ReclaimMoves

\* Once seizures and foreign tombstones are excluded, four ways are left.
LEMMA LockMoves ==
  ASSUME ConstantsAssumption, LeaseInv, TypeInv', NEW p \in Proc, Effect(p)
  PROVE  \/ UNCHANGED <<lock, reclaim>>
         \/ pc[p] = "install" /\ lock = None /\ lock' = own[p] /\ UNCHANGED reclaim
              /\ pc'[p] = "scan"
         \/ pc[p] = "place" /\ UNCHANGED lock /\ reclaim = None
              /\ reclaim' = [by |-> own[p], expect |-> seen[p]] /\ pc'[p] = "confirm"
         \/ pc[p] = "quarantine" /\ lock' = None /\ reclaim' = None /\ lock = seen[p]
              /\ ~alive[PidOf[lock]] /\ reclaim = [by |-> own[p], expect |-> seen[p]]
         \/ pc[p] = "detach" /\ lock' = None /\ reclaim' = None /\ lock = own[p]
BY DEF LeaseInv, Effect, LockEffect, NoSeizure, OwnTomb, ClaimKept, Standing,
       LiveLeaseInPlace, Holds, DeadTokens, Dead

LEMMA LiveLeaseStep ==
  ASSUME ConstantsAssumption, LeaseInv, TypeInv', NEW p \in Proc, Effect(p)
  PROVE  LiveLeaseInPlace'
<1> SUFFICES ASSUME NEW q \in Proc, pc'[q] \in LeaseSteps PROVE lock' = own'[q]
  BY DEF LiveLeaseInPlace, Holds
<1>1. CASE q = p
  BY <1>1, LockMoves DEF Effect, LeaseMoves, LeaseInv, LiveLeaseInPlace, Holds
<1>2. CASE q # p
  <2>1. lock = own[q] /\ own'[q] = own[q] /\ ~AtRest(q)
    BY <1>2 DEF Effect, OthersKept, LeaseInv, LiveLeaseInPlace, Holds, AtRest
  <2>2. own[q] \in Token /\ PidOf[own[q]] = q /\ alive[PidOf[own[q]]]
    BY <2>1, OwnAlive DEF LeaseInv
  <2>3. pc[p] = "detach" => PidOf[own[p]] = p
    BY OwnAlive DEF LeaseInv, AtRest
  <2> QED
    BY <1>2, <2>1, <2>2, <2>3, LockMoves DEF ConstantsAssumption
<1> QED
  BY <1>1, <1>2

LEMMA ClaimLiveStep ==
  ASSUME ConstantsAssumption, LeaseInv, TypeInv', NEW p \in Proc, Effect(p)
  PROVE  ClaimLive'
<1> SUFFICES ASSUME reclaim' # None, reclaim'.expect = lock'
             PROVE  LET q == PidOf[reclaim'.by]
                    IN own'[q] = reclaim'.by /\ seen'[q] = lock'
                         /\ pc'[q] \in Standing \cup {"confirm"}
  BY DEF ClaimLive
<1> DEFINE q == PidOf[reclaim.by]
<1>1. CASE UNCHANGED <<lock, reclaim>>
  <2>1. own[q] = reclaim.by /\ seen[q] = lock /\ pc[q] \in Standing \cup {"confirm"} /\ q \in Proc
    BY <1>1 DEF LeaseInv, ClaimLive, TypeInv, TypeOK, Claim, ConstantsAssumption
  <2>2. CASE q # p
    BY <1>1, <2>1, <2>2 DEF Effect, OthersKept
  <2>3. CASE q = p
    <3>1. reclaim = [by |-> own[p], expect |-> seen[p]]
      BY <1>1, <2>1, <2>3 DEF LeaseInv, TypeInv, TypeOK, Claim
    <3>2. ClaimStands(p)
      BY <3>1, <2>1, <2>3, <1>1
      DEF ClaimStands, LockDir, LeaseInv, TypeInv, ClaimInDir, DeadTokens, Standing
    <3>3. pc[p] = "mark" => marker[seen[p]] # "husk"
      <4> SUFFICES ASSUME pc[p] = "mark", marker[seen[p]] = "husk" PROVE FALSE
        OBVIOUS
      <4>1. PICK r \in Proc : pc[r] \in {"verify", "quarantine"} /\ seen[r] = lock
        BY <2>1, <2>3, <3>2 DEF LeaseInv, MarkerOfLock, ClaimStands, LockDir
      <4>2. own[r] = own[p]
        BY <4>1, <3>1 DEF LeaseInv, ClaimKept, Standing
      <4> QED
        BY <4>1, <4>2, OwnAlive DEF LeaseInv, AtRest
    <3>4. pc'[p] \in Standing
      BY <3>2, <3>3, <2>1, <2>3, <1>1, LockMoves DEF Effect, ReclaimMoves, Standing, ClaimStands, LockDir, ConstantsAssumption
    <3> QED
      BY <3>4, <2>1, <2>3, <1>1 DEF Effect, ReclaimMoves, Standing
  <2> QED
    BY <2>2, <2>3
<1>2. CASE pc[p] = "install" /\ lock = None /\ UNCHANGED reclaim
  BY <1>2 DEF LeaseInv, TypeInv, ClaimInDir, ConstantsAssumption
<1>3. CASE /\ pc[p] = "place" /\ UNCHANGED lock
           /\ reclaim' = [by |-> own[p], expect |-> seen[p]] /\ pc'[p] = "confirm"
  <2>1. PidOf[own[p]] = p
    BY <1>3, OwnAlive DEF LeaseInv, AtRest
  <2> QED
    BY <1>3, <2>1 DEF Effect, ReclaimMoves
<1> QED
  BY <1>1, <1>2, <1>3, LockMoves

LEMMA ClaimKeptStep ==
  ASSUME ConstantsAssumption, LeaseInv, TypeInv', NEW p \in Proc, Effect(p)
  PROVE  ClaimKept'
<1> SUFFICES ASSUME NEW q \in Proc, pc'[q] \in Standing
             PROVE  lock' = seen'[q] /\ reclaim' = [by |-> own'[q], expect |-> seen'[q]]
  BY DEF ClaimKept
<1>1. /\ own'[q] = own[q] /\ seen'[q] = seen[q]
      /\ lock = seen[q] /\ reclaim = [by |-> own[q], expect |-> seen[q]]
  <2>1. CASE q = p
    BY <2>1 DEF Effect, ReclaimMoves, LeaseInv, ClaimKept, Standing, ClaimStands
  <2>2. CASE q # p
    BY <2>2 DEF Effect, OthersKept, LeaseInv, ClaimKept
  <2> QED
    BY <2>1, <2>2
<1>2. UNCHANGED <<lock, reclaim>>
  <2>1. ~AtRest(q) /\ pc[q] \in ReclaimSteps
    BY DEF Effect, ReclaimMoves, OthersKept, Standing, AtRest
  <2>2. seen[q] \in Token /\ ~alive[PidOf[seen[q]]]
    BY <2>1 DEF LeaseInv, TypeInv, FrameOK, DeadTokens, Dead
  <2>3. pc[p] = "quarantine" => p = q
    <3>1. pc[p] = "quarantine" => reclaim = [by |-> own[p], expect |-> seen[p]]
      BY DEF LeaseInv, ClaimKept, Standing
    <3>2. pc[p] = "quarantine" => own[p] = own[q]
      BY <3>1, <1>1
    <3>3. pc[p] = "quarantine" => PidOf[own[p]] = p
      BY OwnAlive DEF LeaseInv, AtRest
    <3>4. PidOf[own[q]] = q
      BY <2>1, OwnAlive DEF LeaseInv
    <3> QED
      BY <3>2, <3>3, <3>4
  <2>4. pc[q] = "quarantine" => q # p
    BY DEF Effect, ReclaimMoves, Standing
  <2>5. pc[p] = "detach" => alive[PidOf[own[p]]]
    BY OwnAlive DEF LeaseInv, AtRest
  <2>6. own[q] \in Token /\ reclaim # None
    BY <1>1, <2>1, <2>2, OwnAlive, NoClaimAssumption DEF LeaseInv, Claim
  <2>7. pc[p] # "detach"
    BY <1>1, <2>2, <2>5, LockMoves DEF LeaseInv, LiveLeaseInPlace, Holds
  <2> QED
    BY <1>1, <2>2, <2>3, <2>4, <2>6, <2>7, LockMoves DEF ConstantsAssumption
<1> QED
  BY <1>1, <1>2

\* A holder's own lock is in place, and it is the lock of a live process.
LEMMA HolderLock ==
  ASSUME ConstantsAssumption, LeaseInv, NEW q \in Proc, pc[q] \in LeaseSteps
  PROVE  lock = own[q] /\ lock \in Token /\ PidOf[lock] = q /\ alive[PidOf[lock]]
<1>1. ~AtRest(q)
  BY DEF AtRest
<1>2. own[q] \in Token /\ PidOf[own[q]] = q /\ alive[PidOf[own[q]]]
  BY <1>1, OwnAlive DEF LeaseInv
<1> QED
  BY <1>2 DEF LeaseInv, LiveLeaseInPlace, Holds

\* A process about to take the lock away has the claim, and the lock is dead.
LEMMA StandingLock ==
  ASSUME ConstantsAssumption, LeaseInv, NEW q \in Proc, pc[q] \in Standing
  PROVE  ClaimStands(q) /\ lock \in Token /\ lock = seen[q] /\ ~alive[PidOf[lock]]
<1>1. pc[q] \in ReclaimSteps
  BY DEF Standing
<1>2. lock = seen[q] /\ reclaim = [by |-> own[q], expect |-> seen[q]]
  BY DEF LeaseInv, ClaimKept
<1>3. seen[q] \in Token /\ Dead(q, seen[q])
  BY <1>1 DEF LeaseInv, TypeInv, FrameOK, DeadTokens
<1> QED
  BY <1>2, <1>3 DEF ClaimStands, LockDir, Dead

LEMMA MarkerOfLockStep ==
  ASSUME ConstantsAssumption, LeaseInv, TypeInv', NEW p \in Proc, Effect(p)
  PROVE  MarkerOfLock'
<1>1. ASSUME NEW q \in Proc, pc'[q] \in {"verify", "quarantine"}
      PROVE  marker'[seen'[q]] = "full"
  <2>1. CASE q = p
    <3>1. seen'[p] = seen[p] /\ seen[p] \in Token
      BY <1>1, <2>1 DEF Effect, ReclaimMoves, LeaseInv, TypeInv, FrameOK
    <3>2. CASE pc'[p] = "verify"
      BY <2>1, <3>1, <3>2 DEF Effect, ReclaimMoves, LeaseInv, TypeInv, TypeOK
    <3>3. CASE pc'[p] = "quarantine"
      BY <2>1, <3>1, <3>3 DEF Effect, ReclaimMoves, MarkerEffect, LeaseInv, MarkerOfLock
    <3> QED
      BY <1>1, <2>1, <3>2, <3>3
  <2>2. CASE q # p
    <3>1. pc[q] \in {"verify", "quarantine"} /\ seen'[q] = seen[q]
      BY <1>1, <2>2 DEF Effect, OthersKept
    <3>2. marker[seen[q]] = "full"
      BY <3>1 DEF LeaseInv, MarkerOfLock
    <3>3. pc[p] \notin {"unlink", "rmdir"}
      BY <3>1, HolderLock, StandingLock DEF Standing
    <3>4. seen[q] \in Token
      BY <3>1 DEF LeaseInv, TypeInv, FrameOK
    <3> QED
      BY <3>1, <3>2, <3>3, <3>4 DEF Effect, MarkerEffect, LeaseInv, TypeInv, TypeOK
  <2> QED
    BY <2>1, <2>2
<1>2. ASSUME NEW t \in Token, lock' = t, marker'[t] # "none"
      PROVE  \E r \in Proc : pc'[r] \in {"verify", "quarantine"} /\ seen'[r] = t
  <2>1. lock = t
    <3>1. CASE pc[p] = "install" /\ lock' = own[p]
      <4>1. PidOf[own[p]] = p /\ alive[PidOf[own[p]]]
        BY <3>1, OwnAlive DEF LeaseInv, AtRest
      <4>2. marker[t] # "none"
        BY <1>2, <3>1 DEF Effect, MarkerEffect
      <4> QED
        BY <1>2, <3>1, <4>1, <4>2 DEF LeaseInv, DeadTokens
    <3>2. CASE lock' = None
      BY <1>2, <3>2 DEF ConstantsAssumption
    <3> QED
      BY <1>2, <3>1, <3>2, LockMoves
  <2>2. CASE marker[t] # "none"
    <3>1. PICK r \in Proc : pc[r] \in {"verify", "quarantine"} /\ seen[r] = t
      BY <2>1, <2>2 DEF LeaseInv, MarkerOfLock
    <3>2. CASE r # p
      BY <3>1, <3>2 DEF Effect, OthersKept
    <3>3. CASE r = p
      <4>1. ClaimStands(p)
        BY <3>1, <3>3, StandingLock DEF Standing
      <4>2. pc[p] # "quarantine"
        BY <2>1, <1>2 DEF Effect, ReclaimMoves, ConstantsAssumption
      <4>3. pc[p] = "verify" /\ seen[p] = t
        BY <3>1, <3>3, <4>2
      <4>4. pc'[p] = "quarantine"
        BY <4>1, <4>3 DEF Effect, ReclaimMoves
      <4>5. seen'[p] = seen[p]
        BY <4>4 DEF Effect, ReclaimMoves
      <4> QED
        BY <4>3, <4>4, <4>5
    <3> QED
      BY <3>2, <3>3
  <2>3. CASE marker[t] = "none"
    <3>1. pc[p] # "unlink" \/ t \notin todo[p]
      BY <2>1, HolderLock DEF LeaseInv, DeadTokens
    <3>2. pc[p] = "mark" /\ pc'[p] = "verify" /\ t = seen[p]
      BY <1>2, <2>3, <3>1 DEF Effect, MarkerEffect, LeaseInv, TypeInv, TypeOK
    <3> QED
      BY <3>2 DEF Effect, ReclaimMoves
  <2> QED
    BY <2>2, <2>3
<1> QED
  BY <1>1, <1>2 DEF MarkerOfLock

LEMMA OwnTombStep ==
  ASSUME ConstantsAssumption, LeaseInv, TypeInv', NEW p \in Proc, Effect(p)
  PROVE  OwnTomb'
<1>1. pc[p] = "detach" => lock = own[p]
  BY HolderLock
<1> QED
  BY <1>1 DEF OwnTomb, LeaseInv, Effect, OthersKept, LeaseMoves

LEMMA CrashRememberedStep ==
  ASSUME ConstantsAssumption, LeaseInv, TypeInv', NEW p \in Proc, Effect(p)
  PROVE  CrashRemembered'
<1> SUFFICES ASSUME NEW t \in unrecovered' PROVE lock' = t \/ marker'[t] = "full"
  BY DEF CrashRemembered
<1>1. CASE t \in unrecovered
  <2>1. t \in Token /\ ~alive[PidOf[t]]
    BY <1>1 DEF LeaseInv, TypeInv, TypeOK, DeadTokens
  <2>2. pc[p] \notin {"unlink", "rmdir"}
    BY <1>1 DEF LeaseInv, Repaired
  <2>3. CASE marker[t] = "full"
    BY <2>1, <2>2, <2>3 DEF Effect, MarkerEffect, LeaseInv, TypeInv, TypeOK
  <2>4. CASE lock = t
    <3>1. CASE pc[p] = "quarantine"
      BY <3>1, <2>1, <2>4, StandingLock DEF Effect, MarkerEffect, LeaseInv, MarkerOfLock, Standing
    <3>2. CASE pc[p] = "detach"
      BY <3>2, <2>1, <2>4, HolderLock
    <3> QED
      BY <3>1, <3>2, <2>1, <2>4, LockMoves DEF ConstantsAssumption
  <2> QED
    BY <1>1, <2>3, <2>4 DEF LeaseInv, CrashRemembered
<1>2. CASE pc[p] = "hold" /\ t = own[p]
  BY <1>2, HolderLock, LockMoves
<1> QED
  BY <1>1, <1>2 DEF Effect, HistoryEffect

LEMMA WriterKnowsCrashesStep ==
  ASSUME ConstantsAssumption, LeaseInv, TypeInv', NEW p \in Proc, Effect(p)
  PROVE  WriterKnowsCrashes'
<1> SUFFICES ASSUME NEW q \in Proc, pc'[q] = "hold" PROVE unrecovered' \subseteq recov'[q]
  BY DEF WriterKnowsCrashes
<1>1. CASE q = p
  <2>1. pc[p] = "scan" /\ recov'[p] = Pending /\ UNCHANGED unrecovered
    BY <1>1 DEF Effect, LeaseMoves
  <2>2. ASSUME NEW t \in unrecovered PROVE t \in Pending
    <3>1. t \in Token /\ lock # t
      BY <2>1, <2>2, HolderLock DEF LeaseInv, TypeInv, TypeOK, DeadTokens
    <3> QED
      BY <3>1, <2>2 DEF LeaseInv, CrashRemembered, Pending
  <2> QED
    BY <1>1, <2>1, <2>2
<1>2. CASE q # p
  <2>1. pc[q] = "hold" /\ recov'[q] = recov[q]
    BY <1>2 DEF Effect, OthersKept
  <2>2. pc[p] # "hold"
    BY <1>2, <2>1, HolderLock
  <2> QED
    BY <2>1, <2>2 DEF Effect, HistoryEffect, LeaseInv, WriterKnowsCrashes
<1> QED
  BY <1>1, <1>2

LEMMA RepairedStep ==
  ASSUME ConstantsAssumption, LeaseInv, TypeInv', NEW p \in Proc, Effect(p)
  PROVE  Repaired'
<1> SUFFICES ASSUME NEW q \in Proc, pc'[q] \in {"complete", "unlink", "rmdir"}
             PROVE  unrecovered' = {}
  BY DEF Repaired
<1>1. CASE q = p
  <2>1. CASE pc'[p] = "complete"
    BY <2>1 DEF Effect, LeaseMoves, LeaseInv, WriterKnowsCrashes
  <2>2. CASE pc'[p] \in {"unlink", "rmdir"}
    BY <2>2 DEF Effect, LeaseMoves, LeaseInv, Repaired
  <2> QED
    BY <1>1, <2>1, <2>2
<1>2. CASE q # p
  <2>1. pc[q] \in {"complete", "unlink", "rmdir"}
    BY <1>2 DEF Effect, OthersKept
  <2>2. pc[p] # "hold"
    BY <1>2, <2>1, HolderLock
  <2> QED
    BY <2>1, <2>2 DEF Effect, HistoryEffect, LeaseInv, Repaired
<1> QED
  BY <1>1, <1>2

LEMMA LeaseInvInit == ASSUME ConstantsAssumption, Init PROVE LeaseInv
<1>1. TypeInv
  BY TypingInit
<1> QED
  BY <1>1 DEF Init, LeaseInv, DeadTokens, LiveLeaseInPlace, Holds, ClaimLive, ClaimKept,
     Standing, NoSeizure, MarkerOfLock, OwnTomb, CrashRemembered, WriterKnowsCrashes, Repaired

LEMMA LeaseInvStep ==
  ASSUME ConstantsAssumption, HolderFaults, LeaseInv, [Next]_vars
  PROVE  LeaseInv'
<1>1. TypeInv /\ TypeInv'
  BY TypingStep DEF LeaseInv
<1>2. ASSUME NEW p \in Proc, Effect(p) PROVE LeaseInv'
  BY <1>1, <1>2, DeadTokensStep, LiveLeaseStep, ClaimLiveStep, ClaimKeptStep,
     NoSeizureStep, MarkerOfLockStep, OwnTombStep, CrashRememberedStep,
     WriterKnowsCrashesStep, RepairedStep DEF LeaseInv
<1>3. CASE UNCHANGED vars
  BY <1>1, <1>3 DEF LeaseInv, vars, DeadTokens, Dead, SameHost, LiveLeaseInPlace, Holds,
     ClaimLive, ClaimKept, NoSeizure, MarkerOfLock, OwnTomb, CrashRemembered,
     WriterKnowsCrashes, Repaired
<1> QED
  BY <1>1, <1>2, <1>3, StepEffect

LEMMA LeaseInvAlways ==
  ASSUME ConstantsAssumption, HolderFaults PROVE Spec => []LeaseInv
<1>1. Init => LeaseInv
  BY LeaseInvInit
<1>2. LeaseInv /\ [Next]_vars => LeaseInv'
  BY LeaseInvStep
<1> QED
  BY <1>1, <1>2, PTL DEF Spec

\* "Serialized index mutations across processes" (CHANGELOG.md): for any number
\* of processes, no two have the lease at once.
THEOREM Exclusion ==
  ASSUME ConstantsAssumption, HolderFaults PROVE Spec => []LeaseExclusive
<1>1. LeaseInv => LeaseExclusive
  <2> SUFFICES ASSUME LeaseInv, NEW p \in Proc, NEW q \in Proc, Holds(p), Holds(q)
               PROVE  p = q
    BY DEF LeaseExclusive
  <2> QED
    BY HolderLock DEF Holds
<1> QED
  BY <1>1, LeaseInvAlways, PTL

\* No reclaimer of an older lock ever moves a live holder's lock directory.
THEOREM LiveLease ==
  ASSUME ConstantsAssumption, HolderFaults PROVE Spec => []LiveLeaseInPlace
<1>1. LeaseInv => LiveLeaseInPlace
  BY DEF LeaseInv
<1> QED
  BY <1>1, LeaseInvAlways, PTL

\* The work of a killed writer stays on the disk's record until it is repaired.
THEOREM Remembered ==
  ASSUME ConstantsAssumption, HolderFaults PROVE Spec => []CrashRemembered
<1>1. LeaseInv => CrashRemembered
  BY DEF LeaseInv
<1> QED
  BY <1>1, LeaseInvAlways, PTL

\* Every writer is handed every killed writer whose work is not repaired yet.
THEOREM Known ==
  ASSUME ConstantsAssumption, HolderFaults PROVE Spec => []WriterKnowsCrashes
<1>1. LeaseInv => WriterKnowsCrashes
  BY DEF LeaseInv
<1> QED
  BY <1>1, LeaseInvAlways, PTL

-----------------------------------------------------------------------------
\* The lease implements IndexLease.

\* A process that mutates is the only one that does.
LEMMA SoleMutator ==
  ASSUME ConstantsAssumption, LeaseInv, NEW p \in Mutators
  PROVE  Mutators = {p} /\ {own[q] : q \in Mutators} = {own[p]}
<1>1. \A q \in Mutators : pc[q] \in LeaseSteps /\ q \in Proc
  BY DEF Mutators
<1> QED
  BY <1>1, HolderLock

LEMMA LeaseStep ==
  ASSUME ConstantsAssumption, LeaseInv, LeaseInv', NEW p \in Proc, Effect(p)
  PROVE  Lease!Next \/ UNCHANGED Lease!lvars
<1> DEFINE holders == {own[q] : q \in Mutators}
<1>1. \A q \in Proc \ {p} : (q \in Mutators' <=> q \in Mutators) /\ own'[q] = own[q]
  BY DEF Mutators, Effect, OthersKept
<1>2. CASE p \notin Mutators /\ p \notin Mutators'
  <2>1. Mutators' = Mutators /\ p \notin Mutators
    BY <1>1, <1>2 DEF Mutators
  <2>2. holders' = holders
    BY <1>1, <2>1 DEF Mutators
  <2>3. UNCHANGED unrecovered
    BY <1>2 DEF Mutators, Effect, HistoryEffect
  <2> QED
    BY <2>2, <2>3 DEF Lease!lvars
<1>3. CASE p \notin Mutators /\ p \in Mutators'
  <2>1. pc[p] = "scan" /\ own'[p] = own[p] /\ UNCHANGED unrecovered
    BY <1>3 DEF Mutators, Effect, LeaseMoves
  <2>2. own[p] \in Token \ unrecovered
    BY <2>1, HolderLock DEF LeaseInv, DeadTokens
  <2>3. Mutators = {}
    BY <2>1, <1>3, HolderLock DEF Mutators
  <2>4. holders = {} /\ holders' = {own[p]}
    BY <1>1, <1>3, <2>1, <2>3 DEF Mutators
  <2> QED
    BY <2>1, <2>2, <2>4 DEF Lease!Next, Lease!Acquire
<1>4. CASE p \in Mutators
  <2>1. holders = {own[p]} /\ Mutators = {p}
    BY <1>4, SoleMutator
  <2>2. CASE p \in Mutators'
    <3>1. holders' = {own'[p]} /\ own'[p] = own[p]
      <4>1. own'[p] = own[p]
        BY <2>2 DEF Mutators, Effect, LeaseMoves
      <4>2. Mutators' = {p}
        BY <2>1, <2>2, <1>1 DEF Mutators
      <4> QED
        BY <4>1, <4>2
    <3>2. alive'[p]
      BY <2>2 DEF Mutators, LeaseInv, TypeInv, FrameOK
    <3>3. UNCHANGED unrecovered \/ unrecovered' = {}
      BY <3>2 DEF Effect, HistoryEffect, LeaseInv, Repaired
    <3> QED
      BY <2>1, <3>1, <3>3 DEF Lease!Next, Lease!Repair, Lease!lvars
  <2>3. CASE p \notin Mutators'
    <3>1. Mutators' = {}
      BY <2>1, <2>3, <1>1 DEF Mutators
    <3>2. holders' = {}
      BY <3>1
    <3>3. UNCHANGED unrecovered \/ unrecovered' = unrecovered \cup {own[p]}
      BY <2>3 DEF Mutators, Effect, HistoryEffect
    <3> QED
      BY <2>1, <3>2, <3>3 DEF Lease!Next, Lease!Yield, Lease!Crash
  <2> QED
    BY <2>2, <2>3
<1> QED
  BY <1>2, <1>3, <1>4

\* acquireIndexLock, completeLeaseRecovery and releaseIndexLock give
\* withIndexMutationLease the lease that IndexLease describes.
THEOREM Refinement ==
  ASSUME ConstantsAssumption, HolderFaults PROVE Spec => LeaseRefined
<1>1. Init => Lease!Init
  BY DEF Init, Lease!Init, Mutators
<1>2. LeaseInv /\ LeaseInv' /\ [Next]_vars => [Lease!Next]_(Lease!lvars)
  <2> SUFFICES ASSUME LeaseInv, LeaseInv', [Next]_vars
               PROVE  [Lease!Next]_(Lease!lvars)
    OBVIOUS
  <2>1. ASSUME NEW p \in Proc, Effect(p) PROVE [Lease!Next]_(Lease!lvars)
    BY <2>1, LeaseStep
  <2>2. CASE UNCHANGED vars
    BY <2>2 DEF vars, Lease!lvars, Mutators
  <2> QED
    BY <2>1, <2>2, StepEffect DEF LeaseInv
<1> QED
  BY <1>1, <1>2, LeaseInvAlways, PTL DEF Spec, LeaseRefined, Lease!Spec
=============================================================================
