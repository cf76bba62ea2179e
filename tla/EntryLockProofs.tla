--------------------------- MODULE EntryLockProofs ---------------------------
(***************************************************************************)
(* For any number of workers, tuples and entries: the entry lock is        *)
(* exclusive, keeps the chain that lookups walk, and loses no update.      *)
(***************************************************************************)
EXTENDS EntryLock, TLAPS

LEMMA InitLockInv == Init => LockInv
<1> SUFFICES ASSUME Init PROVE LockInv
    OBVIOUS
<1> USE EntryLockAssumption DEF Init, Null, Entries
<1>1. TypeOK
  BY DEF TypeOK, Pointers, ChainNext, FirstPtr, PCs, Holding
<1>2. ChainKept
  BY DEF ChainKept
<1>3. SeenFresh /\ WalkBefore /\ OnEntry /\ OwnTuple /\ LoadedFresh
  BY DEF SeenFresh, WalkBefore, OnEntry, OwnTuple, LoadedFresh, Holding
<1>4. LockBits /\ MutualExclusion
  BY DEF LockBits, MutualExclusion, Holding
<1>5. NoLostUpdate
  BY DEF NoLostUpdate, Pending
<1> QED
  BY <1>1, <1>2, <1>3, <1>4, <1>5 DEF LockInv

(* A step of one worker, action by action and conjunct by conjunct *)
LEMMA StepLockInv == ASSUME LockInv, NEW t \in Threads, Step(t) PROVE LockInv'
<1> USE EntryLockAssumption DEF Null, Entries
<1>0. /\ TypeOK /\ ChainKept /\ SeenFresh /\ WalkBefore /\ OnEntry /\ LockBits
      /\ MutualExclusion /\ OwnTuple /\ LoadedFresh /\ NoLostUpdate
  BY DEF LockInv
<1>1. CASE Take(t)
  <2> USE <1>0, <1>1 DEF Take
  <2>1. TypeOK'
    BY DEF TypeOK, Pointers, FirstPtr, PCs
  <2>2. ChainKept'
    BY DEF ChainKept
  <2>3. SeenFresh' /\ OnEntry' /\ LoadedFresh'
    BY DEF TypeOK, SeenFresh, OnEntry, LoadedFresh, Holding
  <2>4. WalkBefore'
    BY DEF TypeOK, WalkBefore, FirstPtr
  <2>5. LockBits'
    <3>1. \A u \in Threads : pc'[u] \in Holding <=> pc[u] \in Holding
      BY DEF TypeOK, Holding
    <3>2. \A u \in Threads : pc[u] \in Holding => tuple'[u] = tuple[u]
      BY DEF TypeOK, Holding
    <3> QED
      BY <3>1, <3>2 DEF LockBits
  <2>6. MutualExclusion'
    BY DEF TypeOK, MutualExclusion, Holding
  <2>7. OwnTuple'
    BY DEF TypeOK, OwnTuple
  <2>8. NoLostUpdate'
    BY DEF TypeOK, NoLostUpdate, Pending, OwnTuple, PCs, Holding
  <2> QED
    BY <2>1, <2>2, <2>3, <2>4, <2>5, <2>6, <2>7, <2>8 DEF LockInv
<1>2. CASE WalkOn(t)
  <2> USE <1>0, <1>2 DEF WalkOn
  <2>1. TypeOK'
    BY DEF TypeOK, Pointers, untag
  <2>2. ChainKept' /\ SeenFresh' /\ OnEntry' /\ LockBits' /\ MutualExclusion' /\ OwnTuple' /\ LoadedFresh' /\ NoLostUpdate'
    BY DEF ChainKept, SeenFresh, OnEntry, LockBits, MutualExclusion, OwnTuple,
        LoadedFresh, NoLostUpdate, Pending
  <2>3. WalkBefore'
    BY DEF TypeOK, Pointers, WalkBefore, ChainKept, ChainNext, untag
  <2> QED
    BY <2>1, <2>2, <2>3 DEF LockInv
<1>3. CASE WalkMiss(t)
  <2> USE <1>0, <1>3 DEF WalkMiss
  <2>1. TypeOK'
    BY DEF TypeOK, PCs
  <2>2. ChainKept' /\ SeenFresh' /\ OnEntry' /\ WalkBefore' /\ LoadedFresh'
    BY DEF TypeOK, ChainKept, SeenFresh, OnEntry, WalkBefore, LoadedFresh,
        Holding
  <2>3. LockBits' /\ MutualExclusion'
    BY DEF TypeOK, LockBits, MutualExclusion, Holding
  <2>4. OwnTuple'
    BY DEF TypeOK, OwnTuple
  <2>5. NoLostUpdate'
    BY DEF TypeOK, NoLostUpdate, Pending, WalkBefore, untag, PCs, Holding
  <2> QED
    BY <2>1, <2>2, <2>3, <2>4, <2>5 DEF LockInv
<1>4. CASE WalkHit(t)
  <2> USE <1>0, <1>4 DEF WalkHit
  <2>1. TypeOK'
    BY DEF TypeOK, PCs
  <2>2. ChainKept' /\ SeenFresh' /\ WalkBefore' /\ LoadedFresh'
    BY DEF TypeOK, ChainKept, SeenFresh, WalkBefore, LoadedFresh
  <2>3. OnEntry'
    BY DEF TypeOK, OnEntry, Holding
  <2>4. LockBits' /\ MutualExclusion'
    BY DEF TypeOK, LockBits, MutualExclusion, Holding
  <2>5. OwnTuple'
    BY DEF TypeOK, OwnTuple
  <2>6. NoLostUpdate'
    BY DEF TypeOK, NoLostUpdate, Pending, PCs, Holding
  <2> QED
    BY <2>1, <2>2, <2>3, <2>4, <2>5, <2>6 DEF LockInv
<1>5. CASE LockRead(t)
  <2> USE <1>0, <1>5 DEF LockRead
  <2>1. TypeOK'
    BY DEF TypeOK, PCs, OnEntry
  <2>2. SeenFresh'
    BY DEF TypeOK, SeenFresh, ChainKept, OnEntry
  <2>3. ChainKept' /\ WalkBefore' /\ OnEntry' /\ LoadedFresh'
    BY DEF TypeOK, ChainKept, OnEntry, WalkBefore, LoadedFresh, Holding
  <2>4. LockBits' /\ MutualExclusion'
    BY DEF TypeOK, LockBits, MutualExclusion, Holding
  <2>5. OwnTuple'
    BY DEF TypeOK, OwnTuple
  <2>6. NoLostUpdate'
    BY DEF TypeOK, NoLostUpdate, Pending, PCs, Holding
  <2> QED
    BY <2>1, <2>2, <2>3, <2>4, <2>5, <2>6 DEF LockInv
<1>6. CASE LockExchange(t)
  <2> USE <1>0, <1>6 DEF LockExchange
  <2>1. TypeOK'
    BY DEF TypeOK, Pointers, PCs, Holding
  <2>2. ChainKept' /\ SeenFresh'
    BY DEF TypeOK, ChainKept, SeenFresh, OnEntry
  <2>3. WalkBefore' /\ OnEntry' /\ LoadedFresh'
    BY DEF TypeOK, OnEntry, WalkBefore, LoadedFresh, Holding
  <2>4. LockBits'
    BY DEF TypeOK, Pointers, LockBits, OnEntry, MutualExclusion, Holding
  <2>5. MutualExclusion'
    BY DEF TypeOK, LockBits, OnEntry, MutualExclusion, Holding
  <2>6. OwnTuple'
    BY DEF TypeOK, OwnTuple
  <2>7. NoLostUpdate'
    BY DEF TypeOK, NoLostUpdate, Pending, OwnTuple, PCs, Holding
  <2> QED
    BY <2>1, <2>2, <2>3, <2>4, <2>5, <2>6, <2>7 DEF LockInv
<1>7. CASE Gather(t)
  <2> USE <1>0, <1>7 DEF Gather
  <2>1. TypeOK'
    BY DEF TypeOK, OnEntry, PCs, Holding
  <2>2. ChainKept' /\ SeenFresh' /\ WalkBefore' /\ OnEntry'
    BY DEF TypeOK, ChainKept, SeenFresh, OnEntry, WalkBefore, Holding
  <2>3. LockBits' /\ MutualExclusion'
    BY DEF TypeOK, LockBits, MutualExclusion, Holding
  <2>4. OwnTuple' /\ LoadedFresh'
    BY DEF TypeOK, OwnTuple, LoadedFresh
  <2>5. NoLostUpdate'
    BY DEF TypeOK, NoLostUpdate, Pending, PCs, Holding
  <2> QED
    BY <2>1, <2>2, <2>3, <2>4, <2>5 DEF LockInv
<1>8. CASE Scatter(t)
  <2> USE <1>0, <1>8 DEF Scatter
  <2>1. TypeOK'
    BY DEF TypeOK, PCs, Holding
  <2>2. ChainKept' /\ SeenFresh' /\ WalkBefore' /\ OnEntry'
    BY DEF TypeOK, ChainKept, SeenFresh, OnEntry, WalkBefore, Holding
  <2>3. LockBits' /\ MutualExclusion'
    BY DEF TypeOK, LockBits, MutualExclusion, Holding
  <2>4. OwnTuple'
    BY DEF TypeOK, OwnTuple
  <2>5. LoadedFresh'
    BY DEF TypeOK, LoadedFresh, MutualExclusion, OnEntry, Holding
  <2>6. NoLostUpdate'
    BY DEF TypeOK, NoLostUpdate, Pending, OwnTuple, LoadedFresh, OnEntry, PCs,
        Holding
  <2> QED
    BY <2>1, <2>2, <2>3, <2>4, <2>5, <2>6 DEF LockInv
<1>9. CASE UnlockRead(t)
  <2> USE <1>0, <1>9 DEF UnlockRead
  <2>1. TypeOK'
    BY DEF TypeOK, OnEntry, PCs, Holding
  <2>2. SeenFresh'
    BY DEF TypeOK, SeenFresh, ChainKept, OnEntry, Holding
  <2>3. ChainKept' /\ WalkBefore' /\ OnEntry' /\ LoadedFresh'
    BY DEF TypeOK, ChainKept, OnEntry, WalkBefore, LoadedFresh, Holding
  <2>4. LockBits' /\ MutualExclusion'
    BY DEF TypeOK, LockBits, MutualExclusion, Holding
  <2>5. OwnTuple'
    BY DEF TypeOK, OwnTuple
  <2>6. NoLostUpdate'
    BY DEF TypeOK, NoLostUpdate, Pending, PCs, Holding
  <2> QED
    BY <2>1, <2>2, <2>3, <2>4, <2>5, <2>6 DEF LockInv
<1>10. CASE UnlockStore(t)
  <2> USE <1>0, <1>10 DEF UnlockStore
  <2>1. TypeOK'
    BY DEF TypeOK, Pointers, PCs
  <2>2. ChainKept' /\ SeenFresh'
    BY DEF TypeOK, ChainKept, SeenFresh
  <2>3. WalkBefore' /\ OnEntry' /\ LoadedFresh'
    BY DEF TypeOK, OnEntry, WalkBefore, LoadedFresh, Holding
  <2>4. LockBits'
    BY DEF TypeOK, LockBits, MutualExclusion, Holding
  <2>5. MutualExclusion'
    BY DEF TypeOK, MutualExclusion, Holding
  <2>6. OwnTuple'
    BY DEF TypeOK, OwnTuple
  <2>7. NoLostUpdate'
    BY DEF TypeOK, NoLostUpdate, Pending, PCs, Holding
  <2> QED
    BY <2>1, <2>2, <2>3, <2>4, <2>5, <2>6, <2>7 DEF LockInv
<1> QED
  BY <1>1, <1>2, <1>3, <1>4, <1>5, <1>6, <1>7, <1>8, <1>9, <1>10 DEF Step

(* LockInv is an invariant: it holds initially and every step keeps it *)
LEMMA LockInvariant == Spec => []LockInv
<1>1. LockInv /\ [Next]_vars => LockInv'
  <2> SUFFICES ASSUME LockInv, [Next]_vars PROVE LockInv'
    OBVIOUS
  <2>1. CASE \E t \in Threads : Step(t)
    BY <2>1, StepLockInv
  <2>2. CASE UNCHANGED vars
    BY <2>2 DEF LockInv, vars, TypeOK, ChainKept, SeenFresh, WalkBefore, OnEntry,
          LockBits, MutualExclusion, OwnTuple, LoadedFresh, NoLostUpdate, Pending
  <2> QED
    BY <2>1, <2>2 DEF Next, Finished
<1> QED
  BY InitLockInv, <1>1, PTL DEF Spec

(* A step of one worker finishes at most one tuple. Only the end of a walk    *)
(* and the scatter do: what was gathered is still current when it is written. *)
LEMMA StepAtomic ==
    ASSUME LockInv, NEW t \in Threads, Step(t)
    PROVE  AtomicUpdate \/ UNCHANGED <<value, Pending>>
<1> USE EntryLockAssumption DEF Null, Entries
<1>0. TypeOK /\ WalkBefore /\ OnEntry /\ OwnTuple /\ LoadedFresh
  BY DEF LockInv
<1>1. CASE Take(t)
  BY <1>0, <1>1 DEF Take, TypeOK, Pending, PCs, Holding
<1>2. CASE WalkOn(t)
  BY <1>2 DEF WalkOn, Pending
<1>3. CASE WalkMiss(t)
  <2> USE <1>0, <1>3 DEF WalkMiss
  <2>1. tuple[t] \in Pending
    BY DEF TypeOK, Pending, PCs, Holding
  <2>2. Target[tuple[t]] = Null
    BY DEF TypeOK, WalkBefore, untag
  <2>3. Pending' = Pending \ {tuple[t]}
    BY DEF TypeOK, Pending, OwnTuple, PCs, Holding
  <2> QED
    BY <2>1, <2>2, <2>3 DEF AtomicUpdate
<1>4. CASE WalkHit(t) \/ LockRead(t) \/ LockExchange(t) \/ Gather(t) \/ UnlockRead(t) \/ UnlockStore(t)
  <2>1. Pending' = Pending
    BY <1>0, <1>4 DEF WalkHit, LockRead, LockExchange, Gather, UnlockRead, UnlockStore,
          TypeOK, Pending, PCs, Holding
  <2> QED
    BY <1>4, <2>1 DEF WalkHit, LockRead, LockExchange, Gather, UnlockRead, UnlockStore
<1>5. CASE Scatter(t)
  <2> USE <1>0, <1>5 DEF Scatter
  <2>1. tuple[t] \in Pending
    BY DEF TypeOK, Pending, PCs, Holding
  <2>2. Target[tuple[t]] # Null /\ loaded[t] = value[Target[tuple[t]]]
    BY DEF OnEntry, LoadedFresh, Holding
  <2>3. Pending' = Pending \ {tuple[t]}
    BY DEF TypeOK, Pending, OwnTuple, PCs, Holding
  <2> QED
    BY <2>1, <2>2, <2>3 DEF AtomicUpdate
<1> QED
  BY <1>1, <1>2, <1>3, <1>4, <1>5 DEF Step

(* An entry is updated by one worker at a time: what Hashtable::lock is for.  *)
THEOREM LockExclusive == Spec => []MutualExclusion
BY LockInvariant, PTL DEF LockInv

(* The aggregates of locked entries are exact at every moment: no update is    *)
(* lost to another worker, and no lookup is led astray by a locked pointer.    *)
THEOREM UpdatesKept == Spec => []NoLostUpdate
BY LockInvariant, PTL DEF LockInv

(* lock and unlock keep the chain that every lookup of the bucket walks.       *)
THEOREM LockKeepsChain == Spec => []ChainKept
BY LockInvariant, PTL DEF LockInv

(* The locked update is an atomic one: lock, gather, scatter and unlock of any *)
(* number of workers implement the reduction in one step that the translation  *)
(* of a pipeline takes it for.                                                 *)
THEOREM UpdatesAtomic == Spec => ReductionIsAtomic
<1>1. Init => value = [e \in Entries |-> {}] /\ Pending = Tuples
  BY DEF Init, Pending
<1>2. LockInv /\ [Next]_vars => [AtomicUpdate]_<<value, Pending>>
  <2> SUFFICES ASSUME LockInv, [Next]_vars PROVE [AtomicUpdate]_<<value, Pending>>
    OBVIOUS
  <2>1. CASE \E t \in Threads : Step(t)
    BY <2>1, StepAtomic
  <2>2. CASE UNCHANGED vars
    BY <2>2 DEF vars, Pending
  <2> QED
    BY <2>1, <2>2 DEF Next, Finished
<1> QED
  BY <1>1, <1>2, LockInvariant, PTL DEF Spec, ReductionIsAtomic
=============================================================================
