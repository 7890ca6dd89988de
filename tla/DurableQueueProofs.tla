------------------------- MODULE DurableQueueProofs -------------------------
(* What follows from the abstract queue alone, for any set of requests.     *)
EXTENDS DurableQueue, TLAPS

DTypeOK == stored \subseteq Jobs /\ told \in [Jobs -> Told] /\ erased \subseteq Jobs

\* A request nobody answered yet, or that was refused, is not in storage.
UnansweredIsNotStored == \A j \in Jobs : told[j] \in {"pending", "refused"} => j \notin stored

DInv == DTypeOK /\ UnansweredIsNotStored

\* A refused or unanswered request is never in storage (the revert in write() and the
\* duplicate check of admitDirect()).
THEOREM RefusedNeverStored == DSpec => []UnansweredIsNotStored
<1>1. DInit => DInv
  BY DEF DInit, DInv, DTypeOK, UnansweredIsNotStored, Told
<1>2. DInv /\ [DNext]_dvars => DInv'
  <2> SUFFICES ASSUME DInv, [DNext]_dvars PROVE DInv'
    OBVIOUS
  <2> USE DEF DInv, DTypeOK, UnansweredIsNotStored, Told
  <2>1. ASSUME NEW j \in Jobs, Accept(j) PROVE DInv'
    BY <2>1 DEF Accept
  <2>2. ASSUME NEW j \in Jobs, Refuse(j) PROVE DInv'
    BY <2>2 DEF Refuse
  <2>3. ASSUME NEW j \in Jobs, Erase(j) PROVE DInv'
    BY <2>3 DEF Erase
  <2>4. ASSUME NEW S \in SUBSET Jobs, Clear(S) PROVE DInv'
    BY <2>4 DEF Clear
  <2>5. ASSUME NEW unheard \in SUBSET Jobs, NEW added \in SUBSET Jobs, NEW taken \in SUBSET Jobs,
               Crash(unheard, added, taken)
        PROVE DInv'
    BY <2>5 DEF Crash
  <2>6. CASE UNCHANGED dvars
    BY <2>6 DEF dvars
  <2> QED
    BY <2>1, <2>2, <2>3, <2>4, <2>5, <2>6 DEF DNext
<1>3. DInv => UnansweredIsNotStored
  BY DEF DInv
<1> QED
  BY <1>1, <1>2, <1>3, PTL DEF DSpec
=============================================================================
