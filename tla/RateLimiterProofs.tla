-------------------------- MODULE RateLimiterProofs --------------------------
(***************************************************************************)
(* Proofs about RateLimiter, for any set of addresses, limit and window.   *)
(***************************************************************************)
EXTENDS RateLimiter, FiniteSetTheorems, TLAPS

-----------------------------------------------------------------------------
(* The inductive invariant *)

\* What is kept is part of the history, and nothing recent is missing from it:
\* forgetting is sound because an entry that expired once never counts again.
Remembers ==
    \A ip \in IPs :
        /\ IsFiniteSet(admitted[ip])
        /\ attempts[ip] \subseteq admitted[ip]
        /\ Recent(admitted[ip], now) \subseteq attempts[ip]

IInv == TypeOK /\ Remembers /\ WindowBound /\ AttemptsBounded

\* The limiter counts the same entries as the complete history would.
LEMMA SameRecent ==
    ASSUME Remembers, NEW ip \in IPs
    PROVE  Recent(attempts[ip], now) = Recent(admitted[ip], now)
BY DEF Remembers, Recent

\* Everything the limiter keeps for an address is finite.
LEMMA KeptFinite ==
    ASSUME Remembers, NEW ip \in IPs
    PROVE  /\ IsFiniteSet(attempts[ip])
           /\ IsFiniteSet(Recent(attempts[ip], now))
           /\ Cardinality(Recent(attempts[ip], now)) <= Cardinality(attempts[ip])
           /\ Cardinality(attempts[ip]) \in Nat
           /\ Cardinality(Recent(attempts[ip], now)) \in Nat
<1>1. IsFiniteSet(attempts[ip])
  BY FS_Subset DEF Remembers
<1>2. Recent(attempts[ip], now) \subseteq attempts[ip]
  BY DEF Recent
<1> QED BY <1>1, <1>2, FS_Subset, FS_CardinalityType

\* The empty limiter satisfies the invariant.
LEMMA InitIInv == LimiterInit => IInv
<1> SUFFICES ASSUME LimiterInit PROVE IInv
  OBVIOUS
<1> USE LimiterAssumption DEF LimiterInit
<1>1. TypeOK
  BY DEF TypeOK
<1>2. Remembers
  BY FS_EmptySet DEF Remembers, Recent
<1>3. \A t : \A ip \in IPs : {a \in Recent(admitted[ip], t) : a.time <= t} = {}
  BY DEF Recent
<1>4. WindowBound /\ AttemptsBounded
  BY <1>3, FS_EmptySet DEF WindowBound, AttemptsBounded
<1> QED BY <1>1, <1>2, <1>4 DEF IInv

\* Time passes: entries expire, and the window that ends now holds no more than
\* the one that ended a moment ago.
LEMMA TickStep ==
    ASSUME IInv, Tick PROVE IInv'
<1> USE LimiterAssumption DEF IInv, Tick
<1>1. TypeOK'
  BY DEF TypeOK, Entry
<1>2. Remembers'
  BY DEF Remembers, Recent, TypeOK, Entry
<1>3. WindowBound'
  <2> SUFFICES ASSUME NEW ip \in IPs, NEW t \in 0..(now + 1)
               PROVE  Cardinality({a \in Recent(admitted[ip], t) : a.time <= t}) <= Limit
    BY DEF WindowBound, Recent
  <2>1. CASE t \in 0..now
    BY <2>1 DEF WindowBound
  <2>2. CASE t = now + 1
    <3> DEFINE W(u) == {a \in Recent(admitted[ip], u) : a.time <= u}
    <3>1. W(t) \subseteq W(now)
      BY <2>2 DEF Recent, TypeOK, Entry
    <3>2. W(now) \subseteq admitted[ip]
      BY DEF Recent
    <3>3. IsFiniteSet(W(now)) /\ IsFiniteSet(W(t))
      BY <3>1, <3>2, FS_Subset DEF Remembers
    <3>4. Cardinality(W(t)) <= Cardinality(W(now)) /\ Cardinality(W(now)) <= Limit
      BY <3>1, <3>3, FS_Subset DEF WindowBound, TypeOK
    <3>5. Cardinality(W(t)) \in Nat /\ Cardinality(W(now)) \in Nat
      BY <3>3, FS_CardinalityType
    <3> QED BY <3>4, <3>5
  <2> QED BY <2>1, <2>2 DEF TypeOK
<1>4. AttemptsBounded'
  BY DEF AttemptsBounded
<1> QED BY <1>1, <1>2, <1>3, <1>4

\* cleanup drops only what has expired.
LEMMA CleanupStep ==
    ASSUME IInv, Cleanup PROVE IInv'
<1> USE LimiterAssumption DEF IInv, Cleanup
<1>1. TypeOK'
  BY DEF TypeOK, Entry, Recent
<1>2. Remembers'
  BY DEF Remembers, Recent, TypeOK
<1>3. WindowBound'
  BY DEF WindowBound, Recent
<1>4. AttemptsBounded'
  BY KeptFinite DEF AttemptsBounded
<1> QED BY <1>1, <1>2, <1>3, <1>4

\* Allow refuses and keeps what is valid.
LEMMA RefuseStep ==
    ASSUME IInv, NEW ip \in IPs, Refuse(ip) PROVE IInv'
<1> USE LimiterAssumption DEF IInv, Refuse
<1>1. TypeOK'
  BY DEF TypeOK, Entry, Recent
<1>2. Remembers'
  BY DEF Remembers, Recent, TypeOK
<1>3. WindowBound'
  BY DEF WindowBound, Recent
<1>4. AttemptsBounded'
  BY KeptFinite DEF AttemptsBounded, TypeOK
<1> QED BY <1>1, <1>2, <1>3, <1>4

\* Allow admits: only the window that ends now gains an entry, and it had room.
LEMMA AdmitStep ==
    ASSUME IInv, NEW ip \in IPs, Admit(ip) PROVE IInv'
<1> USE LimiterAssumption DEF IInv
<1> DEFINE valid == Recent(attempts[ip], now)
           entry == [time |-> now, conn |-> totalConnections + 1]
<1>1. /\ Cardinality(valid) < Limit
      /\ attempts' = [attempts EXCEPT ![ip] = valid \cup {entry}]
      /\ admitted' = [admitted EXCEPT ![ip] = admitted[ip] \cup {entry}]
      /\ totalConnections' = totalConnections + 1
      /\ UNCHANGED <<now, due, authFailures>>
  BY DEF Admit
<1>2. entry \notin admitted[ip] /\ entry \notin valid
  BY DEF TypeOK, Entry, Recent
<1>3. Cardinality(valid \cup {entry}) <= Limit
  <2>1. IsFiniteSet(valid) /\ Cardinality(valid) \in Nat
    BY KeptFinite
  <2> HIDE DEF valid, entry
  <2>2. Cardinality(valid \cup {entry}) = Cardinality(valid) + 1
    BY <1>2, <2>1, FS_AddElement
  <2> QED BY <1>1, <2>1, <2>2
<1>4. TypeOK'
  <2>1. \A e \in Entry : e \in Entry'
    BY <1>1 DEF TypeOK, Entry
  <2>2. entry \in Entry'
    BY <1>1 DEF TypeOK, Entry
  <2>3. valid \subseteq Entry
    BY DEF TypeOK, Recent
  <2> HIDE DEF valid, entry
  <2>4. /\ attempts' \in [IPs -> SUBSET Entry']
        /\ admitted' \in [IPs -> SUBSET Entry']
    BY <1>1, <2>1, <2>2, <2>3 DEF TypeOK
  <2> QED BY <1>1, <2>4 DEF TypeOK
<1>5. Remembers'
  <2>1. ASSUME NEW i \in IPs
        PROVE  /\ IsFiniteSet(admitted'[i])
               /\ attempts'[i] \subseteq admitted'[i]
    <3>1. IsFiniteSet(admitted[ip] \cup {entry})
      BY FS_AddElement DEF Remembers
    <3>2. valid \subseteq admitted[ip]
      BY DEF Remembers, Recent
    <3> HIDE DEF valid, entry
    <3> QED BY <1>1, <3>1, <3>2 DEF Remembers, TypeOK
  <2>2. ASSUME NEW i \in IPs
        PROVE  Recent(admitted'[i], now) \subseteq attempts'[i]
    BY <1>1 DEF Remembers, Recent, TypeOK
  <2> QED BY <1>1, <2>1, <2>2 DEF Remembers, Recent
<1>6. WindowBound'
  <2> SUFFICES ASSUME NEW i \in IPs, NEW t \in 0..now
               PROVE  Cardinality({a \in Recent(admitted'[i], t) : a.time <= t}) <= Limit
    BY <1>1 DEF WindowBound, Recent
  <2>1. CASE i = ip /\ t = now
    <3>1. {a \in Recent(admitted'[i], t) : a.time <= t} = valid \cup {entry}
      BY <1>1, <2>1, SameRecent DEF Recent, TypeOK, Entry
    <3> QED BY <1>3, <3>1
  <2>2. CASE ~(i = ip /\ t = now)
    <3>1. {a \in Recent(admitted'[i], t) : a.time <= t}
              = {a \in Recent(admitted[i], t) : a.time <= t}
      BY <1>1, <2>2 DEF Recent, TypeOK
    <3> QED BY <3>1 DEF WindowBound
  <2> QED BY <2>1, <2>2
<1>7. AttemptsBounded'
  BY <1>1, <1>3 DEF AttemptsBounded, TypeOK
<1> QED BY <1>4, <1>5, <1>6, <1>7

\* Every step preserves the invariant.
LEMMA NextIInv == IInv /\ [LimiterNext]_limiterVars => IInv'
<1> SUFFICES ASSUME IInv, [LimiterNext]_limiterVars PROVE IInv'
  OBVIOUS
<1>1. CASE UNCHANGED limiterVars
  BY <1>1 DEF limiterVars, IInv, TypeOK, Entry, Remembers, Recent, WindowBound, AttemptsBounded
<1> QED BY <1>1, TickStep, CleanupStep, AdmitStep, RefuseStep DEF LimiterNext

\* The inductive invariant holds throughout every behaviour.
THEOREM Invariance == LimiterSpec => []IInv
BY InitIInv, NextIInv, PTL DEF LimiterSpec

-----------------------------------------------------------------------------
(* The results *)

\* The limiter, its clock and the counters keep their types (TypeOK).
THEOREM TypeCorrect == LimiterSpec => []TypeOK
<1>1. IInv => TypeOK
  BY DEF IInv
<1> QED BY <1>1, Invariance, PTL

\* Of one address, no interval of length Window admits more than Limit connections:
\* the sliding window of RateLimiter.Allow bounds every burst (WindowBound).
THEOREM LimitHolds == LimiterSpec => []WindowBound
<1>1. IInv => WindowBound
  BY DEF IInv
<1> QED BY <1>1, Invariance, PTL

\* The slice kept for an address stays within the limit (AttemptsBounded).
THEOREM MemoryBounded == LimiterSpec => []AttemptsBounded
<1>1. IInv => AttemptsBounded
  BY DEF IInv
<1> QED BY <1>1, Invariance, PTL

\* The limiter implements the sliding window over the complete history
\* (ForgettingIsInvisible): cleanup is a stuttering step, and Allow decides as
\* the abstract specification does.
THEOREM Refinement == LimiterSpec => ForgettingIsInvisible
<1>1. LimiterInit => SW!Init
  BY DEF LimiterInit, SW!Init
<1>2. IInv /\ [LimiterNext]_limiterVars => [SW!Next]_(SW!vars)
  <2> SUFFICES ASSUME IInv, [LimiterNext]_limiterVars PROVE [SW!Next]_(SW!vars)
    OBVIOUS
  <2>1. \A S, t : SW!Recent(S, t) = Recent(S, t)
    BY DEF SW!Recent, Recent
  <2>2. CASE Tick
    BY <2>2 DEF Tick, SW!Next, SW!Tick
  <2>3. CASE Cleanup
    BY <2>3 DEF Cleanup, SW!vars
  <2>4. ASSUME NEW ip \in IPs
        PROVE  SW!Cardinality(SW!Recent(admitted[ip], now))
                   = Cardinality(Recent(attempts[ip], now))
    <3>1. SW!Recent(admitted[ip], now) = Recent(attempts[ip], now)
      BY <2>1, SameRecent DEF IInv
    <3>2. \A S : SW!Cardinality(S) = Cardinality(S)
      BY DEF SW!Cardinality, Cardinality
    <3> QED BY <3>1, <3>2
  <2>5. ASSUME NEW ip \in IPs, Admit(ip) PROVE SW!Admit(ip)
    BY <2>4, <2>5 DEF Admit, SW!Admit
  <2>6. ASSUME NEW ip \in IPs, Refuse(ip) PROVE SW!Refuse(ip)
    BY <2>4, <2>6 DEF Refuse, SW!Refuse
  <2>7. CASE UNCHANGED limiterVars
    BY <2>7 DEF limiterVars, SW!vars
  <2> QED BY <2>2, <2>3, <2>5, <2>6, <2>7 DEF LimiterNext, SW!Next
<1> QED BY <1>1, <1>2, Invariance, PTL DEF LimiterSpec, ForgettingIsInvisible, SW!Spec
=============================================================================
