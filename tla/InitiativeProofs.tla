-------------------------- MODULE InitiativeProofs --------------------------
(***************************************************************************)
(* Proofs about initiative proposals and about how long the two background *)
(* workers wait, for any sources, any bounds of the agenda, any number of  *)
(* commits of the foreground calls, dismissals and faults, and any         *)
(* configuration of the worker.                                            *)
(***************************************************************************)
EXTENDS Initiative, FiniteSetTheorems, SequenceTheorems, TLAPS

-----------------------------------------------------------------------------
(* A set of naturals has a least element: this is how facts about all naturals are
   proved here, by the least one for which they fail. *)
LEMMA Least ==
    ASSUME NEW S, S \subseteq Nat, S # {}
    PROVE  \E n \in S : \A m \in S : n <= m
<1> DEFINE T == {0..n : n \in S}
           R == StrictSubsetOrdering(Nat)
<1>1. T \subseteq FiniteSubsetsOf(Nat)
  <2>1. \A n \in S : 0..n \subseteq Nat /\ IsFiniteSet(0..n)
    BY FS_Interval
  <2> QED BY <2>1 DEF FiniteSubsetsOf
<1>2. T # {}
  OBVIOUS
<1>3. \E x \in T : \A y \in T : ~ (<<y, x>> \in R)
  <2>1. IsWellFoundedOn(R, FiniteSubsetsOf(Nat))
    BY FS_StrictSubsetOrderingWellFounded
  <2> HIDE DEF T, R
  <2> QED BY <1>1, <1>2, <2>1, WFMin
<1>4. PICK n \in S : \A y \in T : ~ (<<y, 0..n>> \in R)
  BY <1>3
<1>5. ASSUME NEW m \in S, m < n PROVE FALSE
  <2>1. 0..m \in T /\ 0..m \subseteq 0..n /\ n \notin 0..m /\ n \in 0..n
    BY <1>5
  <2>2. <<0..m, 0..n>> \in R
    BY <2>1 DEF StrictSubsetOrdering
  <2> QED BY <1>4, <2>1, <2>2
<1> QED BY <1>5

(* The powers of two, counted as sets of subsets. *)
LEMMA PowersOfTwo == 2 ^ 0 = 1 /\ \A n \in Nat : 2 ^ n \in Nat /\ 2 ^ (n + 1) = 2 * 2 ^ n
<1>1. \A n \in Nat : /\ IsFiniteSet(1..n) /\ Cardinality(1..n) = n
                     /\ IsFiniteSet(SUBSET (1..n)) /\ Cardinality(SUBSET (1..n)) = 2 ^ n
  <2> TAKE n \in Nat
  <2>1. IsFiniteSet(1..n) /\ Cardinality(1..n) = n
    BY FS_Interval
  <2> QED BY <2>1, FS_SUBSET
<1>2. 2 ^ 0 = 1
  <2>1. SUBSET (1..0) = {{}}
    OBVIOUS
  <2> QED BY <1>1, <2>1, FS_Singleton
<1>3. ASSUME NEW n \in Nat PROVE 2 ^ (n + 1) = 2 * 2 ^ n
  <2> DEFINE A == SUBSET (1..n)
             B == {T \cup {n + 1} : T \in A}
             f == [T \in A |-> T \cup {n + 1}]
  <2>1. f \in Bijection(A, B)
    <3>1. f \in [A -> B] /\ \A b \in B : \E a \in A : f[a] = b
      OBVIOUS
    <3>2. ASSUME NEW a \in A, NEW b \in A, f[a] = f[b] PROVE a = b
      <4>1. n + 1 \notin a /\ n + 1 \notin b /\ a \cup {n + 1} = b \cup {n + 1}
        BY <3>2
      <4> QED BY <4>1
    <3> HIDE DEF A, B, f
    <3> QED
      BY <3>1, <3>2 DEF Bijection, Injection, Surjection, IsInjective
  <2>2. IsFiniteSet(A) /\ IsFiniteSet(B) /\ Cardinality(B) = Cardinality(A)
    <3>1. ExistsBijection(A, B)
      BY <2>1 DEF ExistsBijection
    <3> QED BY <1>1, <3>1, FS_Bijection
  <2>3. A \cap B = {}
    <3>1. \A a \in A : n + 1 \notin a
      OBVIOUS
    <3> QED BY <3>1
  <2>4. SUBSET (1..(n + 1)) = A \cup B
    <3>1. ASSUME NEW T \in SUBSET (1..(n + 1)) PROVE T \in A \cup B
      <4>1. CASE n + 1 \in T
        <5>1. T = (T \ {n + 1}) \cup {n + 1} /\ T \ {n + 1} \in A
          BY <4>1
        <5> QED BY <5>1
      <4>2. CASE n + 1 \notin T
        BY <4>2
      <4> QED BY <4>1, <4>2
    <3>2. ASSUME NEW T \in A \cup B PROVE T \in SUBSET (1..(n + 1))
      BY <3>2
    <3> HIDE DEF A, B
    <3> QED BY <3>1, <3>2
  <2>5. Cardinality(A) \in Nat /\ Cardinality(A \cap B) = 0
    BY <2>2, <2>3, FS_CardinalityType, FS_EmptySet
  <2>6. Cardinality(A \cup B) = Cardinality(A) + Cardinality(A)
    <3> HIDE DEF A, B
    <3>1. Cardinality(A \cup B) = Cardinality(A) + Cardinality(B) - Cardinality(A \cap B)
      BY <2>2, FS_Union
    <3> QED BY <2>2, <2>5, <3>1
  <2>7. Cardinality(A) = 2 ^ n /\ Cardinality(A \cup B) = 2 ^ (n + 1)
    <3>1. n + 1 \in Nat
      OBVIOUS
    <3> QED BY <1>1, <2>4, <3>1
  <2> HIDE DEF A, B
  <2> QED BY <2>5, <2>6, <2>7
<1>4. \A n \in Nat : 2 ^ n \in Nat
  BY <1>1, FS_CardinalityType
<1> QED BY <1>2, <1>3, <1>4

(* Twice as much for one more. *)
LEMMA Twice ==
    ASSUME NEW i \in Nat, NEW n \in Nat
    PROVE  i * 2 ^ n \in Nat /\ i * 2 ^ (n + 1) = i * 2 ^ n + i * 2 ^ n
<1>1. ASSUME NEW p \in Nat PROVE i * p \in Nat /\ i * (2 * p) = i * p + i * p
  OBVIOUS
<1> QED BY <1>1, PowersOfTwo

(* The initial delay doubled n times, or the maximum. *)
Delay(i, m, n) == Smaller(i * 2 ^ n, m)

(* Doubling the delay with the addition that cannot overflow doubles it. *)
LEMMA DelayDoubles ==
    ASSUME NEW i \in Nat, NEW m \in 0..DurationMax, NEW n \in Nat \ {0}
    PROVE  Delay(i, m, n) = Doubled(Delay(i, m, n - 1), m)
<1>1. /\ i * 2 ^ (n - 1) \in Nat /\ i * 2 ^ n = i * 2 ^ (n - 1) + i * 2 ^ (n - 1)
  <2>1. n - 1 \in Nat /\ (n - 1) + 1 = n
    OBVIOUS
  <2> QED BY <2>1, Twice
<1> QED BY <1>1, DurationAssumption DEF Delay, Smaller, Doubled

(* The first delay is the initial one. *)
LEMMA DelayStart ==
    ASSUME NEW i \in Nat, NEW m \in Nat, m >= i
    PROVE  Delay(i, m, 0) = i
<1>1. i * 1 = i
  OBVIOUS
<1> QED BY <1>1, PowersOfTwo DEF Delay, Smaller

(* Two functions are one if each value follows from the one before in the same way. *)
LEMMA SameRecursion ==
    ASSUME NEW e \in Nat, NEW f, NEW g, f[0] = g[0],
           \A n \in 1..e : f[n - 1] = g[n - 1] => f[n] = g[n]
    PROVE  \A n \in 0..e : f[n] = g[n]
<1> DEFINE Bad == {n \in 0..e : f[n] # g[n]}
<1>1. SUFFICES ASSUME Bad # {} PROVE FALSE
  OBVIOUS
<1>2. PICK n \in Bad : \A k \in Bad : n <= k
  <2>1. Bad \subseteq Nat
    OBVIOUS
  <2> HIDE DEF Bad
  <2> QED BY <1>1, <2>1, Least
<1>3. n \in 1..e /\ n - 1 \in 0..e /\ n - 1 \notin Bad
  BY <1>2
<1> QED BY <1>2, <1>3

(* What the initiative worker's loop computes. *)
LEMMA BoundedBackoffIs ==
    ASSUME NEW i \in Nat, NEW m \in 0..DurationMax, m >= i, NEW e \in Nat
    PROVE  BoundedBackoff(i, m, e) = Delay(i, m, e)
<1> DEFINE Eq(f) == f = [n \in 0..e |-> IF n = 0 THEN i ELSE Doubled(f[n - 1], m)]
           g == [n \in 0..e |-> Delay(i, m, n)]
           h == CHOOSE f : Eq(f)
<1>1. Eq(g)
  <2>1. ASSUME NEW n \in 0..e
        PROVE  g[n] = IF n = 0 THEN i ELSE Doubled(g[n - 1], m)
    <3>1. CASE n = 0
      BY <3>1, DelayStart
    <3>2. CASE n # 0
      BY <3>2, DelayDoubles
    <3> QED BY <3>1, <3>2
  <2> QED BY <2>1
<1>2. Eq(h)
  <2> HIDE DEF g, Eq
  <2> QED BY <1>1
<1>3. BoundedBackoff(i, m, e) = h[e]
  BY DEF BoundedBackoff
<1>4. \A n \in 0..e : h[n] = g[n]
  <2> HIDE DEF h, g
  <2>1. h[0] = g[0] /\ \A n \in 1..e : h[n - 1] = g[n - 1] => h[n] = g[n]
    BY <1>1, <1>2
  <2> QED BY <2>1, SameRecursion
<1> QED BY <1>3, <1>4

(* What the Sleep worker's loop computes: once the maximum is reached, it stays. *)
LEMMA SleepBackoffIs ==
    ASSUME NEW i \in Nat, NEW m \in 0..DurationMax, m >= i, NEW e \in Nat
    PROVE  SleepBackoff(i, m, e) = Delay(i, m, e)
<1> DEFINE Eq(f) == f = [n \in 0..e |-> IF n = 0 THEN i
                                        ELSE IF f[n - 1] < m THEN Doubled(f[n - 1], m)
                                                             ELSE f[n - 1]]
           g == [n \in 0..e |-> Delay(i, m, n)]
           h == CHOOSE f : Eq(f)
<1>1. Eq(g)
  <2>1. ASSUME NEW n \in 0..e
        PROVE  g[n] = IF n = 0 THEN i ELSE IF g[n - 1] < m THEN Doubled(g[n - 1], m)
                                                           ELSE g[n - 1]
    <3>1. CASE n = 0
      BY <3>1, DelayStart
    <3>2. CASE n # 0
      <4>1. n - 1 \in Nat /\ n - 1 \in 0..e
        BY <3>2
      <4>2. Delay(i, m, n - 1) \in 0..m
        BY <4>1, Twice DEF Delay, Smaller
      <4>3. Delay(i, m, n - 1) = m => Doubled(m, m) = m
        BY DurationAssumption DEF Doubled, Smaller
      <4> QED BY <3>2, <4>1, <4>2, <4>3, DelayDoubles
    <3> QED BY <3>1, <3>2
  <2> QED BY <2>1
<1>2. Eq(h)
  <2> HIDE DEF g, Eq
  <2> QED BY <1>1
<1>3. SleepBackoff(i, m, e) = h[e]
  BY DEF SleepBackoff
<1>4. \A n \in 0..e : h[n] = g[n]
  <2> HIDE DEF h, g
  <2>1. h[0] = g[0] /\ \A n \in 1..e : h[n - 1] = g[n - 1] => h[n] = g[n]
    BY <1>1, <1>2
  <2> QED BY <2>1, SameRecursion
<1> QED BY <1>3, <1>4

(* The powers of two never decrease. *)
LEMMA PowersGrow == ASSUME NEW a \in Nat, NEW b \in Nat, a <= b PROVE 2 ^ a <= 2 ^ b
<1> DEFINE Bad == {n \in Nat : a <= n /\ ~ (2 ^ a <= 2 ^ n)}
<1>1. SUFFICES ASSUME Bad # {} PROVE FALSE
  OBVIOUS
<1>2. PICK n \in Bad : \A k \in Bad : n <= k
  <2>1. Bad \subseteq Nat
    OBVIOUS
  <2> HIDE DEF Bad
  <2> QED BY <1>1, <2>1, Least
<1>3. n # a /\ n - 1 \in Nat /\ a <= n - 1 /\ n - 1 \notin Bad /\ n = (n - 1) + 1
  BY <1>2, PowersOfTwo
<1>4. 2 ^ n = 2 * 2 ^ (n - 1) /\ 2 ^ (n - 1) \in Nat /\ 2 ^ a \in Nat
  BY <1>3, PowersOfTwo
<1> QED BY <1>2, <1>3, <1>4

(* Failures that are not counted any more make no difference: the maximum is reached. *)
LEMMA CountSaturates ==
    ASSUME NEW i \in Nat \ {0}, NEW m \in 0..DurationMax, NEW n \in Nat
    PROVE  Delay(i, m, Smaller(n, MaxFailures)) = Delay(i, m, n)
<1>1. CASE n <= MaxFailures
  BY <1>1, FailuresAssumption DEF Smaller
<1>2. CASE n > MaxFailures
  <2>1. 2 ^ MaxFailures <= 2 ^ n /\ 2 ^ MaxFailures \in Nat /\ 2 ^ n \in Nat
    BY <1>2, FailuresAssumption, PowersGrow, PowersOfTwo
  <2>2. 2 ^ MaxFailures >= m /\ 2 ^ n >= m
    BY <2>1, EnoughFailures, DurationAssumption
  <2>3. \A p \in Nat : p >= m => i * p \in Nat /\ i * p >= m
    OBVIOUS
  <2>4. Delay(i, m, n) = m /\ Delay(i, m, MaxFailures) = m
    BY <2>1, <2>2, <2>3 DEF Delay, Smaller
  <2> QED
    BY <1>2, <2>4, FailuresAssumption DEF Smaller
<1> QED BY <1>1, <1>2, FailuresAssumption

-----------------------------------------------------------------------------
(* What run_once may propose. *)
Proposable ==
    {c \in [source : Sources, version : Nat, asof : Nat, evidence : SUBSET Nat] :
        c.source \in PositionSources <=> c.evidence # {}}

Proposals == [candidate : Proposable, status : {"ready", "dismissed"}]

(* What w knows of its candidate, until somebody commits. *)
WorkInv(w) ==
    /\ IF pc[w] \in {"again", "lease", "commit"} THEN picked[w] \in Proposable
                                                 ELSE picked[w] = NoPick
    /\ pc[w] \in {"lease", "commit"} /\ ~moved[w] => Valid(picked[w])
    /\ pc[w] = "commit" /\ lease /\ call \in {"recorded", "loaded"} => moved[w]

(* What the worker's policy counts, and what it computed from it. *)
PolicyInv ==
    /\ streak \in Nat
    /\ failures = Smaller(streak, MaxFailures)
    /\ delay = IF streak = 0 THEN 0
               ELSE Delay(setting.initial, setting.maximum, streak - 1)

IInv ==
    /\ TypeOK
    /\ setting \in Settings /\ ValidConfig(setting.initial, setting.maximum)
    /\ initiatives \in Seq(Proposals)
    /\ picked \in [Procs -> Proposable \cup {NoPick}]
    /\ \A w \in Procs : WorkInv(w)
    /\ ProposedOnce
    /\ PolicyInv

-----------------------------------------------------------------------------
(* Without a commit the agenda and its candidates stay what they are. *)
LEMMA WorldKept ==
    ASSUME UNCHANGED world
    PROVE  /\ \A s \in Sources : Candidate(s)' = Candidate(s)
           /\ \A c : Valid(c)' <=> Valid(c)
<1> USE DEF world
<1>1. Agenda' = Agenda
  <2>1. Candidates' = Candidates
    BY DEF Candidates, ConflictCandidate, CommitmentCandidate, PositionCandidate, Evidence,
           Newest, LastEvent, Open
  <2> QED BY <2>1 DEF Agenda
<1>2. \A s : Candidate(s)' = Candidate(s)
  BY DEF Candidate, Version, Evidence, Newest, LastEvent
<1> QED BY <1>1, <1>2 DEF Valid, Version

(* A step that leaves v alone leaves true what v knows, if it says so when it commits or
   makes way for a call. *)
LEMMA WorkKept ==
    ASSUME IInv, NEW v \in Procs, pc'[v] = pc[v], picked'[v] = picked[v], moved[v] => moved'[v],
           UNCHANGED world \/ pc[v] \notin {"lease", "commit"} \/ moved'[v],
           \/ lease' /\ call' \in {"recorded", "loaded"} => lease /\ call \in {"recorded", "loaded"}
           \/ pc[v] # "commit" \/ moved'[v]
    PROVE  WorkInv(v)'
<1>1. WorkInv(v)
  BY DEF IInv
<1>2. CASE moved'[v]
  BY <1>1, <1>2 DEF WorkInv
<1>3. CASE ~moved'[v]
  <2>1. pc[v] \in {"lease", "commit"} => Valid(picked[v])' = Valid(picked[v])
    BY <1>3, WorldKept DEF Valid, Version, world
  <2> QED BY <1>1, <1>3, <2>1 DEF WorkInv
<1> QED BY <1>2, <1>3

(* No candidate is no candidate. *)
LEMMA NoPickIsNone == NoPick \notin Proposable
  BY NoneAssumption DEF NoPick, Proposable

(* What next_delay does is within what the policy may be. *)
LEMMA WaitsPolicy ==
    ASSUME IInv, NEW w \in Procs, NEW failed \in BOOLEAN, Waits(w, failed), UNCHANGED setting
    PROVE  PolicyInv' /\ failures' \in 0..MaxFailures /\ delay' \in 0..DurationMax
<1> DEFINE i == setting.initial
           m == setting.maximum
<1>1. /\ i \in Nat \ {0} /\ m \in 0..DurationMax /\ m >= i
      /\ PolicyInv /\ failures \in 0..MaxFailures /\ delay \in 0..DurationMax
  BY SettingsAssumption DEF IInv, TypeOK, ValidConfig
<1>2. CASE UNCHANGED <<failures, delay, streak>>
  BY <1>1, <1>2 DEF PolicyInv, Delay
<1>3. CASE /\ delay' = BoundedBackoff(i, m, failures)
           /\ failures' = OneMore(failures) /\ streak' = streak + 1
  <2>1. /\ streak \in Nat /\ streak' \in Nat /\ streak' # 0 /\ streak' - 1 = streak
        /\ failures = Smaller(streak, MaxFailures)
    BY <1>1, <1>3 DEF PolicyInv
  <2>2. delay' = Delay(i, m, streak)
    <3>1. BoundedBackoff(i, m, failures) = Delay(i, m, failures)
      BY <1>1, BoundedBackoffIs, FailuresAssumption
    <3>2. Delay(i, m, failures) = Delay(i, m, streak)
      BY <1>1, <2>1, CountSaturates
    <3> QED BY <1>3, <3>1, <3>2
  <2>3. failures' = Smaller(streak', MaxFailures) /\ failures' \in 0..MaxFailures
    BY <1>3, <2>1, FailuresAssumption DEF OneMore, Smaller
  <2>4. delay' \in 0..DurationMax
    <3>1. i * 2 ^ streak \in Nat
      BY <1>1, <2>1, Twice
    <3> QED BY <1>1, <2>2, <3>1, DurationAssumption DEF Delay, Smaller
  <2> QED
    BY <2>1, <2>2, <2>3, <2>4 DEF PolicyInv, Delay
<1>4. CASE delay' = 0 /\ failures' = 0 /\ streak' = 0
  BY <1>4, FailuresAssumption, DurationAssumption DEF PolicyInv, Smaller
<1> QED
  BY <1>2, <1>3, <1>4 DEF Waits

(* A step of w that commits nothing: it is enough to know where w is afterwards. *)
LEMMA ServiceLocally ==
    ASSUME IInv, NEW w \in Procs,
           UNCHANGED <<setting, world, initiatives, foreground, dismissal>>,
           pc' \in [Procs -> {"idle", "check", "state", "events", "again", "lease", "commit"}],
           moved' \in [Procs -> BOOLEAN], picked' \in [Procs -> Proposable \cup {NoPick}],
           \A v \in Procs \ {w} : /\ pc'[v] = pc[v] /\ picked'[v] = picked[v]
                                  /\ moved'[v] = moved[v],
           WorkInv(w)', PolicyInv', failures' \in 0..MaxFailures, delay' \in 0..DurationMax
    PROVE  IInv'
<1>1. \A v \in Procs : WorkInv(v)'
  BY WorkKept DEF foreground
<1>2. \A v \in Procs : (picked[v] # NoPick <=> pc[v] \in {"again", "lease", "commit"})'
  BY <1>1, NoPickIsNone DEF WorkInv
<1>3. TypeOK'
  BY <1>2 DEF IInv, TypeOK, world, foreground, dismissal
<1> QED
  BY <1>1, <1>3 DEF IInv, ProposedOnce

(* A cycle that is over. *)
LEMMA EndsWork ==
    ASSUME IInv, NEW w \in Procs, Ends(w)
    PROVE  /\ pc' \in [Procs -> {"idle", "check", "state", "events", "again", "lease", "commit"}]
           /\ picked' \in [Procs -> Proposable \cup {NoPick}]
           /\ pc'[w] = "idle" /\ picked'[w] = NoPick
           /\ \A v \in Procs \ {w} : pc'[v] = pc[v] /\ picked'[v] = picked[v]
           /\ WorkInv(w)'
<1>1. pc' = [pc EXCEPT ![w] = "idle"] /\ picked' = [picked EXCEPT ![w] = NoPick]
  BY DEF Ends, Goes
<1>2. pc'[w] = "idle" /\ picked'[w] = NoPick
  BY <1>1 DEF IInv, TypeOK
<1>3. WorkInv(w)'
  BY <1>2 DEF WorkInv
<1> QED
  BY <1>1, <1>2, <1>3 DEF IInv, TypeOK

(* The cycle is over, without a proposal. *)
LEMMA EndsStep ==
    ASSUME IInv, NEW w \in Procs, Ends(w), moved' = [moved EXCEPT ![w] = FALSE],
           UNCHANGED <<setting, world, initiatives, foreground, dismissal>>,
           PolicyInv', failures' \in 0..MaxFailures, delay' \in 0..DurationMax
    PROVE  IInv'
<1>1. moved' \in [Procs -> BOOLEAN] /\ \A v \in Procs \ {w} : moved'[v] = moved[v]
  BY DEF IInv, TypeOK
<1> QED
  BY <1>1, EndsWork, ServiceLocally

(* Deferred, NoCandidate, Duplicate. *)
LEMMA ReturnsStep ==
    ASSUME IInv, NEW w \in Procs, Returns(w),
           UNCHANGED <<setting, world, initiatives, foreground, dismissal>>
    PROVE  IInv'
  BY WaitsPolicy, EndsStep DEF Returns

(* The cycle fails, or its process dies. *)
LEMMA FailsStep ==
    ASSUME IInv, NEW w \in Procs, Fails(w) \/ Dies(w)
    PROVE  IInv'
<1>1. CASE Fails(w)
  BY <1>1, WaitsPolicy, EndsStep DEF Fails
<1>2. CASE Dies(w)
  <2>1. PolicyInv' /\ failures' \in 0..MaxFailures /\ delay' \in 0..DurationMax
    <3>1. CASE UNCHANGED <<failures, delay, streak>>
      BY <1>2, <3>1 DEF Dies, IInv, TypeOK, PolicyInv, Delay
    <3>2. CASE failures' = 0 /\ delay' = 0 /\ streak' = 0
      BY <3>2, FailuresAssumption, DurationAssumption DEF PolicyInv, Smaller
    <3> QED BY <1>2, <3>1, <3>2 DEF Dies
  <2> QED
    BY <1>2, <2>1, EndsStep DEF Dies
<1> QED BY <1>1, <1>2

(* From one place to the next, with or without a candidate. *)
LEMMA GoesOn ==
    ASSUME IInv, NEW w \in Procs, NEW next \in {"check", "state", "events", "again", "lease", "commit"},
           Goes(w, next), UNCHANGED <<setting, world, initiatives, foreground, dismissal, policy>>,
           UNCHANGED moved \/ moved' = [moved EXCEPT ![w] = FALSE],
           picked' \in [Procs -> Proposable \cup {NoPick}],
           \A v \in Procs \ {w} : picked'[v] = picked[v],
           WorkInv(w)'
    PROVE  IInv'
<1>1. /\ pc' \in [Procs -> {"idle", "check", "state", "events", "again", "lease", "commit"}]
      /\ \A v \in Procs \ {w} : pc'[v] = pc[v]
  BY DEF IInv, TypeOK, Goes
<1>2. moved' \in [Procs -> BOOLEAN] /\ \A v \in Procs \ {w} : moved'[v] = moved[v]
  BY DEF IInv, TypeOK
<1>3. PolicyInv' /\ failures' \in 0..MaxFailures /\ delay' \in 0..DurationMax
  BY DEF IInv, TypeOK, PolicyInv, policy, Delay
<1> QED
  BY <1>1, <1>2, <1>3, ServiceLocally

(* Before the choice there is no candidate to know anything of. *)
LEMMA GoesOnEmpty ==
    ASSUME IInv, NEW w \in Procs, NEW next \in {"check", "state", "events"}, Goes(w, next),
           pc[w] \notin {"again", "lease", "commit"},
           UNCHANGED <<setting, world, initiatives, foreground, dismissal, policy, picked>>,
           UNCHANGED moved \/ moved' = [moved EXCEPT ![w] = FALSE]
    PROVE  IInv'
<1>1. pc'[w] = next /\ picked[w] = NoPick /\ picked \in [Procs -> Proposable \cup {NoPick}]
  BY DEF IInv, TypeOK, WorkInv, Goes
<1>2. WorkInv(w)'
  BY <1>1 DEF WorkInv
<1> QED BY <1>1, <1>2, GoesOn

(* The worker's cycle and the command begin, look at the lease and load the state. *)
LEMMA BeginsStep ==
    ASSUME IInv, \/ Cycle \/ Command
                 \/ \E w \in Procs : CheckLease(w) \/ LoadState(w)
    PROVE  IInv'
<1>1. CASE Cycle
  <2>1. Worker \in Procs
    BY DEF Procs
  <2> QED BY <1>1, <2>1, ReturnsStep, GoesOnEmpty DEF Cycle, Stays
<1>2. CASE Command
  <2>1. Once \in Procs
    BY DEF Procs
  <2> QED BY <1>2, <2>1, GoesOnEmpty DEF Command, service
<1>3. ASSUME NEW w \in Procs, CheckLease(w) PROVE IInv'
  BY <1>3, ReturnsStep, GoesOnEmpty DEF CheckLease, Stays
<1>4. ASSUME NEW w \in Procs, LoadState(w) PROVE IInv'
  BY <1>4, GoesOnEmpty DEF LoadState
<1> QED BY <1>1, <1>2, <1>3, <1>4

(* A candidate of the agenda can be proposed: a position is not without evidence. *)
LEMMA AgendaProposable ==
    ASSUME IInv, NEW s \in Agenda
    PROVE  s \in Sources /\ Candidate(s) \in Proposable
<1>1. s \in Sources /\ s \in Candidates
  BY DEF Agenda, Candidates, ConflictSources, CommitmentSources, PositionSources
<1>2. Version(s) \in Nat /\ clock \in Nat
  BY <1>1, SettingsAssumption DEF IInv, TypeOK, Version
<1>3. ASSUME s \in PositionSources PROVE Evidence(s) \in SUBSET Nat /\ Evidence(s) # {}
  <2>1. about[s] \subseteq Nat
    BY <1>2, <1>3 DEF IInv, TypeOK
  <2>2. Evidence(s) # {}
    BY <1>1, <1>3, KindsAssumption
    DEF Candidates, PositionCandidate, ConflictSources, CommitmentSources, PositionSources
  <2> QED BY <2>1, <2>2 DEF Evidence, Newest
<1> QED
  BY <1>1, <1>2, <1>3 DEF Candidate, Proposable

(* The choice. *)
LEMMA SelectStep == ASSUME IInv, NEW w \in Procs, Select(w) PROVE IInv'
<1>1. CASE Returns(w)
  BY <1>1, ReturnsStep DEF Select
<1>2. CASE ~Returns(w)
  <2>1. PICK s \in Picks : picked' = [picked EXCEPT ![w] = Candidate(s)]
    BY <1>2 DEF Select
  <2>2. Goes(w, "again") /\ UNCHANGED <<setting, world, initiatives, foreground, dismissal, policy, moved>>
    BY <1>2 DEF Select, Stays
  <2>3. Candidate(s) \in Proposable
    BY AgendaProposable DEF Picks
  <2>4. /\ picked' \in [Procs -> Proposable \cup {NoPick}] /\ picked'[w] = Candidate(s)
        /\ pc'[w] = "again"
    BY <2>1, <2>2, <2>3 DEF IInv, TypeOK, Goes
  <2>5. WorkInv(w)'
    BY <2>3, <2>4 DEF WorkInv
  <2> QED
    BY <2>1, <2>2, <2>4, <2>5, GoesOn
<1> QED BY <1>1, <1>2

(* The second snapshot and the second look at the lease. *)
LEMMA ChecksStep ==
    ASSUME IInv, NEW w \in Procs, Revalidate(w) \/ CheckLeaseAgain(w)
    PROVE  IInv'
<1>1. CASE Returns(w)
  BY <1>1, ReturnsStep DEF Revalidate, CheckLeaseAgain
<1>2. ASSUME ~Returns(w), NEW next \in {"lease", "commit"}, Goes(w, next), Valid(picked[w]) \/ moved[w],
             pc[w] \in {"again", "lease"}, next = "commit" => ~lease,
             UNCHANGED <<setting, world, initiatives, foreground, dismissal, policy, picked, moved>>
      PROVE  IInv'
  <2>1. pc'[w] = next
    BY <1>2 DEF IInv, TypeOK, Goes
  <2>2. Valid(picked[w])' <=> Valid(picked[w])
    BY <1>2, WorldKept DEF Valid, Version, world
  <2>3. WorkInv(w)'
    BY <1>2, <2>1, <2>2 DEF IInv, WorkInv, foreground
  <2> QED
    BY <1>2, <2>3, GoesOn DEF IInv
<1>3. CASE Revalidate(w) /\ ~Returns(w)
  BY <1>2, <1>3 DEF Revalidate, Stays
<1>4. CASE CheckLeaseAgain(w) /\ ~Returns(w)
  <2>1. Valid(picked[w]) \/ moved[w]
    BY <1>4 DEF IInv, WorkInv, CheckLeaseAgain
  <2> QED BY <1>2, <1>4, <2>1 DEF CheckLeaseAgain, Stays
<1> QED BY <1>1, <1>3, <1>4

(* What a batch overtakes. *)
LEMMA OvertakesType ==
    ASSUME NEW w, Overtakes(w) PROVE moved' \in [Procs -> BOOLEAN] /\ late' \in BOOLEAN
<1>1. moved' \in [Procs -> BOOLEAN]
  BY DEF Overtakes
<1>2. late' \in BOOLEAN
  BY DEF Overtakes
<1> QED BY <1>1, <1>2

(* A proposal is recorded, if there is none with its fingerprint. *)
LEMMA ProposeStep == ASSUME IInv, NEW w \in Procs, Propose(w) PROVE IInv'
<1>1. CASE moved[w]
  <2>1. Returns(w) /\ UNCHANGED <<setting, world, initiatives, late, lease, call, dismissing>>
    BY <1>1 DEF Propose
  <2>2. behind' = behind
    BY <2>1 DEF Propose, IInv, TypeOK
  <2> QED BY <2>1, <2>2, ReturnsStep DEF foreground, dismissal
<1>2. CASE ~moved[w]
  <2> DEFINE c == picked[w]
  <2>1. /\ pc[w] = "commit" /\ Admits(c) /\ Record(c) /\ Overtakes(w) /\ Ends(w)
        /\ Waits(w, FALSE) /\ UNCHANGED <<setting, world, lease, call, dismissing>>
        /\ behind' = (behind \/ (call = "loaded" /\ initiatives' # initiatives))
    BY <1>2 DEF Propose
  <2>2. c \in Proposable /\ initiatives \in Seq(Proposals)
    BY <2>1 DEF IInv, WorkInv
  <2>3. /\ initiatives' = Append(initiatives, [candidate |-> c, status |-> "ready"])
        /\ [candidate |-> c, status |-> "ready"] \in Proposals
    BY <2>1, <2>2 DEF Record, Proposals
  <2>4. /\ initiatives' \in Seq(Proposals) /\ Len(initiatives') = Len(initiatives) + 1
        /\ \A i \in 1..Len(initiatives) : initiatives'[i] = initiatives[i]
        /\ initiatives'[Len(initiatives) + 1] = [candidate |-> c, status |-> "ready"]
    BY <2>2, <2>3, AppendProperties
  <2>5. PolicyInv' /\ failures' \in 0..MaxFailures /\ delay' \in 0..DurationMax
    BY <2>1, WaitsPolicy
  <2>6. \A v \in Procs : WorkInv(v)'
    <3>1. ASSUME NEW v \in Procs \ {w} PROVE WorkInv(v)'
      <4>1. pc'[v] = pc[v] /\ picked'[v] = picked[v]
        BY <2>1, EndsWork
      <4>2. pc[v] \in {"lease", "commit"} => moved'[v]
        BY <2>1 DEF Overtakes
      <4> QED BY <4>1, <4>2 DEF IInv, WorkInv
    <3> QED BY <2>1, <3>1, EndsWork
  <2>7. TypeOK'
    <3>1. \A v \in Procs : (picked[v] # NoPick <=> pc[v] \in {"again", "lease", "commit"})'
      BY <2>6, NoPickIsNone DEF WorkInv
    <3>2. pc' \in [Procs -> {"idle", "check", "state", "events", "again", "lease", "commit"}]
      BY <2>1, EndsWork
    <3>3. moved' \in [Procs -> BOOLEAN] /\ late' \in BOOLEAN
      BY <2>1, OvertakesType
    <3>4. behind' \in BOOLEAN
      BY <2>1 DEF IInv, TypeOK
    <3>5. \A i \in DOMAIN initiatives' :
             /\ initiatives'[i].status \in {"ready", "dismissed"}
             /\ initiatives'[i].candidate.source \in PositionSources
                   <=> initiatives'[i].candidate.evidence # {}
      <4>1. \A i \in DOMAIN initiatives' : initiatives'[i] \in Proposals
        BY <2>4
      <4> QED BY <4>1 DEF Proposals, Proposable
    <3>6. dismissing' \in 0..Len(initiatives')
      BY <2>1, <2>2, <2>4 DEF IInv, TypeOK
    <3> QED
      BY <2>1, <2>5, <3>1, <3>2, <3>3, <3>4, <3>5, <3>6 DEF IInv, TypeOK, world
  <2>8. ProposedOnce'
    <3>1. \A i \in 1..Len(initiatives) :
             LET d == initiatives[i].candidate
             IN <<c.source, c.version, c.evidence>> # <<d.source, d.version, d.evidence>>
      BY <2>1, <2>2 DEF Admits, Proposed, Fingerprint
    <3>2. DOMAIN initiatives = 1..Len(initiatives) /\ DOMAIN initiatives' = 1..(Len(initiatives) + 1)
      BY <2>2, <2>4
    <3> QED
      BY <2>2, <2>4, <3>1, <3>2 DEF IInv, ProposedOnce
  <2> QED
    BY <2>1, <2>4, <2>5, <2>6, <2>7, <2>8, EndsWork DEF IInv
<1> QED BY <1>1, <1>2

-----------------------------------------------------------------------------
(* What a foreground call does without committing. *)
LEMMA CallWaitsStep ==
    ASSUME IInv, CallBegins \/ CallLoads \/ CallFails \/ CallDies \/ LeaseRunsOut
    PROVE  IInv'
<1>1. /\ UNCHANGED <<setting, world, initiatives, service, dismissal, policy>>
      /\ lease' \in BOOLEAN /\ behind' \in BOOLEAN
      /\ call' \in {"idle", "begun", "recorded", "loaded"}
      /\ lease' /\ call' \in {"recorded", "loaded"} => lease /\ call \in {"recorded", "loaded"}
  <2>1. lease \in BOOLEAN /\ behind \in BOOLEAN /\ call \in {"idle", "begun", "recorded", "loaded"}
    BY DEF IInv, TypeOK
  <2>2. CASE CallBegins
    BY <2>1, <2>2 DEF CallBegins
  <2>3. CASE CallLoads
    <3>1. /\ UNCHANGED <<setting, world, initiatives, service, dismissal, policy>>
          /\ lease' = lease /\ behind' = FALSE /\ call = "recorded" /\ call' = "loaded"
      BY <2>3 DEF CallLoads
    <3>2. lease' \in BOOLEAN /\ behind' \in BOOLEAN
      BY <2>1, <3>1
    <3>3. lease' => lease
      BY <3>1
    <3> QED BY <3>1, <3>2, <3>3
  <2>4. CASE CallFails \/ CallDies
    BY <2>1, <2>4 DEF CallFails, CallEnds, CallDies
  <2>5. CASE LeaseRunsOut
    BY <2>1, <2>5 DEF LeaseRunsOut
  <2> QED BY <2>2, <2>3, <2>4, <2>5
<1>2. \A v \in Procs : WorkInv(v)'
  BY <1>1, WorkKept DEF service
<1>3. TypeOK'
  BY <1>1 DEF IInv, TypeOK, world, service, dismissal, policy
<1> QED
  BY <1>1, <1>2, <1>3 DEF IInv, ProposedOnce, PolicyInv, Delay, service, policy

(* What a call commits: everybody's load is old. *)
LEMMA WorldMoves ==
    ASSUME IInv, CallOvertakes, UNCHANGED <<setting, initiatives, pc, picked, dismissing, policy>>,
           clock' \in Nat, clock' <= setting.clock,
           source' \in [Sources -> [status: {"absent", "open", "closed"},
                                    version: Nat, stamp: 0..clock']],
           \A s \in Sources : source'[s].status = "absent" <=> source'[s].version = 0,
           about' \in [PositionSources -> SUBSET (1..clock')],
           lease' \in BOOLEAN, behind' \in BOOLEAN,
           call' \in {"idle", "begun", "recorded", "loaded"}
    PROVE  IInv'
<1>1. moved' \in [Procs -> BOOLEAN]
  BY DEF CallOvertakes
<1>2. late' \in BOOLEAN
  BY DEF CallOvertakes
<1>3. \A v \in Procs : WorkInv(v)'
  <2>1. \A v \in Procs : pc[v] \in {"lease", "commit"} => moved'[v]
    BY DEF CallOvertakes
  <2> QED BY <2>1 DEF IInv, WorkInv
<1>4. clock' \in 0..setting'.clock
  BY SettingsAssumption DEF IInv
<1>5. TypeOK'
  BY <1>1, <1>2, <1>4 DEF IInv, TypeOK, policy
<1> QED
  BY <1>3, <1>5 DEF IInv, ProposedOnce, PolicyInv, Delay, policy

(* The user's message. *)
LEMMA CallRecordsStep ==
    ASSUME IInv, NEW related \in SUBSET PositionSources, CallRecords(related)
    PROVE  IInv'
<1>1. clock \in Nat /\ setting.clock \in Nat /\ clock' = clock + 1 /\ clock < setting.clock
  BY SettingsAssumption DEF IInv, TypeOK, CallRecords
<1>2. about' \in [PositionSources -> SUBSET (1..clock')]
  <2>1. \A q \in PositionSources : about[q] \subseteq 1..clock
    BY DEF IInv, TypeOK
  <2> QED BY <1>1, <2>1 DEF CallRecords
<1>3. source' \in [Sources -> [status: {"absent", "open", "closed"},
                               version: Nat, stamp: 0..clock']]
  BY <1>1 DEF IInv, TypeOK, CallRecords
<1> QED
  BY <1>1, <1>2, <1>3, WorldMoves DEF IInv, TypeOK, CallRecords

(* The answer, with what it makes of a conflict, a commitment or a position. *)
LEMMA CallCommitsStep == ASSUME IInv, CallCommits PROVE IInv'
<1>1. /\ clock \in Nat /\ setting.clock \in Nat /\ clock' = clock + 1 /\ clock < setting.clock
      /\ UNCHANGED about
  BY SettingsAssumption DEF IInv, TypeOK, CallCommits
<1>2. about' \in [PositionSources -> SUBSET (1..clock')]
  BY <1>1 DEF IInv, TypeOK
<1> DEFINE Entry == [status: {"absent", "open", "closed"}, version: Nat, stamp: 0..clock']
           Typed == /\ source' \in [Sources -> Entry]
                    /\ \A s \in Sources : source'[s].status = "absent" <=> source'[s].version = 0
<1>3. source \in [Sources -> Entry]
  BY <1>1 DEF IInv, TypeOK
<1>4. Typed
  <2>1. ASSUME NEW s \in Sources, NEW status \in {"open", "closed"}, NEW version \in Nat \ {0},
               Becomes(s, status, version)
        PROVE  Typed
    BY <1>1, <1>3, <2>1 DEF IInv, TypeOK, Becomes
  <2>2. CASE UNCHANGED source
    BY <1>3, <2>2 DEF IInv, TypeOK
  <2>3. ASSUME NEW s \in ConflictSources, ConflictMoves(s) PROVE Typed
    <3>1. s \in Sources /\ source[s].version \in Nat
      BY <1>3 DEF ConflictSources
    <3> QED BY <2>1, <2>3, <3>1 DEF ConflictMoves
  <2>4. ASSUME NEW s \in Sources, Moves(s) PROVE Typed
    <3>1. source[s].version \in Nat
      BY <1>3
    <3>2. Open(s) => source[s].version # 0
      BY DEF Open, IInv, TypeOK
    <3> QED BY <2>1, <2>4, <3>1, <3>2 DEF Moves
  <2> QED BY <2>2, <2>3, <2>4 DEF CallCommits
<1> HIDE DEF Entry
<1>5. lease' \in BOOLEAN /\ behind' \in BOOLEAN /\ call' = "idle"
  BY DEF CallCommits, CallEnds
<1> QED
  BY <1>1, <1>2, <1>4, <1>5, WorldMoves DEF CallCommits, Entry

(* A dismissal reads what it is going to dismiss, ... *)
LEMMA DismissLoadStep ==
    ASSUME IInv, NEW i \in DOMAIN initiatives, DismissLoad(i) PROVE IInv'
<1>1. i \in 1..Len(initiatives)
  BY DEF IInv
<1>2. /\ UNCHANGED <<setting, world, initiatives, foreground, service, policy>>
      /\ dismissing' \in 0..Len(initiatives) /\ late' = FALSE
  BY <1>1 DEF DismissLoad
<1>3. \A v \in Procs : WorkInv(v)'
  BY <1>2, WorkKept DEF service, foreground
<1>4. TypeOK'
  BY <1>2 DEF IInv, TypeOK, world, foreground, service, policy
<1> QED
  BY <1>2, <1>3, <1>4 DEF IInv, ProposedOnce, PolicyInv, Delay, service, policy

(* ... and then changes its status. *)
LEMMA DismissStep == ASSUME IInv, Dismiss PROVE IInv'
<1>1. /\ dismissing' = 0 /\ late' = FALSE /\ dismissing \in 1..Len(initiatives)
      /\ UNCHANGED <<setting, world, lease, call, pc, picked, policy>>
  BY DEF IInv, TypeOK, Dismiss
<1>2. CASE late
  <2>1. UNCHANGED <<initiatives, behind, moved>>
    BY <1>2 DEF Dismiss
  <2>2. \A v \in Procs : WorkInv(v)'
    BY <1>1, <2>1, WorkKept
  <2>3. TypeOK'
    <3>1. dismissing' \in 0..Len(initiatives')
      BY <1>1, <2>1 DEF IInv
    <3>2. late' \in BOOLEAN
      BY <1>1
    <3>3. UNCHANGED <<setting, source, about, clock, lease, call, pc, picked, failures, delay>>
      BY <1>1 DEF world, policy
    <3> QED
      BY <2>1, <3>1, <3>2, <3>3 DEF IInv, TypeOK
  <2> QED
    BY <1>1, <2>1, <2>2, <2>3 DEF IInv, ProposedOnce, PolicyInv, Delay, policy
<1>3. CASE ~late
  <2>1. /\ initiatives' = [initiatives EXCEPT ![dismissing].status = "dismissed"]
        /\ behind' = (call = "loaded")
        /\ moved' = [v \in Procs |-> pc[v] \notin {"idle", "check", "state"}]
    BY <1>3 DEF Dismiss, DismissesReady
  <2>2. initiatives \in Seq(Proposals) /\ DOMAIN initiatives = 1..Len(initiatives)
    BY DEF IInv
  <2> DEFINE entry == [initiatives[dismissing] EXCEPT !.status = "dismissed"]
  <2>3. initiatives[dismissing] \in Proposals
    BY <1>1, <2>2
  <2>4. entry \in Proposals /\ entry.candidate = initiatives[dismissing].candidate
    BY <2>3 DEF Proposals
  <2>5. initiatives' = [initiatives EXCEPT ![dismissing] = entry]
    BY <2>1
  <2> HIDE DEF entry
  <2>6. /\ initiatives' \in Seq(Proposals) /\ Len(initiatives') = Len(initiatives)
        /\ DOMAIN initiatives' = DOMAIN initiatives
        /\ \A i \in DOMAIN initiatives : initiatives'[i] \in Proposals
    BY <1>1, <2>2, <2>4, <2>5, ExceptSeq
  <2>7. \A i \in DOMAIN initiatives : initiatives'[i].candidate = initiatives[i].candidate
    BY <1>1, <2>2, <2>4, <2>5
  <2>8. \A v \in Procs : WorkInv(v)'
    <3>1. \A v \in Procs : pc[v] \in {"lease", "commit"} => moved'[v]
      BY <2>1
    <3> QED BY <1>1, <3>1 DEF IInv, WorkInv
  <2>9. TypeOK'
    <3>1. moved' \in [Procs -> BOOLEAN]
      BY <2>1
    <3>2. behind' \in BOOLEAN
      BY <2>1
    <3>3. \A i \in DOMAIN initiatives' :
             /\ initiatives'[i].status \in {"ready", "dismissed"}
             /\ initiatives'[i].candidate.source \in PositionSources
                   <=> initiatives'[i].candidate.evidence # {}
      BY <2>6 DEF Proposals, Proposable
    <3>4. dismissing' \in 0..Len(initiatives')
      BY <1>1, <2>2, <2>6
    <3>5. UNCHANGED <<setting, source, about, clock, lease, call, pc, picked, failures, delay>>
      BY <1>1 DEF world, policy
    <3>6. late' \in BOOLEAN
      BY <1>1
    <3> QED
      BY <3>1, <3>2, <3>3, <3>4, <3>5, <3>6 DEF IInv, TypeOK
  <2>10. ProposedOnce'
    BY <2>6, <2>7 DEF IInv, ProposedOnce
  <2> QED
    BY <1>1, <2>6, <2>8, <2>9, <2>10 DEF IInv, PolicyInv, Delay, policy
<1> QED BY <1>2, <1>3

-----------------------------------------------------------------------------
(* The invariant holds from the start. *)
LEMMA InitInv == Init => IInv
<1> SUFFICES ASSUME Init PROVE IInv
  OBVIOUS
<1>1. setting.clock \in Nat /\ setting.open \subseteq Sources
  BY SettingsAssumption DEF Init
<1>2. /\ source \in [Sources -> [status: {"absent", "open", "closed"}, version: Nat, stamp: 0..clock]]
      /\ \A s \in Sources : source[s].status = "absent" <=> source[s].version = 0
  BY DEF Init
<1>3. initiatives \in Seq(Proposals) /\ Len(initiatives) = 0 /\ DOMAIN initiatives = {}
  BY DEF Init
<1>4. /\ picked = [w \in Procs |-> NoPick] /\ pc = [w \in Procs |-> "idle"]
      /\ picked \in [Procs -> Proposable \cup {NoPick}]
  BY DEF Init
<1>5. moved \in [Procs -> BOOLEAN]
  BY DEF Init
<1>6. TypeOK
  <2>1. /\ about \in [PositionSources -> SUBSET (1..clock)] /\ clock \in 0..setting.clock
    BY <1>1 DEF Init
  <2>2. /\ lease \in BOOLEAN /\ behind \in BOOLEAN /\ late \in BOOLEAN
        /\ call \in {"idle", "begun", "recorded", "loaded"}
        /\ pc \in [Procs -> {"idle", "check", "state", "events", "again", "lease", "commit"}]
    BY DEF Init
  <2>3. dismissing \in 0..Len(initiatives)
    BY <1>3 DEF Init
  <2>4. failures \in 0..MaxFailures /\ delay \in 0..DurationMax
    BY FailuresAssumption, DurationAssumption DEF Init
  <2>5. \A w \in Procs : picked[w] # NoPick <=> pc[w] \in {"again", "lease", "commit"}
    BY <1>4
  <2> QED
    BY <1>2, <1>3, <1>5, <2>1, <2>2, <2>3, <2>4, <2>5 DEF TypeOK
<1>7. \A w \in Procs : WorkInv(w)
  BY <1>4 DEF WorkInv
<1>8. ProposedOnce /\ PolicyInv
  BY <1>3, FailuresAssumption DEF Init, ProposedOnce, PolicyInv, Smaller
<1> QED
  BY <1>3, <1>4, <1>6, <1>7, <1>8 DEF Init, IInv

(* Every step keeps it. *)
LEMMA StepInv == IInv /\ [Next]_vars => IInv'
<1> SUFFICES ASSUME IInv, [Next]_vars PROVE IInv'
  OBVIOUS
<1>1. CASE UNCHANGED vars
  <2>1. \A v \in Procs : WorkInv(v)'
    BY <1>1, WorkKept DEF vars, foreground, service
  <2>2. TypeOK'
    BY <1>1 DEF IInv, TypeOK, vars, world, foreground, service, dismissal, policy
  <2> QED
    BY <1>1, <2>1, <2>2 DEF IInv, ProposedOnce, PolicyInv, Delay, vars, service, policy
<1>2. CASE CallStep
  <2>1. ASSUME NEW related \in SUBSET {q \in PositionSources : Open(q)}, CallRecords(related)
        PROVE  IInv'
    BY <2>1, CallRecordsStep
  <2> QED BY <1>2, <2>1, CallWaitsStep, CallCommitsStep DEF CallStep
<1>3. CASE CallStops \/ LeaseRunsOut
  BY <1>3, CallWaitsStep DEF CallStops
<1>4. CASE Cycle \/ Command
  BY <1>4, BeginsStep
<1>5. ASSUME NEW w \in Procs, ServiceStep(w) \/ Fails(w) \/ Dies(w) PROVE IInv'
  BY <1>5, BeginsStep, SelectStep, ChecksStep, ProposeStep, FailsStep DEF ServiceStep
<1>6. ASSUME NEW i \in DOMAIN initiatives, DismissLoad(i) PROVE IInv'
  BY <1>6, DismissLoadStep
<1>7. CASE Dismiss
  BY <1>7, DismissStep
<1> QED
  BY <1>1, <1>2, <1>3, <1>4, <1>5, <1>6, <1>7 DEF Next

(* The conjunction of what is proved about the service is inductive. *)
THEOREM Invariance == Spec => []IInv
  BY InitInv, StepInv, PTL DEF Spec

(* Every variable stays within its type. *)
THEOREM TypeCorrect == Spec => []TypeOK
<1>1. IInv => TypeOK
  BY DEF IInv
<1> QED BY <1>1, Invariance, PTL

(* No two proposals have the same fingerprint, dismissed or not (run_once,
   apply_initiative_proposed, apply_initiative_dismissed). *)
THEOREM ProposedOnceTheorem == Spec => []ProposedOnce
<1>1. IInv => ProposedOnce
  BY DEF IInv
<1> QED BY <1>1, Invariance, PTL

(* The waiting time of the worker's policy doubles from the initial backoff up to the
   maximum, as that of the Sleep worker does (next_delay, bounded_backoff). *)
THEOREM BacksOffTheorem == Spec => []BacksOff
<1>1. IInv => BacksOff
  <2> SUFFICES ASSUME IInv, streak > 0
               PROVE  /\ delay = Delay(setting.initial, setting.maximum, streak - 1)
                      /\ delay = SleepBackoff(setting.initial, setting.maximum,
                                              Smaller(streak - 1, MaxFailures))
    BY DEF BacksOff, Delay
  <2> DEFINE i == setting.initial
             m == setting.maximum
  <2>1. /\ i \in Nat \ {0} /\ m \in 0..DurationMax /\ m >= i
        /\ streak - 1 \in Nat /\ delay = Delay(i, m, streak - 1)
    BY SettingsAssumption DEF IInv, ValidConfig, PolicyInv
  <2>2. SleepBackoff(i, m, Smaller(streak - 1, MaxFailures))
           = Delay(i, m, Smaller(streak - 1, MaxFailures))
    <3>1. Smaller(streak - 1, MaxFailures) \in Nat
      BY <2>1, FailuresAssumption DEF Smaller
    <3> QED BY <2>1, <3>1, SleepBackoffIs
  <2> QED
    BY <2>1, <2>2, CountSaturates
<1> QED BY <1>1, Invariance, PTL

(* Only Propose makes the list longer, by the candidate it picked. *)
LEMMA OnlyPropose ==
    ASSUME IInv, Next, Len(initiatives') > Len(initiatives)
    PROVE  \E w \in Procs :
              /\ Propose(w) /\ pc[w] = "commit" /\ ~moved[w]
              /\ initiatives'[Len(initiatives')].candidate = picked[w]
<1>1. initiatives \in Seq(Proposals) /\ Len(initiatives) \in Nat
  BY DEF IInv
<1>2. initiatives' # initiatives
  BY <1>1
<1>3. ~Dismiss
  <2>1. SUFFICES ASSUME Dismiss PROVE Len(initiatives') = Len(initiatives)
    BY <1>1
  <2> QED BY <1>1, <1>2, <2>1 DEF Dismiss, DismissesReady
<1>4. PICK w \in Procs : Propose(w)
  BY <1>2, <1>3
  DEF Next, CallStep, CallBegins, CallRecords, CallLoads, CallCommits, CallStops, CallFails,
      CallDies, LeaseRunsOut, Cycle, Command, ServiceStep, CheckLease, LoadState, Select,
      Revalidate, CheckLeaseAgain, Fails, Dies, DismissLoad
<1>5. /\ pc[w] = "commit" /\ ~moved[w]
      /\ initiatives' = Append(initiatives, [candidate |-> picked[w], status |-> "ready"])
  BY <1>2, <1>4 DEF Propose, Record
<1>6. initiatives'[Len(initiatives')] = [candidate |-> picked[w], status |-> "ready"]
  BY <1>1, <1>5
<1> QED BY <1>4, <1>5, <1>6

(* What is proposed is on the agenda, as it is, when the proposal is committed: nobody
   committed since it was validated (propose_candidate). *)
THEOREM FromTheAgendaTheorem == Spec => ProposedFromTheAgenda
<1> DEFINE Fresh == Len(initiatives') > Len(initiatives) =>
                       LET c == initiatives'[Len(initiatives')].candidate
                       IN c.source \in Agenda /\ c = Candidate(c.source)
<1>1. IInv /\ [Next]_vars => [Fresh]_initiatives
  <2> SUFFICES ASSUME IInv, Next, Len(initiatives') > Len(initiatives)
               PROVE  Valid(initiatives'[Len(initiatives')].candidate)
    BY DEF vars, Valid
  <2>1. PICK w \in Procs : /\ pc[w] = "commit" /\ ~moved[w]
                           /\ initiatives'[Len(initiatives')].candidate = picked[w]
    BY OnlyPropose
  <2> QED BY <2>1 DEF IInv, WorkInv
<1> QED BY <1>1, Invariance, PTL DEF Spec, ProposedFromTheAgenda

(* No proposal is committed under a call that loaded its state with the lease: the call's
   first commit overtook the service, or the service saw the lease (propose_candidate). *)
THEOREM YieldsTheorem == Spec => YieldsToCalls
<1> DEFINE Yields == Len(initiatives') > Len(initiatives) => ~(call = "loaded" /\ lease)
<1>1. IInv /\ [Next]_vars => [Yields]_initiatives
  <2> SUFFICES ASSUME IInv, Next, Len(initiatives') > Len(initiatives)
               PROVE  ~(call = "loaded" /\ lease)
    BY DEF vars
  <2>1. PICK w \in Procs : pc[w] = "commit" /\ ~moved[w]
    BY OnlyPropose
  <2> QED BY <2>1 DEF IInv, WorkInv
<1> QED BY <1>1, Invariance, PTL DEF Spec, YieldsToCalls
=============================================================================
