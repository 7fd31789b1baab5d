--------------------------- MODULE CompletionProofs ---------------------------
(***************************************************************************)
(* Proofs about the completion gate, for any number of commands, tasks,    *)
(* criteria and operations.  A run of the gate is, for the operations it   *)
(* looks at, a run of Operations: what OperationsProofs proves of those    *)
(* holds here.                                                             *)
(***************************************************************************)
EXTENDS Completion, OperationsProofs

(* What a command is about to commit. *)
Works ==
    {Idle}
    \cup [does: {"define"}, k: Criteria, as: {"required", "optional"}]
    \cup [does: {"cite"}, k: Criteria, asof: Nat]
    \cup [does: {"claim"}, k: Criteria, e: Offers, asof: Nat, blocked: BOOLEAN]
    \cup [does: {"verdict"}, k: Criteria, e: Offers, verdict: {"verified", "rejected"}]
    \cup [does: {"look", "complete"}, t: Tasks]

GateTypeOK == CompletionTypeOK /\ work \in [Clerks -> Works]

(* A claim, made or about to be made, rests on valid evidence of a revision the ledger
   has reached, and a verified one may be verified. *)
Rests(e, base) == ValidEvidence(e, base) /\ base <= head

ClaimRests(k, e) ==
    /\ claim[k][e] # "absent" => Rests(e, asof[k][e])
    /\ claim[k][e] = "verified" => Verifiable(k, e)

WorkRests(c) ==
    /\ work[c].does = "cite" => work[c].asof <= head
    /\ work[c].does = "claim" => Rests(work[c].e, work[c].asof)

ClaimsRest ==
    /\ \A k \in Criteria, e \in Offers : ClaimRests(k, e)
    /\ \A c \in Clerks : WorkRests(c)

(* The gate is open for whoever evaluated it on the head as it is: the base revision
   of complete_task. *)
GateHolds ==
    \A c \in Clerks, t \in Tasks :
        work[c].does = "complete" /\ work[c].t = t /\ ~old[c] => Ready(t)

-----------------------------------------------------------------------------
(* The gate's commands change nothing of the operations; each of their commits is one
   of the other commits Operations allows for. *)
LEMMA GateStep == [CompletionNext]_completionVars => [Next]_vars
<1>1. ASSUME NEW c \in Clerks, Clerk(c) PROVE OtherCommit \/ UNCHANGED vars
  BY <1>1 DEF Clerk, DefineLoad, DefineCommit, ClaimLoad, ClaimCheck, ClaimCommit,
              VerdictLoad, VerdictCommit, CompleteLook, CompleteLoad, CompleteCommit, GivesUp,
              Decides, CommitsOn, Enters
<1> QED
  BY <1>1 DEF CompletionNext, OperationsStep, Next, completionVars

(* The gate running beside operations and approvals is, seen from these, Operations:
   its properties hold of the composition too. *)
THEOREM GateImplementsOperations == CompletionSpec => Spec
<1>1. CompletionInit => Init
  BY DEF CompletionInit
<1> QED
  BY <1>1, GateStep, PTL DEF CompletionSpec, Spec

(* The sources stay in the ledger, at the sequence they were recorded at. *)
LEMMA SourcesLast ==
    ASSUME GateTypeOK, Grows
    PROVE  /\ head' \in Nat /\ head <= head'
           /\ seq' \in [Sources -> 0..head']
           /\ \A s \in Sources : seq[s] # 0 => seq'[s] = seq[s]
<1> USE DEF GateTypeOK, CompletionTypeOK
<1>1. CASE UNCHANGED sources
  BY <1>1 DEF sources
<1>2. ASSUME NEW s \in Sources, seq[s] = 0, head' = head + 1,
             seq' = [seq EXCEPT ![s] = head + 1]
      PROVE  /\ head' \in Nat /\ head <= head'
             /\ seq' \in [Sources -> 0..head']
             /\ \A u \in Sources : seq[u] # 0 => seq'[u] = seq[u]
  <2>1. head' \in Nat /\ head <= head'
    BY <1>2
  <2>2. \A u \in Sources : seq'[u] \in 0..head'
    BY <1>2
  <2> QED
    BY <1>2, <2>1, <2>2
<1> QED
  BY <1>1, <1>2 DEF Grows

(* Type correctness of the gate: every command has in hand what it was given, and
   every claim, criterion and task is in a state the projector knows. *)
THEOREM GateTypeCorrect == CompletionSpec => []GateTypeOK
<1>1. CompletionInit /\ TypeOK => GateTypeOK
  BY DEF CompletionInit, GateTypeOK, CompletionTypeOK, Works
<1>2. GateTypeOK /\ TypeOK' /\ [CompletionNext]_completionVars => GateTypeOK'
  <2> SUFFICES ASSUME GateTypeOK, TypeOK', [CompletionNext]_completionVars
               PROVE  GateTypeOK'
    OBVIOUS
  <2> USE DEF GateTypeOK, CompletionTypeOK, gate
  <2>0. /\ Grows => head' \in Nat /\ seq' \in [Sources -> 0..head']
        /\ UNCHANGED sources => head' \in Nat /\ seq' \in [Sources -> 0..head']
    BY SourcesLast DEF sources
  <2>1. CASE OperationsStep
    BY <2>0, <2>1 DEF OperationsStep, Ages, sources
  <2>2. ASSUME NEW c \in Clerks, NEW record \in Works, Decides(c, record)
        PROVE  GateTypeOK'
    BY <2>0, <2>2 DEF Decides
  <2>3. ASSUME NEW c \in Clerks, NEW k \in Criteria, NEW as \in {"required", "optional"},
               DefineLoad(c, k, as)
        PROVE  GateTypeOK'
    BY <2>2, <2>3 DEF DefineLoad, Works
  <2>4. ASSUME NEW c \in Clerks, NEW k \in Criteria, ClaimLoad(c, k) PROVE GateTypeOK'
    BY <2>2, <2>4 DEF ClaimLoad, Works
  <2>15. ASSUME NEW c \in Clerks, NEW e \in Offers, NEW blocked \in BOOLEAN,
                ClaimCheck(c, e, blocked)
         PROVE  GateTypeOK'
    <3>1. work[c].k \in Criteria /\ work[c].asof \in Nat
      BY <2>15 DEF ClaimCheck, Works, Idle
    <3>2. work' \in [Clerks -> Works]
      BY <2>15, <3>1 DEF ClaimCheck, Works
    <3> QED
      BY <2>0, <2>15, <3>2 DEF ClaimCheck
  <2>5. ASSUME NEW c \in Clerks, NEW k \in Criteria, NEW e \in Offers,
               NEW verdict \in {"verified", "rejected"}, VerdictLoad(c, k, e, verdict)
        PROVE  GateTypeOK'
    BY <2>2, <2>5 DEF VerdictLoad, Works
  <2>6. ASSUME NEW c \in Clerks, NEW t \in Tasks, CompleteLook(c, t) PROVE GateTypeOK'
    BY <2>2, <2>6 DEF CompleteLook, Works
  <2>7. ASSUME NEW c \in Clerks, Enters(c)
        PROVE  /\ work' \in [Clerks -> Works] /\ old' \in [Clerks -> BOOLEAN]
               /\ head' \in Nat /\ seq' \in [Sources -> 0..head']
    BY <2>0, <2>7 DEF Enters, Works
  <2>8. ASSUME NEW c \in Clerks, DefineCommit(c) PROVE GateTypeOK'
    <3>1. work[c].as \in {"required", "optional"}
      BY <2>8 DEF DefineCommit, CommitsOn, Works, Idle
    <3> QED
      BY <2>7, <2>8, <3>1 DEF DefineCommit, CommitsOn
  <2>9. ASSUME NEW c \in Clerks, ClaimCommit(c) PROVE GateTypeOK'
    <3>1. work[c].k \in Criteria /\ work[c].e \in Offers /\ work[c].asof \in Nat
      BY <2>9 DEF ClaimCommit, CommitsOn, Works, Idle
    <3>2. claim' \in [Criteria -> [Offers ->
                        {"absent", "needs_validation", "verified", "rejected"}]]
      BY <2>9, <3>1 DEF ClaimCommit
    <3>3. blocker' \subseteq Claims
      BY <2>9, <3>1 DEF ClaimCommit, Claims
    <3>4. latest' \in [Criteria -> Offers \cup {None}]
      BY <2>9, <3>1 DEF ClaimCommit
    <3>5. asof' \in [Criteria -> [Offers -> Nat]]
      BY <2>9, <3>1 DEF ClaimCommit
    <3> QED
      BY <2>7, <2>9, <3>2, <3>3, <3>4, <3>5 DEF ClaimCommit, CommitsOn
  <2>10. ASSUME NEW c \in Clerks, VerdictCommit(c) PROVE GateTypeOK'
    <3>1. /\ work[c].k \in Criteria /\ work[c].e \in Offers
          /\ work[c].verdict \in {"verified", "rejected"}
      BY <2>10 DEF VerdictCommit, CommitsOn, Works, Idle
    <3> QED
      BY <2>7, <2>10, <3>1 DEF VerdictCommit, CommitsOn
  <2>11. ASSUME NEW c \in Clerks, CompleteLoad(c) PROVE GateTypeOK'
    <3>1. [work[c] EXCEPT !.does = "complete"] \in Works
      BY <2>11 DEF CompleteLoad, Works, Idle
    <3> QED
      BY <2>0, <2>11, <3>1 DEF CompleteLoad
  <2>12. ASSUME NEW c \in Clerks, CompleteCommit(c) PROVE GateTypeOK'
    BY <2>7, <2>12 DEF CompleteCommit, CommitsOn
  <2>13. ASSUME NEW c \in Clerks, GivesUp(c) PROVE GateTypeOK'
    BY <2>0, <2>13 DEF GivesUp, Works
  <2>14. CASE UNCHANGED completionVars
    BY <2>0, <2>14 DEF completionVars
  <2> HIDE DEF GateTypeOK, CompletionTypeOK, gate
  <2> QED
    BY <2>1, <2>3, <2>4, <2>5, <2>6, <2>8, <2>9, <2>10, <2>11, <2>12, <2>13, <2>14,
       <2>15 DEF CompletionNext, Clerk
<1> QED
  BY <1>1, <1>2, GateImplementsOperations, TypeCorrect, PTL DEF CompletionSpec

-----------------------------------------------------------------------------
(* The same evidence is not claimed twice for a criterion. *)
ClaimedOnce ==
    \A k \in Criteria, e, f \in Offers :
        /\ claim[k][e] # "absent" /\ claim[k][f] # "absent"
        /\ Fingerprint(e) = Fingerprint(f)
        => e = f

(* The projector refuses a second claim with the fingerprint of another: no evidence
   is claimed twice for a criterion, for any number of commands that offer it. *)
THEOREM ClaimedOnceTheorem == CompletionSpec => []ClaimedOnce
<1>1. CompletionInit => ClaimedOnce
  BY DEF CompletionInit, ClaimedOnce
<1>2. GateTypeOK /\ ClaimedOnce /\ [CompletionNext]_completionVars => ClaimedOnce'
  <2> SUFFICES ASSUME GateTypeOK, ClaimedOnce, [CompletionNext]_completionVars,
                      NEW k \in Criteria, NEW e \in Offers, NEW f \in Offers,
                      claim'[k][e] # "absent", claim'[k][f] # "absent",
                      Fingerprint(e) = Fingerprint(f)
               PROVE  e = f
    BY DEF ClaimedOnce, Fingerprint
  <2>1. claim \in [Criteria -> [Offers ->
                     {"absent", "needs_validation", "verified", "rejected"}]]
    BY DEF GateTypeOK, CompletionTypeOK
  <2>2. CASE UNCHANGED claim
    BY <2>2 DEF ClaimedOnce
  <2>3. ASSUME NEW c \in Clerks, VerdictCommit(c) PROVE e = f
    <3>1. \A g \in Offers : claim'[k][g] # "absent" => claim[k][g] # "absent"
      BY <2>1, <2>3 DEF VerdictCommit
    <3> QED
      BY <3>1 DEF ClaimedOnce
  <2>4. ASSUME NEW c \in Clerks, ClaimCommit(c) PROVE e = f
    <3>1. \A g \in Offers : claim'[k][g] # "absent" =>
             claim[k][g] # "absent" \/ (work[c].k = k /\ work[c].e = g)
      BY <2>1, <2>4 DEF ClaimCommit
    <3>2. \A g \in Offers : claim[work[c].k][g] # "absent" =>
             Fingerprint(g) # Fingerprint(work[c].e)
      BY <2>4 DEF ClaimCommit, Claimed
    <3> QED
      BY <3>1, <3>2 DEF ClaimedOnce
  <2> QED
    BY <2>2, <2>3, <2>4
       DEF CompletionNext, OperationsStep, gate, completionVars, Clerk, DefineLoad,
           DefineCommit, ClaimLoad, ClaimCheck, VerdictLoad, CompleteLook, CompleteLoad,
           CompleteCommit, GivesUp, Decides
<1> QED
  BY <1>1, <1>2, GateTypeCorrect, PTL DEF CompletionSpec

(* A verdict lasts, on the claim and on its evidence: apply_claim_transition asks for a
   claim that needs validation, no creation takes the fingerprint of another, and no
   other claim has the fingerprint of a judged one. *)
THEOREM JudgedOnceTheorem == CompletionSpec => JudgedOnce
<1> DEFINE Keeps == \A k \in Criteria, e, f \in Offers :
                       /\ claim[k][e] \in {"verified", "rejected"}
                       /\ Fingerprint(f) = Fingerprint(e)
                       => claim'[k][f] = claim[k][f]
<1>1. GateTypeOK /\ ClaimedOnce /\ [CompletionNext]_completionVars => [Keeps]_claim
  <2> SUFFICES ASSUME GateTypeOK, ClaimedOnce, [CompletionNext]_completionVars,
                      claim' # claim,
                      NEW k \in Criteria, NEW e \in Offers, NEW f \in Offers,
                      claim[k][e] \in {"verified", "rejected"},
                      Fingerprint(f) = Fingerprint(e)
               PROVE  claim'[k][f] = claim[k][f]
    BY DEF Fingerprint
  <2>1. claim \in [Criteria -> [Offers ->
                     {"absent", "needs_validation", "verified", "rejected"}]]
    BY DEF GateTypeOK, CompletionTypeOK
  <2>2. PICK c \in Clerks : ClaimCommit(c) \/ VerdictCommit(c)
    BY DEF CompletionNext, OperationsStep, gate, completionVars, Clerk, DefineLoad,
           DefineCommit, ClaimLoad, ClaimCheck, VerdictLoad, CompleteLook, CompleteLoad,
           CompleteCommit, GivesUp, Decides
  <2>3. CASE ClaimCommit(c)
    <3>1. ~(work[c].k = k /\ work[c].e = f)
      BY <2>3 DEF ClaimCommit, Claimed
    <3> QED
      BY <2>1, <2>3, <3>1 DEF ClaimCommit
  <2>4. CASE VerdictCommit(c)
    <3>1. ~(work[c].k = k /\ work[c].e = f)
      BY <2>4 DEF VerdictCommit, ClaimedOnce
    <3> QED
      BY <2>1, <2>4, <3>1 DEF VerdictCommit
  <2> QED BY <2>2, <2>3, <2>4
<1> QED
  BY <1>1, GateTypeCorrect, ClaimedOnceTheorem, PTL DEF CompletionSpec, JudgedOnce

-----------------------------------------------------------------------------
(* Ready depends on nothing but what commits change. *)
LEMMA ReadyStays ==
    ASSUME NEW t, Ready(t), UNCHANGED <<projection, sources, gate>>
    PROVE  Ready(t)'
BY DEF Ready, Met, ValidEvidence, projection, sources, gate

(* A commit makes everybody's evaluation of the gate old but the one's it belongs to,
   and his is used up. *)
LEMMA GateHoldsStep ==
    GateTypeOK /\ GateHolds /\ [CompletionNext]_completionVars => GateHolds'
<1> SUFFICES ASSUME GateTypeOK, GateHolds, [CompletionNext]_completionVars,
                    NEW d \in Clerks, NEW t \in Tasks,
                    work'[d].does = "complete", work'[d].t = t, ~old'[d]
             PROVE  Ready(t)'
  BY DEF GateHolds
<1>1. work \in [Clerks -> Works] /\ old \in [Clerks -> BOOLEAN]
  BY DEF GateTypeOK, CompletionTypeOK
<1>2. CASE UNCHANGED <<projection, sources, gate>> /\ work'[d] = work[d] /\ ~old[d]
  <2>1. Ready(t)
    BY <1>2 DEF GateHolds
  <2> QED
    BY <1>2, <2>1, ReadyStays
<1>3. CASE OperationsStep
  <2>1. work[d] # Idle
    BY <1>3 DEF OperationsStep, Idle
  <2>2. UNCHANGED <<projection, sources, old>>
    BY <1>3, <2>1 DEF OperationsStep, Ages
  <2> QED
    BY <1>2, <1>3, <2>2 DEF OperationsStep
<1>4. ASSUME NEW c \in Clerks, Enters(c) PROVE Ready(t)'
  <2>1. d # c
    BY <1>1, <1>4 DEF Enters, Idle
  <2>2. work'[d] = work[d]
    BY <1>1, <1>4, <2>1 DEF Enters
  <2>3. work[d] # Idle
    BY <2>2 DEF Idle
  <2> QED
    BY <1>4, <2>1, <2>3 DEF Enters
<1>5. ASSUME NEW c \in Clerks, NEW record, Decides(c, record), record.does # "complete"
      PROVE  Ready(t)'
  <2>1. d # c
    BY <1>1, <1>5 DEF Decides
  <2> QED
    BY <1>1, <1>2, <1>5, <2>1 DEF Decides, vars
<1>6. ASSUME NEW c \in Clerks, CompleteLoad(c) PROVE Ready(t)'
  <2>1. CASE d = c
    <3>1. work'[c].t = work[c].t
      BY <1>1, <1>6 DEF CompleteLoad, Works, Idle
    <3>2. Ready(t)
      BY <1>6, <2>1, <3>1 DEF CompleteLoad
    <3> QED
      BY <1>6, <3>2, ReadyStays DEF CompleteLoad, vars
  <2>2. CASE d # c
    BY <1>1, <1>2, <1>6, <2>2 DEF CompleteLoad, vars
  <2> QED BY <2>1, <2>2
<1>7. ASSUME NEW c \in Clerks, GivesUp(c) PROVE Ready(t)'
  <2>1. d # c
    BY <1>1, <1>7 DEF GivesUp, Idle
  <2> QED
    BY <1>1, <1>2, <1>7, <2>1 DEF GivesUp, vars
<1>8. CASE UNCHANGED completionVars
  BY <1>2, <1>8 DEF completionVars, vars
<1>9. ASSUME NEW c \in Clerks, Clerk(c) PROVE Ready(t)'
  <2>1. ASSUME NEW k \in Criteria, NEW as \in {"required", "optional"}, DefineLoad(c, k, as)
        PROVE  Ready(t)'
    BY <1>5, <2>1 DEF DefineLoad
  <2>2. ASSUME NEW k \in Criteria, ClaimLoad(c, k) PROVE Ready(t)'
    BY <1>5, <2>2 DEF ClaimLoad
  <2>6. ASSUME NEW e \in Offers, NEW blocked \in BOOLEAN, ClaimCheck(c, e, blocked)
        PROVE  Ready(t)'
    <3>1. d # c
      BY <1>1, <2>6 DEF ClaimCheck
    <3> QED
      BY <1>1, <1>2, <2>6, <3>1 DEF ClaimCheck, vars
  <2>3. ASSUME NEW k \in Criteria, NEW e \in Offers,
               NEW verdict \in {"verified", "rejected"}, VerdictLoad(c, k, e, verdict)
        PROVE  Ready(t)'
    BY <1>5, <2>3 DEF VerdictLoad
  <2>4. ASSUME NEW u \in Tasks, CompleteLook(c, u) PROVE Ready(t)'
    BY <1>5, <2>4 DEF CompleteLook
  <2>5. CASE DefineCommit(c) \/ ClaimCommit(c) \/ VerdictCommit(c) \/ CompleteCommit(c)
    BY <1>4, <2>5 DEF DefineCommit, ClaimCommit, VerdictCommit, CompleteCommit, CommitsOn
  <2> QED
    BY <1>6, <1>7, <1>9, <2>1, <2>2, <2>3, <2>4, <2>5, <2>6 DEF Clerk
<1> QED
  BY <1>3, <1>8, <1>9 DEF CompletionNext

(* A task is completed on an open gate, for any number of commands, criteria and
   operations that change beside complete_task: its base revision is what holds the
   gate open between the evaluation and the commit. *)
THEOREM OpenGateTheorem == CompletionSpec => CompletedOnAnOpenGate
<1> DEFINE Open ==
      \A t \in Tasks : task'[t] # task[t] =>
          /\ \A k \in Criteria :
                TaskOf[k] = t /\ criterion[k] = "required"
                    => latest[k] # None /\ claim[k][latest[k]] = "verified"
          /\ \A o \in Ops : approval[o] # "pending" /\ status[o] \notin {"started", "unknown"}
<1>1. CompletionInit => GateHolds
  BY DEF CompletionInit, GateHolds, Idle
<1>2. GateTypeOK /\ GateHolds /\ [CompletionNext]_completionVars => [Open]_task
  <2> SUFFICES ASSUME GateTypeOK, GateHolds, [CompletionNext]_completionVars,
                      NEW t \in Tasks, task'[t] # task[t]
               PROVE  Ready(t)
    BY DEF Ready, Met
  <2>1. PICK c \in Clerks : CompleteCommit(c)
    BY DEF CompletionNext, OperationsStep, gate, completionVars, Clerk, DefineLoad,
           DefineCommit, ClaimLoad, ClaimCheck, ClaimCommit, VerdictLoad, VerdictCommit, CompleteLook,
           CompleteLoad, GivesUp, Decides
  <2>2. work[c].t = t
    BY <2>1 DEF CompleteCommit, GateTypeOK, CompletionTypeOK
  <2> QED
    BY <2>1, <2>2 DEF CompleteCommit, CommitsOn, GateHolds
<1> QED
  BY <1>1, <1>2, GateHoldsStep, GateTypeCorrect, PTL DEF CompletionSpec, CompletedOnAnOpenGate

-----------------------------------------------------------------------------
(* Evidence that was valid stays so. *)
LEMMA RestLasts ==
    ASSUME GateTypeOK, Grows, NEW e \in Offers, NEW base \in Nat, Rests(e, base)
    PROVE  Rests(e, base)'
<1>1. \A r \in e : r.source \in Sources /\ r.asof \in Nat
  BY OffersAssumption DEF References
<1>2. base <= head'
  BY SourcesLast DEF Rests, GateTypeOK, CompletionTypeOK
<1>3. \A r \in e : seq'[r.source] = seq[r.source]
  BY <1>1, SourcesLast DEF Rests, ValidEvidence
<1> QED
  BY <1>2, <1>3 DEF Rests, ValidEvidence

(* Claims keep resting on evidence the ledger has: a claim is checked against the
   revision it was loaded on, and a blocker is named when it is created and not later. *)
LEMMA ClaimsRestStep ==
    GateTypeOK /\ ClaimsRest /\ [CompletionNext]_completionVars => ClaimsRest'
<1> SUFFICES ASSUME GateTypeOK, ClaimsRest, [CompletionNext]_completionVars
             PROVE  ClaimsRest'
  OBVIOUS
<1>1. /\ claim \in [Criteria -> [Offers ->
                      {"absent", "needs_validation", "verified", "rejected"}]]
      /\ asof \in [Criteria -> [Offers -> Nat]]
      /\ work \in [Clerks -> Works]
      /\ head \in Nat
  BY DEF GateTypeOK, CompletionTypeOK
<1>2. \A c \in Clerks :
         /\ work[c].does = "cite" => work[c].asof \in Nat
         /\ work[c].does = "claim" => work[c].e \in Offers /\ work[c].asof \in Nat
  BY <1>1 DEF Works, Idle
<1>3. ASSUME Grows \/ UNCHANGED sources
      PROVE  /\ \A base \in Nat : base <= head => base <= head'
             /\ \A e \in Offers, base \in Nat : Rests(e, base) => Rests(e, base)'
  <2>1. Grows
    BY <1>3 DEF Grows
  <2> QED
    BY <1>1, <2>1, SourcesLast, RestLasts
<1>4. ASSUME Grows \/ UNCHANGED sources, NEW k \in Criteria, NEW e \in Offers,
             claim'[k][e] = claim[k][e], asof'[k][e] = asof[k][e],
             <<k, e>> \in blocker' => <<k, e>> \in blocker
      PROVE  ClaimRests(k, e)'
  BY <1>1, <1>3, <1>4 DEF ClaimsRest, ClaimRests, Verifiable
<1>5. ASSUME Grows \/ UNCHANGED sources, NEW c \in Clerks, work'[c] \in {work[c], Idle}
      PROVE  WorkRests(c)'
  BY <1>2, <1>3, <1>5 DEF ClaimsRest, WorkRests, Idle
<1>6. CASE UNCHANGED <<claim, asof, blocker, work>> /\ (Grows \/ UNCHANGED sources)
  BY <1>4, <1>5, <1>6 DEF ClaimsRest
<1>7. ASSUME NEW c \in Clerks, UNCHANGED <<claim, asof, blocker, sources>>,
             \A d \in Clerks \ {c} : work'[d] = work[d],
             WorkRests(c)'
      PROVE  ClaimsRest'
  BY <1>4, <1>5, <1>7 DEF ClaimsRest
<1>8. ASSUME NEW c \in Clerks, NEW record, Decides(c, record),
             record.does \notin {"cite", "claim"}
      PROVE  ClaimsRest'
  BY <1>1, <1>7, <1>8 DEF Decides, gate, WorkRests
<1>9. ASSUME NEW c \in Clerks, Enters(c)
      PROVE  (Grows \/ UNCHANGED sources) /\ \A d \in Clerks : WorkRests(d)'
  BY <1>1, <1>5, <1>9 DEF Enters
<1>10. ASSUME NEW c \in Clerks, Clerk(c) PROVE ClaimsRest'
  <2>1. ASSUME NEW k \in Criteria, NEW as \in {"required", "optional"}, DefineLoad(c, k, as)
        PROVE  ClaimsRest'
    BY <1>8, <2>1 DEF DefineLoad
  <2>2. ASSUME NEW k \in Criteria, ClaimLoad(c, k) PROVE ClaimsRest'
    <3>1. WorkRests(c)'
      BY <1>1, <2>2 DEF ClaimLoad, Decides, sources, WorkRests
    <3> QED
      BY <1>1, <1>7, <2>2, <3>1 DEF ClaimLoad, Decides, gate
  <2>3. ASSUME NEW e \in Offers, NEW blocked \in BOOLEAN, ClaimCheck(c, e, blocked)
        PROVE  ClaimsRest'
    <3>1. Rests(e, work[c].asof)
      BY <2>3 DEF ClaimCheck, ClaimsRest, WorkRests, Rests
    <3>2. work'[c].does = "claim" /\ work'[c].e = e /\ work'[c].asof = work[c].asof
      BY <1>1, <2>3 DEF ClaimCheck
    <3>3. WorkRests(c)'
      BY <2>3, <3>1, <3>2 DEF ClaimCheck, sources, WorkRests, Rests, ValidEvidence
    <3> QED
      BY <1>1, <1>7, <2>3, <3>3 DEF ClaimCheck, gate
  <2>4. ASSUME NEW k \in Criteria, NEW e \in Offers,
               NEW verdict \in {"verified", "rejected"}, VerdictLoad(c, k, e, verdict)
        PROVE  ClaimsRest'
    BY <1>8, <2>4 DEF VerdictLoad
  <2>5. ASSUME NEW t \in Tasks, CompleteLook(c, t) PROVE ClaimsRest'
    BY <1>8, <2>5 DEF CompleteLook
  <2>6. CASE CompleteLoad(c)
    <3>1. WorkRests(c)'
      BY <1>1, <2>6 DEF CompleteLoad, WorkRests
    <3> QED
      BY <1>1, <1>7, <2>6, <3>1 DEF CompleteLoad, gate
  <2>7. CASE GivesUp(c)
    <3>1. WorkRests(c)'
      BY <1>1, <2>7 DEF GivesUp, WorkRests, Idle
    <3> QED
      BY <1>1, <1>7, <2>7, <3>1 DEF GivesUp, gate
  <2>8. CASE DefineCommit(c) \/ CompleteCommit(c)
    BY <1>4, <1>9, <2>8 DEF DefineCommit, CompleteCommit, CommitsOn, ClaimsRest
  <2>9. CASE ClaimCommit(c)
    <3>1. (Grows \/ UNCHANGED sources) /\ \A d \in Clerks : WorkRests(d)'
      BY <1>9, <2>9 DEF ClaimCommit, CommitsOn
    <3> SUFFICES ASSUME NEW k \in Criteria, NEW e \in Offers PROVE ClaimRests(k, e)'
      BY <3>1 DEF ClaimsRest
    <3>2. CASE work[c].k = k /\ work[c].e = e
      <4>1. work[c].does = "claim" /\ work[c].asof \in Nat
        BY <1>2, <2>9 DEF ClaimCommit, CommitsOn
      <4>2. PICK base \in Nat : base = work[c].asof
        BY <4>1
      <4>3. Rests(e, base)'
        BY <1>3, <3>1, <3>2, <4>1, <4>2 DEF ClaimsRest, WorkRests
      <4>4. claim'[k][e] = "needs_validation" /\ asof'[k][e] = base
        BY <1>1, <2>9, <3>2, <4>2 DEF ClaimCommit
      <4> QED
        BY <4>3, <4>4 DEF ClaimRests, Rests, ValidEvidence
    <3>3. CASE ~(work[c].k = k /\ work[c].e = e)
      <4>1. claim'[k][e] = claim[k][e] /\ asof'[k][e] = asof[k][e]
        BY <1>1, <2>9, <3>3 DEF ClaimCommit
      <4>2. <<k, e>> \in blocker' => <<k, e>> \in blocker
        BY <2>9, <3>3 DEF ClaimCommit
      <4> QED
        BY <1>4, <3>1, <4>1, <4>2
    <3> QED
      BY <3>2, <3>3
  <2>10. CASE VerdictCommit(c)
    <3>1. (Grows \/ UNCHANGED sources) /\ \A d \in Clerks : WorkRests(d)'
      BY <1>9, <2>10 DEF VerdictCommit, CommitsOn
    <3>2. UNCHANGED <<asof, blocker>>
      BY <2>10 DEF VerdictCommit
    <3> SUFFICES ASSUME NEW k \in Criteria, NEW e \in Offers PROVE ClaimRests(k, e)'
      BY <3>1 DEF ClaimsRest
    <3>3. CASE work[c].k = k /\ work[c].e = e
      <4>1. claim[k][e] = "needs_validation" /\ claim'[k][e] = work[c].verdict
        BY <1>1, <2>10, <3>3 DEF VerdictCommit
      <4>2. claim'[k][e] = "verified" => Verifiable(k, e)'
        BY <2>10, <3>2, <3>3, <4>1 DEF VerdictCommit, Verifiable
      <4>3. PICK base \in Nat : base = asof[k][e]
        BY <1>1
      <4>4. Rests(e, base)'
        BY <1>3, <3>1, <4>1, <4>3 DEF ClaimsRest, ClaimRests
      <4> QED
        BY <3>2, <4>2, <4>3, <4>4 DEF ClaimRests, Rests, ValidEvidence
    <3>4. CASE ~(work[c].k = k /\ work[c].e = e)
      <4>1. claim'[k][e] = claim[k][e]
        BY <1>1, <2>10, <3>4 DEF VerdictCommit
      <4> QED
        BY <1>4, <3>1, <3>2, <4>1
    <3> QED
      BY <3>3, <3>4
  <2> QED
    BY <1>10, <2>1, <2>2, <2>3, <2>4, <2>5, <2>6, <2>7, <2>8, <2>9, <2>10 DEF Clerk
<1>11. CASE OperationsStep
  BY <1>6, <1>11 DEF OperationsStep, gate
<1>12. CASE UNCHANGED completionVars
  BY <1>6, <1>12 DEF completionVars, gate
<1> QED
  BY <1>10, <1>11, <1>12 DEF CompletionNext

(* A verified claim has provenance: its sources were in the ledger, under their own
   hashes, when they were read and that before the claim, and it names no blocker,
   whatever commands record, create, verify and reject at once. *)
THEOREM VerifiedTheorem == CompletionSpec => []VerifiedWithProvenance
<1>1. CompletionInit => ClaimsRest
  BY DEF CompletionInit, ClaimsRest, ClaimRests, WorkRests, Idle
<1>2. ClaimsRest => VerifiedWithProvenance
  BY DEF ClaimsRest, ClaimRests, Rests, ValidEvidence, Verifiable, VerifiedWithProvenance
<1> QED
  BY <1>1, <1>2, ClaimsRestStep, GateTypeCorrect, PTL DEF CompletionSpec

===============================================================================
