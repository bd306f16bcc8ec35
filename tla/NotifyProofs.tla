----------------------------- MODULE NotifyProofs -----------------------------
(***************************************************************************)
(* Proofs about Notify for any number of evaluations, rules, channels,     *)
(* scans, late sends and faults.                                           *)
(***************************************************************************)
EXTENDS Notify, TLAPS

-----------------------------------------------------------------------------
\* The strengthening.

\* Of a rule that is gone nothing is recorded.
GoneIsGone == \A k \in Key : k[1] \notin rules => deliveries[k] = "none" /\ k \notin orphans

\* A row is pending for a holder, the only one, or is an orphan and has none.
HoldInv ==
  \A k \in Live :
    /\ deliveries[k] = "pending" <=> (k \in orphans \/ \E e \in Evals : Holds(e, k))
    /\ \A d, e \in Evals : Holds(d, k) /\ Holds(e, k) => d = e
    /\ k \in orphans => \A e \in Evals : ~Holds(e, k)

Counted(k) == deliveries[k] = "ok" \/ k \in orphans \/ \E e \in Evals : Told(e, k)

\* Every message beyond the one that was answered for was given up on, and each of
\* those may have arrived, or is still under way.
SentInv ==
  \A k \in Live :
    /\ deliveries[k] = "ok" \/ (\E e \in Evals : Told(e, k)) => sent[k] >= 1
    /\ sent[k] + late[k] <= abandoned[k] + (IF Counted(k) THEN 1 ELSE 0)

IInv == TypeOK /\ GoneIsGone /\ HoldInv /\ SentInv

-----------------------------------------------------------------------------
\* Keys, and which of them an evaluation is at.

LEMMA KeyParts == \A k \in Key : /\ k[1] \in Rules /\ k[1] \in Nat /\ k[2] \in Nat /\ k[3] \in Nat
                                 /\ k = <<k[1], k[2], k[3]>>
<1> SUFFICES ASSUME NEW k \in Key
             PROVE  /\ k[1] \in Rules /\ k[1] \in Nat /\ k[2] \in Nat /\ k[3] \in Nat
                    /\ k = <<k[1], k[2], k[3]>>
  OBVIOUS
<1>1. k \in Rules \X (1..(Due + MaxRuns)) \X (1..Channels)
  BY DEF Key
<1>2. Due + MaxRuns \in Nat /\ Channels \in Nat /\ MaxRule \in Nat
  BY BoundsAssumption
<1> QED
  BY <1>1, <1>2 DEF Rules

LEMMA OneAtHand ==
  ASSUME TypeOK, NEW e \in Evals, NEW j \in AtHand(e), NEW k \in AtHand(e)
  PROVE  j = k /\ k \in Key
<1>1. j \in Key /\ k \in Key
  BY DEF TypeOK, AtHand
<1>2. ASSUME j # k PROVE Before(j, k) /\ Before(k, j)
  BY <1>2 DEF AtHand
<1> QED
  BY <1>1, <1>2, KeyParts DEF Before

\* Continue lets go of what was held, and touches no other evaluation.
LEMMA Freed ==
  ASSUME TypeOK, NEW e \in Evals, NEW keys, Continue(e, keys)
  PROVE  /\ \A k : ~Holds(e, k)' /\ ~Told(e, k)'
         /\ \A d \in Evals \ {e} : \A k : (Holds(d, k)' <=> Holds(d, k)) /\ (Told(d, k)' <=> Told(d, k))
<1>1. pc'[e] \in {"idle", "claim"}
  BY DEF Continue, TypeOK
<1>2. \A d \in Evals \ {e} : pc'[d] = pc[d] /\ todo'[d] = todo[d] /\ result'[d] = result[d]
  BY DEF Continue, TypeOK
<1> QED
  BY <1>1, <1>2 DEF Holds, Told, AtHand

LEMMA ContinueType ==
  ASSUME TypeOK, NEW e \in Evals, NEW keys \in SUBSET Key, Continue(e, keys)
  PROVE  /\ pc' \in [Evals -> {"idle", "claim", "send", "record"}]
         /\ result' \in [Evals -> {"none", "ok", "failed"}]
         /\ cancelled' \in [Evals -> BOOLEAN]
         /\ todo' \in [Evals -> SUBSET Key]
         /\ \A d \in Evals : pc'[d] = "idle" <=> todo'[d] = {}
  BY DEF Continue, TypeOK

LEMMA Worklists ==
  ASSUME TypeOK, NEW n
  PROVE  Worklist(n) \subseteq Key
  BY DEF Worklist

\* What is left of the keys is a part of them.
LEMMA LeftOver ==
  ASSUME TypeOK, NEW e \in Evals, NEW k
  PROVE  {Others(e, k), OtherRules(e, k), After(e, k)} \subseteq SUBSET Key
  BY DEF TypeOK, Others, OtherRules, After

LEMMA TypeInit == Init => TypeOK
<1> SUFFICES ASSUME Init PROVE TypeOK
  OBVIOUS
<1>1. {runs, created, faults} = {0} /\ {MaxRuns, MaxCreated, MaxFaults} \subseteq Nat
  BY BoundsAssumption DEF Init
<1>2. runs \in 0..MaxRuns /\ created \in 0..MaxCreated /\ faults \in 0..MaxFaults
  BY <1>1
<1> QED
  BY <1>2 DEF Init, TypeOK

LEMMA TypeStep == ASSUME TypeOK, [Next]_vars PROVE TypeOK'
<1> USE BoundsAssumption DEF history
<1> DEFINE PcType == [Evals -> {"idle", "claim", "send", "record"}]
<1>1. ASSUME NEW e \in Evals, NEW changes \in BOOLEAN, Start(e, changes) PROVE TypeOK'
  <2>1. runs' \in 0..MaxRuns
    BY <1>1 DEF Start, TypeOK
  <2>2. PICK keys \in SUBSET Key : Continue(e, keys)
    BY <1>1, Worklists DEF Start
  <2> QED
    BY <1>1, <2>1, <2>2, ContinueType DEF Start, TypeOK
<1>2. ASSUME NEW e \in Evals, Claim(e) PROVE TypeOK'
  <2>1. PICK k \in AtHand(e) :
          \/ \E keys \in SUBSET Key : Continue(e, keys) /\ UNCHANGED deliveries
          \/ /\ deliveries' = [deliveries EXCEPT ![k] = "pending"]
             /\ pc' = [pc EXCEPT ![e] = "send"]
             /\ UNCHANGED <<todo, result, cancelled>>
    BY <1>2, LeftOver DEF Claim
  <2>2. CASE \E keys \in SUBSET Key : Continue(e, keys) /\ UNCHANGED deliveries
    BY <1>2, <2>2, ContinueType DEF Claim, TypeOK
  <2>3. CASE /\ deliveries' = [deliveries EXCEPT ![k] = "pending"]
             /\ pc' = [pc EXCEPT ![e] = "send"]
             /\ UNCHANGED <<todo, result, cancelled>>
    <3>1. pc[e] = "claim"
      BY <1>2 DEF Claim
    <3> QED
      BY <1>2, <2>3, <3>1 DEF Claim, TypeOK
  <2> QED
    BY <2>1, <2>2, <2>3
<1>3. ASSUME NEW e \in Evals, NEW o \in {"ok", "failed"}, Answered(e, o)
      PROVE  /\ pc' \in PcType /\ result' \in [Evals -> {"none", "ok", "failed"}]
             /\ \A d \in Evals : pc'[d] = "idle" <=> todo'[d] = {}
             /\ UNCHANGED <<rules, enabled, deliveries, todo, cancelled, runs, orphans, reused,
                            created, faults>>
  BY <1>3 DEF Answered, TypeOK
<1>4. ASSUME NEW e \in Evals, SendSucceeds(e) PROVE TypeOK'
  <2>1. sent' \in [Key -> Nat] /\ UNCHANGED <<late, abandoned>>
    <3>1. PICK k \in AtHand(e) : sent' = [sent EXCEPT ![k] = @ + 1]
      BY <1>4 DEF SendSucceeds
    <3> QED
      BY <1>4, <3>1, OneAtHand DEF SendSucceeds, TypeOK
  <2> QED
    BY <1>3, <1>4, <2>1 DEF SendSucceeds, TypeOK
<1>5. ASSUME NEW e \in Evals, SendFails(e) PROVE TypeOK'
  BY <1>3, <1>5 DEF SendFails, TypeOK
<1>6. ASSUME NEW e \in Evals, SendAbandoned(e) PROVE TypeOK'
  <2>1. {late', sent', abandoned'} \subseteq [Key -> Nat]
    <3>1. PICK k \in AtHand(e) : /\ abandoned' = [abandoned EXCEPT ![k] = @ + 1]
                                 /\ late' = [late EXCEPT ![k] = @ + 1]
      BY <1>6 DEF SendAbandoned
    <3> QED
      BY <1>6, <3>1, OneAtHand DEF SendAbandoned, TypeOK
  <2> QED
    BY <1>3, <1>6, <2>1 DEF SendAbandoned, TypeOK
<1>7. ASSUME NEW e \in Evals, Record(e) PROVE TypeOK'
  <2>1. PICK k \in AtHand(e) : /\ deliveries' = [deliveries EXCEPT ![k] = Recorded(e, k)]
                               /\ Continue(e, After(e, k))
    BY <1>7 DEF Record
  <2>2. Recorded(e, k) \in {"none", "pending", "ok", "failed"}
    BY DEF Recorded, TypeOK
  <2>3. deliveries' \in [Key -> {"none", "pending", "ok", "failed"}]
    BY <2>1, <2>2 DEF TypeOK
  <2>4. PICK keys \in SUBSET Key : Continue(e, keys)
    BY <2>1, LeftOver
  <2> QED
    BY <1>7, <2>3, <2>4, ContinueType DEF Record, TypeOK
<1>8. ASSUME NEW e \in Evals, RecordLost(e) PROVE TypeOK'
  <2>1. PICK keys \in SUBSET Key : Continue(e, keys)
    BY <1>8, LeftOver DEF RecordLost
  <2>2. orphans' \subseteq Key /\ faults' \in 0..MaxFaults
    BY <1>8 DEF RecordLost, TypeOK, Pending
  <2> QED
    BY <1>8, <2>1, <2>2, ContinueType DEF RecordLost, TypeOK
<1>9. ASSUME NEW e \in Evals, Expire(e) PROVE TypeOK'
  BY <1>9 DEF Expire, TypeOK
<1>10. ASSUME NEW k \in Key, LateSend(k) PROVE TypeOK'
  <2>1. late' \in [Key -> Nat] /\ sent' \in [Key -> Nat]
    <3>1. late \in [Key -> Nat] /\ sent \in [Key -> Nat] /\ late[k] - 1 \in Nat
      BY <1>10 DEF LateSend, TypeOK
    <3> QED
      BY <1>10, <3>1 DEF LateSend
  <2> QED
    BY <1>10, <2>1 DEF LateSend, TypeOK
<1>11. ASSUME NEW r \in Rules, CreateRule(r) PROVE TypeOK'
  <2>1. created' \in 0..MaxCreated /\ rules' \subseteq Rules /\ enabled' \subseteq rules'
    BY <1>11 DEF CreateRule, TypeOK
  <2>2. {late', sent', abandoned'} \subseteq [Key -> Nat] /\ reused' \subseteq Rules
    BY <1>11 DEF CreateRule, TypeOK
  <2> QED
    BY <1>11, <2>1, <2>2 DEF CreateRule, TypeOK
<1>12. ASSUME NEW r \in Rules, ToggleRule(r) PROVE TypeOK'
  BY <1>12 DEF ToggleRule, TypeOK
<1>13. ASSUME NEW r \in Rules, DeleteRule(r) PROVE TypeOK'
  BY <1>13 DEF DeleteRule, TypeOK
<1>14. CASE Crash
  BY <1>14 DEF Crash, TypeOK, Pending
<1>15. CASE UNCHANGED vars
  BY <1>15 DEF vars, TypeOK
<1> QED
  BY <1>1, <1>2, <1>4, <1>5, <1>6, <1>7, <1>8, <1>9, <1>10, <1>11, <1>12, <1>13, <1>14, <1>15
     DEF Next, Step

-----------------------------------------------------------------------------
\* What each step does to the keys that are held.

\* Nobody's hold changes.
Still == \A d \in Evals : \A k : (Holds(d, k)' <=> Holds(d, k)) /\ (Told(d, k)' <=> Told(d, k))

LEMMA StartHolds ==
  ASSUME TypeOK, NEW e \in Evals, NEW changes \in BOOLEAN, Start(e, changes)
  PROVE  Still /\ UNCHANGED <<rules, deliveries, late, sent, abandoned, orphans, reused>>
<1>1. \A k : ~Holds(e, k) /\ ~Told(e, k)
  BY DEF Start, Holds, Told
<1> QED
  BY <1>1, Freed DEF Start, Still, history

LEMMA ClaimHolds ==
  ASSUME TypeOK, NEW e \in Evals, Claim(e)
  PROVE  /\ UNCHANGED <<rules, late, sent, abandoned, orphans, reused>>
         /\ \/ Still /\ UNCHANGED deliveries
            \/ \E k \in Key :
                 /\ k[1] \in rules /\ ~Taken(k)
                 /\ deliveries' = [deliveries EXCEPT ![k] = "pending"]
                 /\ \A j : ~Holds(e, j) /\ (Holds(e, j)' <=> j = k) /\ ~Told(e, j) /\ ~Told(e, j)'
                 /\ \A d \in Evals \ {e} : \A j : (Holds(d, j)' <=> Holds(d, j)) /\ (Told(d, j)' <=> Told(d, j))
<1>1. \A j : ~Holds(e, j) /\ ~Told(e, j)
  BY DEF Claim, Holds, Told
<1>2. PICK k \in AtHand(e) :
        \/ \E keys : Continue(e, keys) /\ UNCHANGED deliveries
        \/ /\ k[1] \in rules /\ ~Taken(k)
           /\ deliveries' = [deliveries EXCEPT ![k] = "pending"]
           /\ pc' = [pc EXCEPT ![e] = "send"]
           /\ UNCHANGED <<todo, result, cancelled>>
  BY DEF Claim
<1>3. CASE \E keys : Continue(e, keys) /\ UNCHANGED deliveries
  BY <1>1, <1>3, Freed DEF Claim, Still, history
<1>4. CASE /\ k[1] \in rules /\ ~Taken(k)
           /\ deliveries' = [deliveries EXCEPT ![k] = "pending"]
           /\ pc' = [pc EXCEPT ![e] = "send"]
           /\ UNCHANGED <<todo, result, cancelled>>
  <2>1. k \in Key /\ \A j : j \in AtHand(e) <=> j = k
    BY OneAtHand
  <2>2. \A j : (Holds(e, j)' <=> j = k) /\ ~Told(e, j)'
    <3>1. pc'[e] = "send"
      BY <1>4 DEF TypeOK
    <3>2. \A j : j \in AtHand(e)' <=> j \in AtHand(e)
      BY <1>4 DEF AtHand
    <3> QED
      BY <2>1, <3>1, <3>2 DEF Holds, Told
  <2>3. \A d \in Evals \ {e} : \A j : (Holds(d, j)' <=> Holds(d, j)) /\ (Told(d, j)' <=> Told(d, j))
    BY <1>4 DEF Holds, Told, AtHand, TypeOK
  <2> QED
    BY <1>1, <1>4, <2>1, <2>2, <2>3 DEF Claim, history
<1> QED
  BY <1>2, <1>3, <1>4

\* An answer keeps the hold.
LEMMA AnsweredHolds ==
  ASSUME TypeOK, NEW e \in Evals, NEW o \in {"ok", "failed"}, Answered(e, o)
  PROVE  /\ UNCHANGED <<rules, deliveries, orphans, reused>>
         /\ \A d \in Evals : \A k : Holds(d, k)' <=> Holds(d, k)
         /\ \A d \in Evals \ {e} : \A k : Told(d, k)' <=> Told(d, k)
         /\ \A k : k \in AtHand(e) <=> Holds(e, k)
         /\ \A k : ~Told(e, k)
         /\ \A k : Told(e, k)' <=> Holds(e, k) /\ o = "ok"
<1>1. /\ pc[e] = "send" /\ pc'[e] = "record" /\ result'[e] = o /\ todo' = todo
      /\ \A d \in Evals \ {e} : pc'[d] = pc[d] /\ result'[d] = result[d]
  BY DEF Answered, TypeOK
<1>2. \A d \in Evals : AtHand(d)' = AtHand(d)
  BY <1>1 DEF AtHand
<1> QED
  BY <1>1, <1>2 DEF Answered, Holds, Told

\* The end of a delivery: the hold on k is given up.
LEMMA RecordHolds ==
  ASSUME TypeOK, NEW e \in Evals, Record(e) \/ RecordLost(e)
  PROVE  \E k \in Key :
           /\ \A j : Holds(e, j) <=> j = k
           /\ Told(e, k) <=> result[e] = "ok"
           /\ \A j : ~Holds(e, j)' /\ ~Told(e, j)'
           /\ \A d \in Evals \ {e} : \A j : (Holds(d, j)' <=> Holds(d, j)) /\ (Told(d, j)' <=> Told(d, j))
           /\ UNCHANGED <<rules, late, sent, abandoned, reused>>
           /\ \/ /\ deliveries' = [deliveries EXCEPT ![k] = Recorded(e, k)]
                 /\ orphans' = orphans
              \/ /\ deliveries' = deliveries
                 /\ orphans' = orphans \cup ({k} \cap Pending)
<1>1. PICK k, keys :
        /\ k \in AtHand(e) /\ Continue(e, keys)
        /\ \/ deliveries' = [deliveries EXCEPT ![k] = Recorded(e, k)] /\ orphans' = orphans
           \/ deliveries' = deliveries /\ orphans' = orphans \cup (AtHand(e) \cap Pending)
  BY DEF Record, RecordLost, history
<1>2. k \in Key /\ AtHand(e) = {k}
  BY <1>1, OneAtHand
<1>3. pc[e] = "record"
  BY DEF Record, RecordLost
<1>4. \A j : Holds(e, j) <=> j = k
  BY <1>2, <1>3 DEF Holds
<1>5. UNCHANGED <<rules, late, sent, abandoned, reused>>
  BY DEF Record, RecordLost, history
<1>6. Told(e, k) <=> result[e] = "ok"
  BY <1>3, <1>4 DEF Told
<1>7. /\ \A j : ~Holds(e, j)' /\ ~Told(e, j)'
      /\ \A d \in Evals \ {e} : \A j : (Holds(d, j)' <=> Holds(d, j)) /\ (Told(d, j)' <=> Told(d, j))
  BY <1>1, Freed
<1> QED
  BY <1>1, <1>2, <1>4, <1>5, <1>6, <1>7

LEMMA QuietHolds ==
  ASSUME TypeOK, UNCHANGED <<pc, todo, result>>
  PROVE  Still
  BY DEF Still, Holds, Told, AtHand

\* No evaluation holds a key of a rule that is created under an id nobody works on.
LEMMA CreatedIsFree ==
  ASSUME TypeOK, GoneIsGone, NEW r \in Rules, CreateRule(r), NEW k \in Key, k \in Live', k[1] = r
  PROVE  deliveries[k] = "none" /\ k \notin orphans /\ \A e \in Evals : ~Holds(e, k)
<1>1. r \notin rules
  <2>1. r \in Nat
    BY BoundsAssumption DEF Rules
  <2> QED
    BY <2>1 DEF CreateRule
<1>2. ~ \E e \in Evals : pc[e] # "idle" /\ \E j \in todo[e] : j[1] = r
  BY DEF CreateRule, Live
<1>3. \A e \in Evals : Holds(e, k) => pc[e] # "idle" /\ k \in todo[e]
  BY DEF Holds, AtHand
<1> QED
  BY <1>1, <1>2, <1>3 DEF GoneIsGone

LEMMA LiveStays ==
  ASSUME TypeOK, UNCHANGED <<rules, reused>>
  PROVE  Live' = Live
  BY DEF Live

LEMMA GoneStep == ASSUME TypeOK, GoneIsGone, [Next]_vars PROVE GoneIsGone'
<1>1. ASSUME NEW e \in Evals, NEW changes \in BOOLEAN, Start(e, changes) PROVE GoneIsGone'
  BY <1>1, StartHolds DEF GoneIsGone
<1>2. ASSUME NEW e \in Evals, Claim(e) PROVE GoneIsGone'
  <2>1. UNCHANGED <<rules, orphans>>
    BY <1>2, ClaimHolds
  <2>2. CASE deliveries' = deliveries
    BY <2>1, <2>2 DEF GoneIsGone
  <2>3. CASE \E k \in Key : k[1] \in rules /\ deliveries' = [deliveries EXCEPT ![k] = "pending"]
    BY <2>1, <2>3 DEF GoneIsGone, TypeOK
  <2> QED
    BY <1>2, <2>2, <2>3, ClaimHolds
<1>3. ASSUME NEW e \in Evals, NEW o \in {"ok", "failed"}, Answered(e, o) PROVE GoneIsGone'
  BY <1>3, AnsweredHolds DEF GoneIsGone
<1>4. ASSUME NEW e \in Evals, Record(e) \/ RecordLost(e) PROVE GoneIsGone'
  <2>1. PICK k \in Key :
          /\ rules' = rules
          /\ \/ deliveries' = [deliveries EXCEPT ![k] = Recorded(e, k)] /\ orphans' = orphans
             \/ deliveries' = deliveries /\ orphans' = orphans \cup ({k} \cap Pending)
    BY <1>4, RecordHolds
  <2>2. deliveries[k] = "none" => Recorded(e, k) = "none" /\ k \notin Pending
    BY DEF Recorded, Pending
  <2> QED
    BY <2>1, <2>2 DEF GoneIsGone, TypeOK
<1>5. ASSUME NEW e \in Evals, Expire(e) PROVE GoneIsGone'
  BY <1>5 DEF Expire, GoneIsGone, history
<1>6. ASSUME NEW k \in Key, LateSend(k) PROVE GoneIsGone'
  BY <1>6 DEF LateSend, GoneIsGone
<1>7. ASSUME NEW r \in Rules, CreateRule(r) \/ ToggleRule(r) PROVE GoneIsGone'
  BY <1>7 DEF CreateRule, ToggleRule, GoneIsGone, history
<1>8. ASSUME NEW r \in Rules, DeleteRule(r) PROVE GoneIsGone'
  BY <1>8 DEF DeleteRule, GoneIsGone
<1>9. CASE Crash
  BY <1>9 DEF Crash, GoneIsGone, Pending
<1>10. CASE UNCHANGED vars
  BY <1>10 DEF vars, history, GoneIsGone
<1> QED
  BY <1>1, <1>2, <1>3, <1>4, <1>5, <1>6, <1>7, <1>8, <1>9, <1>10
     DEF Next, Step, SendSucceeds, SendFails, SendAbandoned

\* One sender for every delivery that is under way.
LEMMA HoldStep == ASSUME TypeOK, GoneIsGone, HoldInv, [Next]_vars PROVE HoldInv'
<1>1. ASSUME Still, UNCHANGED <<rules, deliveries, orphans, reused>> PROVE HoldInv'
  BY <1>1, LiveStays DEF HoldInv, Still
<1>2. ASSUME NEW e \in Evals, NEW changes \in BOOLEAN, Start(e, changes) PROVE HoldInv'
  BY <1>1, <1>2, StartHolds
<1>3. ASSUME NEW e \in Evals, Claim(e) PROVE HoldInv'
  <2>1. UNCHANGED <<rules, orphans, reused>> /\ Live' = Live
    BY <1>3, ClaimHolds, LiveStays
  <2>2. CASE Still /\ UNCHANGED deliveries
    BY <1>1, <2>1, <2>2
  <2>3. ASSUME NEW k \in Key, ~Taken(k), deliveries' = [deliveries EXCEPT ![k] = "pending"],
               \A j : ~Holds(e, j) /\ (Holds(e, j)' <=> j = k),
               \A d \in Evals \ {e} : \A j : Holds(d, j)' <=> Holds(d, j)
        PROVE  HoldInv'
    <3>1. k \in Live => k \notin orphans /\ \A d \in Evals : ~Holds(d, k)
      BY <2>3 DEF HoldInv, Taken
    <3>2. deliveries'[k] = "pending" /\ \A j \in Key \ {k} : deliveries'[j] = deliveries[j]
      BY <2>3 DEF TypeOK
    <3>3. Live \subseteq Key
      BY DEF Live
    <3> QED
      BY <2>1, <2>3, <3>1, <3>2, <3>3 DEF HoldInv
  <2> QED
    BY <1>3, <2>2, <2>3, ClaimHolds
<1>4. ASSUME NEW e \in Evals, NEW o \in {"ok", "failed"}, Answered(e, o) PROVE HoldInv'
  BY <1>4, AnsweredHolds, LiveStays DEF HoldInv
<1>5. ASSUME NEW e \in Evals, Record(e) \/ RecordLost(e) PROVE HoldInv'
  <2>1. PICK k \in Key :
          /\ \A j : Holds(e, j) <=> j = k
          /\ \A j : ~Holds(e, j)'
          /\ \A d \in Evals \ {e} : \A j : Holds(d, j)' <=> Holds(d, j)
          /\ UNCHANGED <<rules, reused>>
          /\ \/ deliveries' = [deliveries EXCEPT ![k] = Recorded(e, k)] /\ orphans' = orphans
             \/ deliveries' = deliveries /\ orphans' = orphans \cup ({k} \cap Pending)
    BY <1>5, RecordHolds
  <2>2. Live' = Live /\ Live \subseteq Key
    BY <2>1, LiveStays DEF Live
  <2>3. k \in Live => /\ deliveries[k] = "pending" /\ k \notin orphans
                      /\ \A d \in Evals : ~Holds(d, k)'
    BY <2>1 DEF HoldInv
  <2>4. \A j \in Live \ {k} : /\ \A d \in Evals : Holds(d, j)' <=> Holds(d, j)
                              /\ deliveries'[j] = deliveries[j] /\ (j \in orphans' <=> j \in orphans)
    BY <2>1, <2>2 DEF TypeOK
  <2>5. k \in Live => (deliveries'[k] = "pending" <=> k \in orphans')
    <3>1. CASE deliveries' = [deliveries EXCEPT ![k] = Recorded(e, k)] /\ orphans' = orphans
      <4>1. k \in Live => Recorded(e, k) # "pending"
        BY <2>3 DEF Recorded, TypeOK
      <4> QED
        BY <2>3, <3>1, <4>1 DEF TypeOK
    <3>2. CASE deliveries' = deliveries /\ orphans' = orphans \cup ({k} \cap Pending)
      BY <2>3, <3>2 DEF Pending
    <3> QED
      BY <2>1, <3>1, <3>2
  <2> QED
    BY <2>2, <2>3, <2>4, <2>5 DEF HoldInv
<1>6. ASSUME NEW e \in Evals, Expire(e) PROVE HoldInv'
  BY <1>1, <1>6, QuietHolds DEF Expire, history
<1>7. ASSUME NEW k \in Key, LateSend(k) PROVE HoldInv'
  BY <1>1, <1>7, QuietHolds DEF LateSend
<1>8. ASSUME NEW r \in Rules, CreateRule(r) PROVE HoldInv'
  <2>1. Still /\ UNCHANGED <<deliveries, orphans>>
    BY <1>8, QuietHolds DEF CreateRule
  <2>2. \A k \in Live' : k[1] # r => k \in Live
    BY <1>8 DEF CreateRule, Live
  <2>3. Live' \subseteq Key
    BY DEF Live
  <2> QED
    BY <1>8, <2>1, <2>2, <2>3, CreatedIsFree DEF HoldInv, Still
<1>9. ASSUME NEW r \in Rules, ToggleRule(r) PROVE HoldInv'
  BY <1>1, <1>9, QuietHolds DEF ToggleRule, history
<1>10. ASSUME NEW r \in Rules, DeleteRule(r) PROVE HoldInv'
  <2>1. Still
    BY <1>10, QuietHolds DEF DeleteRule
  <2>2. \A k \in Live' : k \in Live /\ deliveries'[k] = deliveries[k] /\ (k \in orphans' <=> k \in orphans)
    BY <1>10 DEF DeleteRule, Live
  <2> QED
    BY <2>1, <2>2 DEF HoldInv, Still
<1>11. CASE Crash
  <2>1. \A e \in Evals : \A k : ~Holds(e, k)'
    BY <1>11 DEF Crash, Holds
  <2>2. Live' = Live /\ Live \subseteq Key
    BY <1>11 DEF Crash, Live
  <2>3. /\ deliveries' = deliveries
        /\ orphans' = orphans \cup {k \in Pending : \E e \in Evals : Holds(e, k)}
    BY <1>11 DEF Crash
  <2> QED
    BY <2>1, <2>2, <2>3 DEF HoldInv, Pending
<1>12. CASE UNCHANGED vars
  BY <1>1, <1>12, QuietHolds DEF vars, history
<1> QED
  BY <1>2, <1>3, <1>4, <1>5, <1>6, <1>7, <1>8, <1>9, <1>10, <1>11, <1>12
     DEF Next, Step, SendSucceeds, SendFails, SendAbandoned

\* Each message arrives once, and once more for every send that was given up on.
LEMMA SentStep == ASSUME TypeOK, GoneIsGone, HoldInv, SentInv, [Next]_vars PROVE SentInv'
<1> DEFINE Bound(k) == sent[k] + late[k] <= abandoned[k] + (IF Counted(k) THEN 1 ELSE 0)
           Proven(k) == deliveries[k] = "ok" \/ (\E e \in Evals : Told(e, k)) => sent[k] >= 1
<1> USE DEF Counted
<1>1. \A k \in Live : k \in Key /\ sent[k] \in Nat /\ late[k] \in Nat /\ abandoned[k] \in Nat
  BY DEF Live, TypeOK
<1>2. ASSUME Still, UNCHANGED <<rules, deliveries, late, sent, abandoned, orphans, reused>>
      PROVE  SentInv'
  BY <1>2, LiveStays DEF SentInv, Still
\* A key that is held is pending, no orphan, and has no second holder.
<1>3. \A k \in Live, e \in Evals : Holds(e, k) =>
        /\ deliveries[k] = "pending" /\ k \notin orphans
        /\ \A d \in Evals : Told(d, k) => d = e
  BY DEF HoldInv, Told
<1>4. ASSUME NEW e \in Evals, NEW changes \in BOOLEAN, Start(e, changes) PROVE SentInv'
  BY <1>2, <1>4, StartHolds
<1>5. ASSUME NEW e \in Evals, Claim(e) PROVE SentInv'
  <2>1. UNCHANGED <<rules, late, sent, abandoned, orphans, reused>> /\ Live' = Live
    BY <1>5, ClaimHolds, LiveStays
  <2>2. CASE Still /\ UNCHANGED deliveries
    BY <1>2, <2>1, <2>2
  <2>3. ASSUME NEW k \in Key, ~Taken(k), deliveries' = [deliveries EXCEPT ![k] = "pending"],
               \A d \in Evals : \A j : Told(d, j)' <=> Told(d, j)
        PROVE  SentInv'
    <3>1. \A j \in Live : deliveries'[j] = "ok" <=> deliveries[j] = "ok"
      BY <1>1, <2>3 DEF Taken, TypeOK
    <3> QED
      BY <2>1, <2>3, <3>1 DEF SentInv
  <2>4. ASSUME NEW k \in Key, ~Taken(k), deliveries' = [deliveries EXCEPT ![k] = "pending"],
               \A j : ~Told(e, j) /\ ~Told(e, j)',
               \A d \in Evals \ {e} : \A j : Told(d, j)' <=> Told(d, j)
        PROVE  SentInv'
    BY <2>3, <2>4
  <2> QED
    BY <1>5, <2>2, <2>4, ClaimHolds
<1>6. ASSUME NEW e \in Evals, SendSucceeds(e) PROVE SentInv'
  <2>1. Answered(e, "ok") /\ UNCHANGED <<late, abandoned>>
    BY <1>6 DEF SendSucceeds
  <2>2. PICK k \in AtHand(e) : sent' = [sent EXCEPT ![k] = @ + 1]
    BY <1>6 DEF SendSucceeds
  <2>3. /\ Holds(e, k) /\ Told(e, k)' /\ k \in Key
        /\ \A j : Told(e, j)' <=> j = k
        /\ \A j : ~Told(e, j)
        /\ \A d \in Evals \ {e} : \A j : Told(d, j)' <=> Told(d, j)
    BY <2>1, <2>2, AnsweredHolds, OneAtHand
  <2>4. UNCHANGED <<rules, deliveries, orphans, reused>> /\ Live' = Live
    BY <2>1, AnsweredHolds, LiveStays
  <2>5. k \in Live => ~Counted(k)
    BY <1>3, <2>3
  <2>6. /\ sent'[k] = sent[k] + 1 /\ sent[k] \in Nat
        /\ \A j \in Key \ {k} : sent'[j] = sent[j]
    BY <2>2, <2>3 DEF TypeOK
  <2>7. k \in Live => Proven(k)' /\ Bound(k)'
    BY <1>1, <2>1, <2>3, <2>4, <2>5, <2>6 DEF SentInv
  <2>8. \A j \in Live \ {k} : Proven(j)' /\ Bound(j)'
    BY <1>1, <2>1, <2>3, <2>4, <2>6 DEF SentInv
  <2> QED
    BY <2>4, <2>7, <2>8 DEF SentInv
<1>7. ASSUME NEW e \in Evals, SendFails(e) PROVE SentInv'
  <2>1. Answered(e, "failed") /\ UNCHANGED <<late, sent, abandoned>>
    BY <1>7 DEF SendFails
  <2>2. \A d \in Evals : \A j : Told(d, j)' <=> Told(d, j)
    BY <2>1, AnsweredHolds
  <2>3. UNCHANGED <<rules, deliveries, orphans, reused>> /\ Live' = Live
    BY <2>1, AnsweredHolds, LiveStays
  <2> QED
    BY <2>1, <2>2, <2>3 DEF SentInv
<1>8. ASSUME NEW e \in Evals, SendAbandoned(e) PROVE SentInv'
  <2>1. Answered(e, "failed") /\ UNCHANGED sent
    BY <1>8 DEF SendAbandoned
  <2>2. \A d \in Evals : \A j : Told(d, j)' <=> Told(d, j)
    BY <2>1, AnsweredHolds
  <2>3. UNCHANGED <<rules, deliveries, orphans, reused>> /\ Live' = Live
    BY <2>1, AnsweredHolds, LiveStays
  <2>4. PICK k \in AtHand(e) : /\ abandoned' = [abandoned EXCEPT ![k] = @ + 1]
                               /\ late' = [late EXCEPT ![k] = @ + 1]
    BY <1>8 DEF SendAbandoned
  <2>5. \A j \in Live : \/ late'[j] = late[j] /\ abandoned'[j] = abandoned[j]
                        \/ late'[j] = late[j] + 1 /\ abandoned'[j] = abandoned[j] + 1
    BY <1>1, <2>4 DEF TypeOK
  <2> QED
    BY <1>1, <2>1, <2>2, <2>3, <2>5 DEF SentInv
<1>9. ASSUME NEW e \in Evals, Record(e) \/ RecordLost(e) PROVE SentInv'
  <2>1. PICK k \in Key :
          /\ \A j : Holds(e, j) <=> j = k
          /\ Told(e, k) <=> result[e] = "ok"
          /\ \A j : ~Holds(e, j)' /\ ~Told(e, j)'
          /\ \A d \in Evals \ {e} : \A j : (Holds(d, j)' <=> Holds(d, j)) /\ (Told(d, j)' <=> Told(d, j))
          /\ UNCHANGED <<rules, late, sent, abandoned, reused>>
          /\ \/ deliveries' = [deliveries EXCEPT ![k] = Recorded(e, k)] /\ orphans' = orphans
             \/ deliveries' = deliveries /\ orphans' = orphans \cup ({k} \cap Pending)
    BY <1>9, RecordHolds
  <2>2. Live' = Live
    BY <2>1, LiveStays
  <2>3. \A j \in Live \ {k} : /\ deliveries'[j] = deliveries[j] /\ (j \in orphans' <=> j \in orphans)
                              /\ \A d \in Evals : Told(d, j)' <=> Told(d, j)
    <3>1. \A j : Told(e, j) => j = k
      BY <2>1 DEF Told
    <3> QED
      BY <1>1, <2>1, <3>1 DEF TypeOK
  <2>4. \A j \in Live \ {k} : Proven(j)' /\ Bound(j)'
    BY <2>1, <2>2, <2>3 DEF SentInv
  <2>5. k \in Live => /\ deliveries[k] = "pending" /\ k \notin orphans
                      /\ \A d \in Evals : ~Told(d, k)'
                      /\ Counted(k) <=> Told(e, k)
    BY <1>3, <2>1
  <2>6. k \in Live => /\ deliveries'[k] = "ok" => Told(e, k)
                      /\ Told(e, k) => Counted(k)'
    <3>1. CASE deliveries' = [deliveries EXCEPT ![k] = Recorded(e, k)]
      BY <2>1, <2>5, <3>1 DEF Recorded, TypeOK
    <3>2. CASE deliveries' = deliveries /\ orphans' = orphans \cup ({k} \cap Pending)
      BY <2>1, <2>5, <3>2 DEF Pending
    <3> QED
      BY <2>1, <3>1, <3>2
  <2>7. k \in Live => Proven(k)' /\ Bound(k)'
    BY <1>1, <2>1, <2>5, <2>6 DEF SentInv
  <2> QED
    BY <2>2, <2>4, <2>7 DEF SentInv
<1>10. ASSUME NEW e \in Evals, Expire(e) PROVE SentInv'
  BY <1>2, <1>10, QuietHolds DEF Expire, history
<1>11. ASSUME NEW k \in Key, LateSend(k) PROVE SentInv'
  <2>1. Still /\ UNCHANGED <<rules, deliveries, abandoned, orphans, reused>>
    BY <1>11, QuietHolds DEF LateSend
  <2>2. Live' = Live
    BY <2>1, LiveStays
  <2>3. \A j \in Live : sent'[j] >= sent[j] /\ sent'[j] + late'[j] <= sent[j] + late[j]
                        /\ sent'[j] \in Nat /\ late'[j] \in Nat
    BY <1>1, <1>11 DEF LateSend, TypeOK
  <2> QED
    BY <1>1, <2>1, <2>2, <2>3 DEF SentInv, Still
<1>12. ASSUME NEW r \in Rules, CreateRule(r) PROVE SentInv'
  <2>1. Still /\ UNCHANGED <<deliveries, late, orphans>>
    BY <1>12, QuietHolds DEF CreateRule
  <2>2. ASSUME NEW k \in Live', k[1] # r PROVE Proven(k)' /\ Bound(k)'
    <3>1. k \in Live /\ sent'[k] = sent[k] /\ abandoned'[k] = abandoned[k]
      BY <1>12, <2>2 DEF CreateRule, Live
    <3> QED
      BY <2>1, <3>1 DEF SentInv, Still
  <2>3. ASSUME NEW k \in Live', k[1] = r PROVE Proven(k)' /\ Bound(k)'
    <3>1. k \in Key
      BY DEF Live
    <3>2. deliveries[k] = "none" /\ \A e \in Evals : ~Told(e, k)
      BY <1>12, <2>3, <3>1, CreatedIsFree DEF Told
    <3>3. sent'[k] = 0 /\ abandoned'[k] = late[k] /\ late[k] \in Nat
      BY <1>12, <2>3, <3>1 DEF CreateRule, TypeOK
    <3> QED
      BY <2>1, <3>2, <3>3 DEF Still
  <2> QED
    BY <2>2, <2>3 DEF SentInv
<1>13. ASSUME NEW r \in Rules, ToggleRule(r) PROVE SentInv'
  BY <1>2, <1>13, QuietHolds DEF ToggleRule, history
<1>14. ASSUME NEW r \in Rules, DeleteRule(r) PROVE SentInv'
  <2>1. Still /\ UNCHANGED <<late, sent, abandoned>>
    BY <1>14, QuietHolds DEF DeleteRule
  <2>2. \A k \in Live' : k \in Live /\ deliveries'[k] = deliveries[k] /\ (k \in orphans' <=> k \in orphans)
    BY <1>14 DEF DeleteRule, Live
  <2> QED
    BY <2>1, <2>2 DEF SentInv, Still
<1>15. CASE Crash
  <2>1. \A e \in Evals : \A k : ~Told(e, k)'
    BY <1>15 DEF Crash, Told, Holds
  <2>2. Live' = Live
    BY <1>15 DEF Crash, Live
  <2>3. /\ UNCHANGED <<deliveries, sent, abandoned>>
        /\ orphans' = orphans \cup {k \in Pending : \E e \in Evals : Holds(e, k)}
        /\ \A k \in Key : late'[k] = 0
    BY <1>15 DEF Crash
  <2>4. \A k \in Live : Counted(k) => Counted(k)'
    BY <1>1, <1>3, <2>3 DEF Pending, Told
  <2> QED
    BY <1>1, <2>1, <2>2, <2>3, <2>4 DEF SentInv
<1>16. CASE UNCHANGED vars
  BY <1>2, <1>16, QuietHolds DEF vars, history
<1> QED
  BY <1>4, <1>5, <1>6, <1>7, <1>8, <1>9, <1>10, <1>11, <1>12, <1>13, <1>14, <1>15, <1>16
     DEF Next, Step

-----------------------------------------------------------------------------

LEMMA InvInit == Init => IInv
<1>1. Init => GoneIsGone /\ HoldInv /\ SentInv
  BY DEF Init, GoneIsGone, HoldInv, SentInv, Live, Holds, Told
<1> QED
  BY <1>1, TypeInit DEF IInv

LEMMA InvStep == IInv /\ [Next]_vars => IInv'
  BY TypeStep, GoneStep, HoldStep, SentStep DEF IInv

LEMMA InvHolds == Spec => []IInv
  BY InvInit, InvStep, PTL DEF Spec

\* deliverOnce: a row is pending for exactly one evaluation, or for none that will ever
\* come back to it; two evaluations never send the same thing at once.
THEOREM ClaimsHeld == Spec => []ClaimsAreHeld
<1>1. IInv => ClaimsAreHeld
  <2>1. SUFFICES ASSUME IInv PROVE OneSender /\ PendingIsHeld
    BY DEF IInv, ClaimsAreHeld
  <2>2. \A k \in Key : k[1] \in rules \ reused => k \in Live
    BY DEF Live
  <2> QED
    BY <2>1, <2>2 DEF IInv, HoldInv, OneSender, PendingIsHeld
<1> QED
  BY <1>1, InvHolds, PTL

\* deliverOnce, Send: what is recorded as delivered arrived; what arrived twice had been
\* given up on.
THEOREM SentOnce == Spec => []Once
<1>1. IInv => Once
  <2> SUFFICES ASSUME IInv, NEW k \in Key, k[1] \in rules \ reused
               PROVE  (deliveries[k] = "ok" => sent[k] >= 1) /\ sent[k] <= 1 + abandoned[k]
    BY DEF Once
  <2>1. k \in Live /\ sent[k] \in Nat /\ late[k] \in Nat /\ abandoned[k] \in Nat
    BY DEF IInv, Live, TypeOK
  <2> QED
    BY <2>1 DEF IInv, SentInv
<1> QED
  BY <1>1, InvHolds, PTL

\* A recorded success is final: only deleting the rule undoes it.
SuccessIsFinal ==
  [][\A k \in Key : deliveries[k] = "ok" =>
       deliveries'[k] = "ok" \/ k[1] \notin rules' \/ k[1] \in reused]_vars

\* deliverOnce: no later evaluation overwrites a recorded success.
THEOREM SuccessStays == Spec => SuccessIsFinal
<1> DEFINE Final == \A k \in Key : deliveries[k] = "ok" =>
                      deliveries'[k] = "ok" \/ k[1] \notin rules' \/ k[1] \in reused
<1>1. IInv /\ [Next]_vars => [Final]_vars
  <2> SUFFICES ASSUME IInv, Next, NEW k \in Key, deliveries[k] = "ok", k[1] \in rules' \ reused
               PROVE  deliveries'[k] = "ok"
    OBVIOUS
  <2>1. TypeOK /\ k[1] \in rules /\ k \in Live
    BY DEF IInv, GoneIsGone, Live
  <2>2. \A e \in Evals : ~Holds(e, k)
    BY <2>1 DEF IInv, HoldInv
  <2>3. ASSUME NEW e \in Evals, Claim(e) PROVE deliveries'[k] = "ok"
    <3>1. \/ deliveries' = deliveries
          \/ \E j \in Key : ~Taken(j) /\ deliveries' = [deliveries EXCEPT ![j] = "pending"]
      BY <2>1, <2>3, ClaimHolds
    <3> QED
      BY <2>1, <3>1 DEF Taken, TypeOK
  <2>4. ASSUME NEW e \in Evals, Record(e) \/ RecordLost(e) PROVE deliveries'[k] = "ok"
    <3>1. PICK j \in Key : /\ Holds(e, j)
                           /\ \/ deliveries' = [deliveries EXCEPT ![j] = Recorded(e, j)]
                              \/ deliveries' = deliveries
      BY <2>1, <2>4, RecordHolds
    <3> QED
      BY <2>1, <2>2, <3>1 DEF TypeOK
  <2>5. ASSUME NEW r \in Rules, DeleteRule(r) PROVE deliveries'[k] = "ok"
    BY <2>5 DEF DeleteRule
  <2>6. ASSUME NEW e \in Evals, NEW changes \in BOOLEAN, Start(e, changes)
        PROVE  deliveries' = deliveries
    BY <2>6 DEF Start
  <2>7. ASSUME NEW e \in Evals, NEW o, Answered(e, o) PROVE deliveries' = deliveries
    BY <2>7 DEF Answered
  <2>8. ASSUME NEW e \in Evals, Expire(e) PROVE deliveries' = deliveries
    BY <2>8 DEF Expire
  <2>9. ASSUME NEW j \in Key, LateSend(j) PROVE deliveries' = deliveries
    BY <2>9 DEF LateSend
  <2>10. ASSUME NEW r \in Rules, CreateRule(r) \/ ToggleRule(r) PROVE deliveries' = deliveries
    BY <2>10 DEF CreateRule, ToggleRule
  <2>11. CASE Crash
    BY <2>11 DEF Crash
  <2> QED
    BY <2>3, <2>4, <2>5, <2>6, <2>7, <2>8, <2>9, <2>10, <2>11
       DEF Next, Step, SendSucceeds, SendFails, SendAbandoned
<1> QED
  BY <1>1, InvHolds, PTL DEF Spec, SuccessIsFinal

-----------------------------------------------------------------------------
\* Notify implements Delivery.

\* The phase of a key that is held, by its holder.
Stage(e, k) ==
  IF pc[e] = "send" THEN "claimed" ELSE IF Told(e, k) THEN "taken" ELSE "refused"

PhaseFits ==
  \A k \in Key :
    /\ k \notin Live => Phase(k) = "void"
    /\ k \in Live /\ deliveries[k] = "ok" => Phase(k) = "delivered"
    /\ k \in Live /\ deliveries[k] \in {"none", "failed"} => Phase(k) = "open"
    /\ \A e \in Evals : k \in Live /\ Holds(e, k) => Phase(k) = Stage(e, k)
    /\ k \in Live /\ deliveries[k] = "pending" /\ (\A e \in Evals : ~Holds(e, k)) => Phase(k) = "lost"

LEMMA PhaseIs == HoldInv => PhaseFits
<1> SUFFICES ASSUME HoldInv, NEW k \in Key
             PROVE  /\ k \notin Live => Phase(k) = "void"
                    /\ k \in Live /\ deliveries[k] = "ok" => Phase(k) = "delivered"
                    /\ k \in Live /\ deliveries[k] \in {"none", "failed"} => Phase(k) = "open"
                    /\ \A e \in Evals : k \in Live /\ Holds(e, k) => Phase(k) = Stage(e, k)
                    /\ k \in Live /\ deliveries[k] = "pending" /\ (\A e \in Evals : ~Holds(e, k))
                         => Phase(k) = "lost"
  BY DEF PhaseFits
<1>1. k \notin Live => Phase(k) = "void"
  BY DEF Phase
<1>2. k \in Live /\ deliveries[k] = "ok" => Phase(k) = "delivered"
  BY DEF Phase
<1>3. k \in Live /\ deliveries[k] \in {"none", "failed"} => Phase(k) = "open"
  BY DEF Phase
<1>4. k \in Live /\ deliveries[k] = "pending" => Phase(k) = PendingPhase(k)
  BY DEF Phase
<1>5. ASSUME NEW e \in Evals, k \in Live, Holds(e, k) PROVE Phase(k) = Stage(e, k)
  <2>1. deliveries[k] = "pending" /\ \A d \in Evals : Holds(d, k) => d = e
    BY <1>5 DEF HoldInv
  <2>2. pc[e] \in {"send", "record"}
    BY <1>5 DEF Holds
  <2>3. \A d \in Evals : Told(d, k) => d = e /\ pc[e] = "record"
    BY <2>1 DEF Told
  <2>4. CASE pc[e] = "send"
    BY <1>4, <1>5, <2>1, <2>3, <2>4 DEF PendingPhase, Stage
  <2>5. CASE pc[e] = "record" /\ Told(e, k)
    BY <1>4, <1>5, <2>1, <2>5 DEF PendingPhase, Stage
  <2>6. CASE pc[e] = "record" /\ ~Told(e, k)
    BY <1>4, <1>5, <2>1, <2>3, <2>6 DEF PendingPhase, Stage
  <2> QED
    BY <2>2, <2>4, <2>5, <2>6
<1>6. k \in Live /\ deliveries[k] = "pending" /\ (\A e \in Evals : ~Holds(e, k)) => Phase(k) = "lost"
  BY <1>4 DEF PendingPhase, Told
<1> QED
  BY <1>1, <1>2, <1>3, <1>5, <1>6

LEMMA PhaseIsNext == HoldInv' => PhaseFits'
  BY PhaseIs, PTL

\* What a step leaves alone: the row and the holders of a key, and what was counted of it.
Untouched(k) ==
  /\ k \in Live' <=> k \in Live
  /\ k \in Live =>
       /\ deliveries'[k] = deliveries[k]
       /\ \A d \in Evals : (Holds(d, k)' <=> Holds(d, k)) /\ (Told(d, k)' <=> Told(d, k))
       /\ \A d \in Evals : Holds(d, k) => pc'[d] = pc[d]
Uncounted(k) ==
  /\ k \in Live' <=> k \in Live
  /\ k \in Live => sent'[k] = sent[k] /\ late'[k] = late[k] /\ abandoned'[k] = abandoned[k]

LEMMA SamePhase ==
  ASSUME TypeOK, HoldInv, HoldInv', NEW k \in Key, Untouched(k)
  PROVE  Phase(k)' = Phase(k)
<1>1. PhaseFits /\ PhaseFits'
  BY PhaseIs, PhaseIsNext
<1>2. deliveries[k] \in {"none", "pending", "ok", "failed"}
  BY DEF TypeOK
<1>3. CASE k \notin Live
  BY <1>1, <1>3 DEF PhaseFits, Untouched
<1>4. CASE k \in Live /\ deliveries[k] = "ok"
  BY <1>1, <1>4 DEF PhaseFits, Untouched
<1>5. CASE k \in Live /\ deliveries[k] \in {"none", "failed"}
  BY <1>1, <1>5 DEF PhaseFits, Untouched
<1>6. ASSUME k \in Live, NEW e \in Evals, Holds(e, k) PROVE Phase(k)' = Phase(k)
  <2>1. Stage(e, k)' = Stage(e, k)
    BY <1>6 DEF Stage, Untouched
  <2> QED
    BY <1>1, <1>6, <2>1 DEF PhaseFits, Untouched
<1>7. CASE k \in Live /\ deliveries[k] = "pending" /\ \A e \in Evals : ~Holds(e, k)
  BY <1>1, <1>7 DEF PhaseFits, Untouched
<1> QED
  BY <1>2, <1>3, <1>4, <1>5, <1>6, <1>7

LEMMA SameCounts ==
  ASSUME \A k \in Key : Uncounted(k)
  PROVE  UNCHANGED <<Count(sent), Count(late), Count(abandoned)>>
  BY DEF Count, Uncounted

\* Nothing that is promised about moves.
LEMMA Stutters ==
  ASSUME TypeOK, HoldInv, HoldInv', \A k \in Key : Untouched(k) /\ Uncounted(k)
  PROVE  UNCHANGED D!vars
<1>1. Phases' = Phases
  BY SamePhase DEF Phases
<1> QED
  BY <1>1, SameCounts DEF D!vars, D!counts

\* One key moves.
LEMMA OneMoves ==
  ASSUME TypeOK, HoldInv, HoldInv', NEW k \in Key, NEW before, NEW after,
         Phase(k) = before, Phase(k)' = after, \A j \in Key \ {k} : Untouched(j)
  PROVE  D!Moves(k, before, after)
<1>1. \A j \in Key \ {k} : Phase(j)' = Phase(j)
  BY SamePhase
<1>2. Phases' = [Phases EXCEPT ![k] = after]
  BY <1>1 DEF Phases
<1> QED
  BY <1>2 DEF Phases, D!Moves

\* What is still to be shown of a delivery that no step of e is about.
LEMMA OthersRest ==
  ASSUME UNCHANGED <<rules, reused>>, NEW e \in Evals, NEW j \in Key, ~Holds(e, j), ~Holds(e, j)',
         deliveries'[j] = deliveries[j],
         \A d \in Evals \ {e} : (Holds(d, j)' <=> Holds(d, j)) /\ (Told(d, j)' <=> Told(d, j)),
         \A d \in Evals \ {e} : pc'[d] = pc[d]
  PROVE  Untouched(j)
  BY DEF Untouched, Live, Told

\* Only e moves.
LEMMA OthersKeepTheirStage ==
  ASSUME TypeOK, NEW e \in Evals,
         \/ \E changes \in BOOLEAN : Start(e, changes)
         \/ Claim(e) \/ Record(e) \/ RecordLost(e) \/ \E o : Answered(e, o)
  PROVE  \A d \in Evals \ {e} : pc'[d] = pc[d]
  BY DEF TypeOK, Start, Claim, Record, RecordLost, Answered, Continue

LEMMA StartMoves ==
  ASSUME TypeOK, HoldInv, HoldInv', NEW e \in Evals, NEW changes \in BOOLEAN, Start(e, changes)
  PROVE  UNCHANGED D!vars
<1>1. Still /\ UNCHANGED <<rules, deliveries, late, sent, abandoned, orphans, reused>>
  BY StartHolds
<1>2. \A d \in Evals : \A k : Holds(d, k) => pc'[d] = pc[d]
  BY OthersKeepTheirStage DEF Start, Holds
<1>3. \A k \in Key : Untouched(k) /\ Uncounted(k)
  BY <1>1, <1>2 DEF Still, Untouched, Uncounted, Live
<1> QED
  BY <1>3, Stutters

LEMMA ClaimMoves ==
  ASSUME TypeOK, HoldInv, HoldInv', NEW e \in Evals, Claim(e)
  PROVE  [D!Next]_(D!vars)
<1>1. UNCHANGED <<rules, late, sent, abandoned, orphans, reused>>
  BY ClaimHolds
<1>2. \A k \in Key : Uncounted(k)
  BY <1>1 DEF Uncounted, Live
<1>3. \A j : ~Holds(e, j)
  BY DEF Claim, Holds
<1>4. \A d \in Evals \ {e} : pc'[d] = pc[d]
  BY OthersKeepTheirStage
<1>5. CASE Still /\ UNCHANGED deliveries
  <2>1. \A k \in Key : Untouched(k)
    BY <1>1, <1>3, <1>4, <1>5 DEF Still, Untouched, Live
  <2> QED
    BY <1>2, <2>1, Stutters
<1>6. ASSUME NEW k \in Key,
             k[1] \in rules, ~Taken(k), deliveries' = [deliveries EXCEPT ![k] = "pending"],
             \A j : Holds(e, j)' <=> j = k,
             \A d \in Evals \ {e} : \A j : (Holds(d, j)' <=> Holds(d, j)) /\ (Told(d, j)' <=> Told(d, j))
      PROVE  [D!Next]_(D!vars)
  <2>1. \A j \in Key \ {k} : Untouched(j)
    <3> SUFFICES ASSUME NEW j \in Key \ {k} PROVE Untouched(j)
      OBVIOUS
    <3>1. deliveries'[j] = deliveries[j]
      BY <1>6 DEF TypeOK
    <3> QED
      BY <1>1, <1>3, <1>4, <1>6, <3>1, OthersRest
  <2>2. CASE k \in Live
    <3>1. k \in Live' /\ Holds(e, k)'
      BY <1>1, <1>6, <2>2 DEF Live
    <3>2. pc'[e] = "send"
      <4>1. pc'[e] \in {"send", "record"}
        BY <3>1 DEF Holds
      <4>2. pc'[e] \in {"idle", "claim", "send"}
        BY DEF Claim, Continue, TypeOK
      <4> QED
        BY <4>1, <4>2
    <3>3. Phase(k)' = "claimed"
      BY <3>1, <3>2, PhaseIsNext DEF PhaseFits, Stage
    <3>4. deliveries[k] \in {"none", "failed"}
      BY <1>6 DEF Taken, TypeOK
    <3>5. Phase(k) = "open"
      BY <2>2, <3>4, PhaseIs DEF PhaseFits
    <3>6. D!Moves(k, "open", "claimed")
      BY <2>1, <3>3, <3>5, OneMoves
    <3> QED
      BY <1>2, <3>6, SameCounts DEF D!Next, D!Claim, D!counts
  <2>3. CASE k \notin Live
    <3>1. Untouched(k)
      BY <1>1, <2>3 DEF Untouched, Live
    <3> QED
      BY <1>2, <2>1, <3>1, Stutters
  <2> QED
    BY <2>2, <2>3
<1> QED
  BY <1>5, <1>6, ClaimHolds

\* What e has an answer for is the key it holds, and only that one changes its phase.
LEMMA AnswerMoves ==
  ASSUME TypeOK, HoldInv, HoldInv', NEW e \in Evals, NEW o \in {"ok", "failed"}, Answered(e, o)
  PROVE  /\ \A k : ~Holds(e, k) => (k \in Key => Untouched(k))
         /\ \A k \in Live : Holds(e, k) =>
              D!Moves(k, "claimed", IF o = "ok" THEN "taken" ELSE "refused")
<1>1. /\ UNCHANGED <<rules, deliveries, orphans, reused>>
      /\ \A d \in Evals : \A k : Holds(d, k)' <=> Holds(d, k)
      /\ \A d \in Evals \ {e} : \A k : Told(d, k)' <=> Told(d, k)
      /\ \A k : k \in AtHand(e) <=> Holds(e, k)
      /\ \A k : Told(e, k)' <=> Holds(e, k) /\ o = "ok"
  BY AnsweredHolds
<1>2. \A d \in Evals \ {e} : pc'[d] = pc[d]
  BY OthersKeepTheirStage
<1>3. \A k \in Key : ~Holds(e, k) => Untouched(k)
  BY <1>1, <1>2, OthersRest
<1>4. ASSUME NEW k \in Live, Holds(e, k)
      PROVE  D!Moves(k, "claimed", IF o = "ok" THEN "taken" ELSE "refused")
  <2>1. k \in Key /\ k \in Live' /\ Holds(e, k)'
    BY <1>1, <1>4 DEF Live
  <2>2. pc[e] = "send" /\ pc'[e] = "record"
    BY DEF Answered, TypeOK
  <2>3. Phase(k) = "claimed"
    BY <1>4, <2>1, <2>2, PhaseIs DEF PhaseFits, Stage
  <2>4. Phase(k)' = IF Told(e, k)' THEN "taken" ELSE "refused"
    BY <2>1, <2>2, PhaseIsNext DEF PhaseFits, Stage
  <2>5. Phase(k)' = IF o = "ok" THEN "taken" ELSE "refused"
    BY <1>1, <1>4, <2>4
  <2>6. \A j \in Key \ {k} : ~Holds(e, j)
    BY <1>1, <1>4, OneAtHand
  <2> QED
    BY <1>3, <2>1, <2>3, <2>5, <2>6, OneMoves
<1> QED
  BY <1>3, <1>4

LEMMA SucceedsMoves ==
  ASSUME TypeOK, HoldInv, HoldInv', NEW e \in Evals, SendSucceeds(e)
  PROVE  [D!Next]_(D!vars)
<1>1. Answered(e, "ok") /\ UNCHANGED <<late, abandoned>> /\ Live' = Live
  BY DEF SendSucceeds, Answered, Live
<1>2. PICK k \in AtHand(e) : sent' = [sent EXCEPT ![k] = @ + 1]
  BY DEF SendSucceeds
<1>3. k \in Key /\ Holds(e, k) /\ \A j : Holds(e, j) => j = k
  BY <1>1, <1>2, AnsweredHolds, OneAtHand
<1>4. \A j \in Key \ {k} : Untouched(j)
  BY <1>1, <1>3, AnswerMoves
<1>5. \A j \in Key : j # k => sent'[j] = sent[j]
  BY <1>2 DEF TypeOK
<1>6. CASE k \in Live
  <2>1. D!Moves(k, "claimed", "taken")
    BY <1>1, <1>3, <1>6, AnswerMoves
  <2>2. sent'[k] = sent[k] + 1
    BY <1>2, <1>3 DEF TypeOK
  <2>3. Count(sent)' = [Count(sent) EXCEPT ![k] = @ + 1]
    BY <1>1, <1>3, <1>5, <1>6, <2>2 DEF Count
  <2>4. UNCHANGED <<Count(late), Count(abandoned)>>
    BY <1>1 DEF Count
  <2> QED
    BY <1>3, <2>1, <2>3, <2>4 DEF D!Next, D!Take
<1>7. CASE k \notin Live
  <2>1. Untouched(k) /\ \A j \in Key : Uncounted(j)
    BY <1>1, <1>5, <1>7 DEF Untouched, Uncounted
  <2> QED
    BY <1>4, <2>1, Stutters
<1> QED
  BY <1>6, <1>7

LEMMA FailsMoves ==
  ASSUME TypeOK, HoldInv, HoldInv', NEW e \in Evals, SendFails(e)
  PROVE  [D!Next]_(D!vars)
<1>1. Answered(e, "failed") /\ UNCHANGED <<late, sent, abandoned>> /\ Live' = Live
  BY DEF SendFails, Answered, Live
<1>2. \A k \in Key : Uncounted(k)
  BY <1>1 DEF Uncounted
<1>3. CASE \E k \in Live : Holds(e, k)
  <2>1. PICK k \in Live : Holds(e, k)
    BY <1>3
  <2>2. D!Moves(k, "claimed", "refused") /\ k \in Key
    BY <1>1, <2>1, AnswerMoves DEF Live
  <2> QED
    BY <1>2, <2>2, SameCounts DEF D!Next, D!Refuse, D!counts
<1>4. CASE \A k \in Live : ~Holds(e, k)
  <2>1. \A k \in Key : Untouched(k)
    <3>1. \A k \in Key \ Live : Untouched(k)
      BY <1>1 DEF Untouched
    <3> QED
      BY <1>1, <1>4, <3>1, AnswerMoves
  <2> QED
    BY <1>2, <2>1, Stutters
<1> QED
  BY <1>3, <1>4

LEMMA AbandonedMoves ==
  ASSUME TypeOK, HoldInv, HoldInv', NEW e \in Evals, SendAbandoned(e)
  PROVE  [D!Next]_(D!vars)
<1>1. Answered(e, "failed") /\ sent' = sent /\ Live' = Live
  BY DEF SendAbandoned, Answered, Live
<1>2. PICK k \in AtHand(e) : /\ abandoned' = [abandoned EXCEPT ![k] = @ + 1]
                             /\ late' = [late EXCEPT ![k] = @ + 1]
  BY DEF SendAbandoned
<1>3. k \in Key /\ Holds(e, k) /\ \A j : Holds(e, j) => j = k
  BY <1>1, <1>2, AnsweredHolds, OneAtHand
<1>4. \A j \in Key \ {k} : Untouched(j)
  BY <1>1, <1>3, AnswerMoves
<1>5. \A j \in Key : j # k => late'[j] = late[j] /\ abandoned'[j] = abandoned[j]
  BY <1>2 DEF TypeOK
<1>6. CASE k \in Live
  <2>1. D!Moves(k, "claimed", "refused")
    BY <1>1, <1>3, <1>6, AnswerMoves
  <2>2. late'[k] = late[k] + 1 /\ abandoned'[k] = abandoned[k] + 1
    BY <1>2, <1>3 DEF TypeOK
  <2>3. /\ Count(late)' = [Count(late) EXCEPT ![k] = @ + 1]
        /\ Count(abandoned)' = [Count(abandoned) EXCEPT ![k] = @ + 1]
    BY <1>1, <1>3, <1>5, <1>6, <2>2 DEF Count
  <2>4. Count(sent)' = Count(sent)
    BY <1>1 DEF Count
  <2> QED
    BY <1>3, <2>1, <2>3, <2>4 DEF D!Next, D!GiveUp
<1>7. CASE k \notin Live
  <2>1. Untouched(k) /\ \A j \in Key : Uncounted(j)
    BY <1>1, <1>5, <1>7 DEF Untouched, Uncounted
  <2> QED
    BY <1>4, <2>1, Stutters
<1> QED
  BY <1>6, <1>7

LEMMA RecordMoves ==
  ASSUME TypeOK, HoldInv, HoldInv', NEW e \in Evals, Record(e) \/ RecordLost(e)
  PROVE  [D!Next]_(D!vars)
<1>1. PICK k \in Key :
        /\ \A j : Holds(e, j) <=> j = k
        /\ Told(e, k) <=> result[e] = "ok"
        /\ \A j : ~Holds(e, j)' /\ ~Told(e, j)'
        /\ \A d \in Evals \ {e} : \A j : (Holds(d, j)' <=> Holds(d, j)) /\ (Told(d, j)' <=> Told(d, j))
        /\ UNCHANGED <<rules, late, sent, abandoned, reused>>
        /\ \/ /\ deliveries' = [deliveries EXCEPT ![k] = Recorded(e, k)]
              /\ orphans' = orphans
           \/ /\ deliveries' = deliveries
              /\ orphans' = orphans \cup ({k} \cap Pending)
  BY RecordHolds
<1>2. Live' = Live /\ \A j \in Key : Uncounted(j)
  BY <1>1 DEF Live, Uncounted
<1>3. \A d \in Evals \ {e} : pc'[d] = pc[d]
  BY OthersKeepTheirStage
<1>4. \A j \in Key \ {k} : Untouched(j)
  <2> SUFFICES ASSUME NEW j \in Key \ {k} PROVE Untouched(j)
    OBVIOUS
  <2>1. deliveries'[j] = deliveries[j] /\ ~Holds(e, j) /\ ~Holds(e, j)'
    BY <1>1 DEF TypeOK
  <2> QED
    BY <1>1, <1>3, <2>1, OthersRest
<1>5. CASE k \in Live
  <2>1. deliveries[k] = "pending" /\ \A d \in Evals : ~Holds(d, k)'
    BY <1>1, <1>5 DEF HoldInv
  <2>2. pc[e] = "record"
    BY DEF Record, RecordLost
  <2>3. Phase(k) = IF result[e] = "ok" THEN "taken" ELSE "refused"
    BY <1>1, <1>5, <2>2, PhaseIs DEF PhaseFits, Stage
  <2>4. CASE deliveries' = [deliveries EXCEPT ![k] = Recorded(e, k)]
    <3>1. deliveries'[k] = result[e] /\ result[e] \in {"none", "ok", "failed"}
      BY <2>1, <2>4 DEF Recorded, TypeOK
    <3>2. Phase(k)' = IF result[e] = "ok" THEN "delivered" ELSE "open"
      BY <1>2, <1>5, <3>1, PhaseIsNext DEF PhaseFits
    <3>3. D!Moves(k, "taken", "delivered") \/ D!Moves(k, "refused", "open")
      BY <1>4, <2>3, <3>2, OneMoves
    <3> QED
      BY <1>2, <3>3, SameCounts DEF D!Next, D!Settle, D!counts
  <2>5. CASE deliveries' = deliveries
    <3>1. Phase(k)' = "lost"
      BY <1>2, <1>5, <2>1, <2>5, PhaseIsNext DEF PhaseFits
    <3>2. D!Moves(k, "taken", "lost") \/ D!Moves(k, "refused", "lost")
      BY <1>4, <2>3, <3>1, OneMoves
    <3> QED
      BY <1>2, <3>2, SameCounts DEF D!Next, D!Lose, D!counts
  <2> QED
    BY <1>1, <2>4, <2>5
<1>6. CASE k \notin Live
  <2>1. Untouched(k)
    BY <1>2, <1>6 DEF Untouched
  <2> QED
    BY <1>2, <1>4, <2>1, Stutters
<1> QED
  BY <1>5, <1>6

\* Steps of no evaluation: rows, holders and stages stay.
LEMMA RowsRest ==
  ASSUME UNCHANGED <<deliveries, pc, todo, result>>, TypeOK
  PROVE  \A k \in Key : (k \in Live' <=> k \in Live) => Untouched(k)
  BY QuietHolds DEF Still, Untouched

LEMMA StraggleMoves ==
  ASSUME TypeOK, HoldInv, HoldInv', NEW k \in Key, LateSend(k)
  PROVE  [D!Next]_(D!vars)
<1>1. /\ UNCHANGED <<rules, deliveries, pc, todo, result, abandoned, reused>> /\ Live' = Live
      /\ late[k] > 0 /\ late' = [late EXCEPT ![k] = @ - 1]
      /\ sent' \in {sent, [sent EXCEPT ![k] = @ + 1]}
  BY DEF LateSend, Live
<1>2. \A j \in Key : Untouched(j)
  BY <1>1, RowsRest
<1>3. Phases' = Phases
  BY <1>2, SamePhase DEF Phases
<1>4. Count(abandoned)' = Count(abandoned)
  BY <1>1 DEF Count
<1>5. CASE k \in Live
  <2>1. Phases[k] # "void"
    <3>1. deliveries[k] \in {"none", "pending", "ok", "failed"}
      BY DEF TypeOK
    <3>2. ASSUME NEW e \in Evals, Holds(e, k) PROVE Phase(k) # "void"
      BY <1>5, <3>2, PhaseIs DEF PhaseFits, Stage
    <3>3. Phase(k) # "void"
      BY <1>5, <3>1, <3>2, PhaseIs DEF PhaseFits
    <3> QED
      BY <3>3 DEF Phases
  <2>2. Count(late)[k] > 0 /\ Count(late)' = [Count(late) EXCEPT ![k] = @ - 1]
    <3>1. late'[k] = late[k] - 1 /\ \A j \in Key \ {k} : late'[j] = late[j]
      BY <1>1 DEF TypeOK
    <3> QED
      BY <1>1, <1>5, <3>1 DEF Count
  <2>3. Count(sent)' \in {Count(sent), [Count(sent) EXCEPT ![k] = @ + 1]}
    <3>1. CASE sent' = sent
      BY <1>1, <3>1 DEF Count
    <3>2. CASE sent' = [sent EXCEPT ![k] = @ + 1]
      <4>1. sent'[k] = sent[k] + 1 /\ \A j \in Key \ {k} : sent'[j] = sent[j]
        BY <3>2 DEF TypeOK
      <4>2. Count(sent)' = [Count(sent) EXCEPT ![k] = @ + 1]
        BY <1>1, <1>5, <4>1 DEF Count
      <4> QED
        BY <4>2
    <3> QED
      BY <1>1, <3>1, <3>2
  <2> QED
    BY <1>3, <1>4, <2>1, <2>2, <2>3 DEF D!Next, D!Straggle
<1>6. CASE k \notin Live
  <2>1. \A j \in Key : Uncounted(j)
    BY <1>1, <1>6 DEF Uncounted, TypeOK
  <2> QED
    BY <1>2, <2>1, Stutters
<1> QED
  BY <1>5, <1>6

LEMMA CreateMoves ==
  ASSUME TypeOK, GoneIsGone, HoldInv, HoldInv', TypeOK', NEW r \in Rules, CreateRule(r)
  PROVE  [D!Next]_(D!vars)
<1> DEFINE K == {k \in Live' : k[1] = r}
<1>1. /\ UNCHANGED <<deliveries, pc, todo, result, late>>
      /\ sent' = [k \in Key |-> IF k[1] = r THEN 0 ELSE sent[k]]
      /\ abandoned' = [k \in Key |-> IF k[1] = r THEN late[k] ELSE abandoned[k]]
      /\ rules' = rules \cup {r} /\ reused' \in {reused, reused \cup {r}}
  BY DEF CreateRule
<1>2. r \notin rules
  <2>1. r \in Nat
    BY BoundsAssumption DEF Rules
  <2> QED
    BY <2>1 DEF CreateRule
<1>3. K \subseteq Key /\ \A k \in Key \ K : k \in Live' <=> k \in Live
  BY <1>1, <1>2 DEF Live
<1>4. \A k \in Key \ K : Untouched(k) /\ Uncounted(k)
  <2>1. \A k \in Key \ K : k \in Live => k[1] # r
    BY <1>2 DEF Live
  <2> QED
    BY <1>1, <1>3, <2>1, RowsRest DEF Uncounted
<1>5. \A k \in K : Phase(k) = "void" /\ Phase(k)' = "open"
  <2> SUFFICES ASSUME NEW k \in K PROVE Phase(k) = "void" /\ Phase(k)' = "open"
    OBVIOUS
  <2>1. k \in Key /\ k \in Live' /\ k \notin Live
    BY <1>2, <1>3 DEF Live
  <2>2. deliveries'[k] = "none"
    BY <1>1, <2>1, CreatedIsFree
  <2> QED
    BY <2>1, <2>2, PhaseIs, PhaseIsNext DEF PhaseFits
<1>6. Phases' = D!On(K, Phases, "open") /\ \A k \in K : Phases[k] = "void"
  <2>1. \A k \in Key \ K : Phase(k)' = Phase(k)
    BY <1>4, SamePhase
  <2> QED
    BY <1>3, <1>5, <2>1 DEF Phases, D!On
<1>7. Count(sent)' = D!On(K, Count(sent), 0)
  <2>1. \A k \in K : k \in Live' /\ k \in Key /\ sent'[k] = 0
    BY <1>1, <1>3
  <2>2. \A k \in Key \ K : (k \in Live' <=> k \in Live) /\ (k \in Live => sent'[k] = sent[k])
    BY <1>4 DEF Uncounted
  <2> QED
    BY <2>1, <2>2 DEF Count, D!On
<1>8. /\ Count(late)' \in [Key -> Nat]
      /\ \A k \in Key \ K : Count(late)'[k] = Count(late)[k]
  BY <1>1, <1>3 DEF Count, TypeOK
<1>9. Count(abandoned)' = [k \in Key |-> IF k \in K THEN Count(late)'[k] ELSE Count(abandoned)[k]]
  <2>1. \A k \in K : k \in Live' /\ k \in Key /\ abandoned'[k] = late'[k]
    BY <1>1, <1>3
  <2>2. \A k \in Key \ K : (k \in Live' <=> k \in Live) /\ (k \in Live => abandoned'[k] = abandoned[k])
    BY <1>4 DEF Uncounted
  <2> QED
    BY <2>1, <2>2 DEF Count
<1>10. D!Offer(K)
  BY <1>6, <1>7, <1>8, <1>9 DEF D!Offer
<1> QED
  BY <1>3, <1>10 DEF D!Next

LEMMA DeleteMoves ==
  ASSUME TypeOK, HoldInv, HoldInv', NEW r \in Rules, DeleteRule(r)
  PROVE  [D!Next]_(D!vars)
<1> DEFINE K == {k \in Key : k[1] = r}
<1>1. /\ UNCHANGED <<pc, todo, result, late, sent, abandoned, reused>>
      /\ rules' = rules \ {r}
      /\ \A k \in Key \ K : deliveries'[k] = deliveries[k]
  BY DEF DeleteRule
<1>2. /\ \A k \in K : k \notin Live'
      /\ \A k \in Key \ K : k \in Live' <=> k \in Live
  BY <1>1 DEF Live
<1>3. \A k \in Key \ K : Untouched(k)
  BY <1>1, <1>2, QuietHolds DEF Still, Untouched
<1>4. Phases' = D!On(K, Phases, "void")
  <2>1. \A k \in K : Phase(k)' = "void"
    BY <1>2, PhaseIsNext DEF PhaseFits
  <2>2. \A k \in Key \ K : Phase(k)' = Phase(k)
    BY <1>3, SamePhase
  <2> QED
    BY <2>1, <2>2 DEF Phases, D!On
<1>5. /\ Count(sent)' = D!On(K, Count(sent), 0)
      /\ Count(late)' = D!On(K, Count(late), 0)
      /\ Count(abandoned)' = D!On(K, Count(abandoned), 0)
  BY <1>1, <1>2 DEF Count, D!On
<1>6. D!Withdraw(K)
  BY <1>4, <1>5 DEF D!Withdraw
<1> QED
  BY <1>6 DEF D!Next

LEMMA CrashMoves ==
  ASSUME TypeOK, HoldInv, HoldInv', Crash
  PROVE  [D!Next]_(D!vars)
<1> DEFINE K == {k \in Key : Phases[k] \in {"claimed", "taken", "refused"}}
<1>1. /\ UNCHANGED <<rules, deliveries, sent, abandoned, reused>> /\ Live' = Live
      /\ late' = [k \in Key |-> 0]
      /\ \A e \in Evals : \A k : ~Holds(e, k)'
  BY DEF Crash, Live, Holds
<1>2. ASSUME NEW k \in Key PROVE Phase(k)' = IF k \in K THEN "lost" ELSE Phase(k)
  <2>1. deliveries[k] \in {"none", "pending", "ok", "failed"}
    BY DEF TypeOK
  <2>2. k \in K <=> Phase(k) \in {"claimed", "taken", "refused"}
    BY DEF Phases
  <2>3. CASE k \notin Live
    BY <1>1, <2>2, <2>3, PhaseIs, PhaseIsNext DEF PhaseFits
  <2>4. CASE k \in Live /\ deliveries[k] \in {"none", "ok", "failed"}
    BY <1>1, <2>2, <2>4, PhaseIs, PhaseIsNext DEF PhaseFits
  <2>5. CASE k \in Live /\ deliveries[k] = "pending"
    <3>1. Phase(k)' = "lost"
      BY <1>1, <2>5, PhaseIsNext DEF PhaseFits
    <3>2. ASSUME NEW e \in Evals, Holds(e, k) PROVE Phase(k) \in {"claimed", "taken", "refused"}
      BY <2>5, <3>2, PhaseIs DEF PhaseFits, Stage
    <3>3. (\A e \in Evals : ~Holds(e, k)) => Phase(k) = "lost"
      BY <2>5, PhaseIs DEF PhaseFits
    <3> QED
      BY <2>2, <3>1, <3>2, <3>3
  <2> QED
    BY <2>1, <2>3, <2>4, <2>5
<1>3. Phases' = D!On(K, Phases, "lost")
  BY <1>2 DEF Phases, D!On
<1>4. Count(late)' = D!On(Key, Count(late), 0)
  BY <1>1 DEF Count, D!On
<1>5. UNCHANGED <<Count(sent), Count(abandoned)>>
  BY <1>1 DEF Count
<1>6. D!Restart
  BY <1>3, <1>4, <1>5 DEF D!Restart
<1> QED
  BY <1>6 DEF D!Next

LEMMA DeliveryStep ==
  ASSUME IInv, IInv', [Next]_vars
  PROVE  [D!Next]_(D!vars)
<1> USE DEF IInv
<1>1. ASSUME NEW e \in Evals, Expire(e) PROVE UNCHANGED <<rules, deliveries, pc, todo, result, late, sent, abandoned, reused>>
  BY <1>1 DEF Expire, history
<1>2. ASSUME NEW r \in Rules, ToggleRule(r)
      PROVE  UNCHANGED <<rules, deliveries, pc, todo, result, late, sent, abandoned, reused>>
  BY <1>2 DEF ToggleRule, history
<1>3. CASE UNCHANGED vars
  BY <1>3, RowsRest, Stutters DEF vars, history, Uncounted, Live
<1>4. ASSUME UNCHANGED <<rules, deliveries, pc, todo, result, late, sent, abandoned, reused>>
      PROVE  UNCHANGED D!vars
  BY <1>4, RowsRest, Stutters DEF Uncounted, Live
<1> QED
  BY <1>1, <1>2, <1>3, <1>4, StartMoves, ClaimMoves, SucceedsMoves, FailsMoves, AbandonedMoves,
     RecordMoves, StraggleMoves, CreateMoves, DeleteMoves, CrashMoves DEF Next, Step

LEMMA DeliveryInit == Init => D!Init
<1> SUFFICES ASSUME Init PROVE D!Init
  OBVIOUS
<1>1. Live = {}
  BY DEF Init, Live
<1> QED
  BY <1>1 DEF D!Init, Phases, Phase, Count

\* deliverOnce, Evaluate: however evaluations overlap, fail, are given up on, lose their
\* updates or die, and rules come and go, each delivery lives the life of Delivery.
THEOREM DeliversAsPromised == Spec => ImplementsDelivery
<1>1. IInv /\ IInv' /\ [Next]_vars => [D!Next]_(D!vars)
  BY DeliveryStep
<1> QED
  BY <1>1, DeliveryInit, InvHolds, PTL DEF Spec, ImplementsDelivery, D!Spec
=============================================================================
