------------------------------- MODULE Notify -------------------------------
(***************************************************************************)
(* Manager.Evaluate, run in a goroutine of its own after every applied     *)
(* scan, and the deduplication of deliveries through the table             *)
(* notification_deliveries: evaluations overlap, channels fail or answer   *)
(* after the deadline, rules are deleted meanwhile, the process dies.      *)
(***************************************************************************)
EXTENDS Naturals

CONSTANTS
  Evals,       \* goroutines that run Evaluate
  MaxRule,     \* bound on rule ids
  ExpiryRules, \* the rule ids whose kind is "expiry"; the others are "change"
  Due,         \* expiry items within the threshold of those rules are 1..Due
  Channels,    \* each rule has destinations 1..Channels
  MaxRuns,     \* bound on scans that file a change entry
  MaxCreated,  \* bound on rules created
  MaxLate,     \* bound on the sends of one message given up on
  MaxFaults    \* bound on crashes and lost updates together

ASSUME BoundsAssumption ==
  /\ {MaxRule, Due, Channels, MaxRuns, MaxCreated, MaxLate, MaxFaults} \subseteq Nat
  /\ ExpiryRules \subseteq 1..MaxRule

Rules == 1..MaxRule
\* A rule, what it reports (an expiry item; a scan run's change), a destination.
\* The entry of dedupe_key and rule_id.
Key == {k \in Rules \X (1..(Due + MaxRuns)) \X (1..Channels) :
          k[1] \in ExpiryRules <=> k[2] <= Due}

VARIABLES
  rules,      \* ids of the rules
  enabled,    \* those that are enabled
  deliveries, \* key -> "none" (no row), "pending", "ok" (error = ''), "failed"
  pc,         \* stage of each evaluation
  todo,       \* its keys still to deliver
  result,     \* what its Send returned, "none" before and after
  cancelled,  \* its 30 s context has expired
  late,       \* sends that went on after their evaluation gave up on them
  runs,       \* scans that filed a change entry so far
  sent,       \* history: how often a destination took a message
  abandoned,  \* history: sends given up on
  orphans,    \* history: keys whose outcome was not recorded
  reused,     \* history: rule ids handed out again during an evaluation
  created,    \* history: rules created
  faults      \* history: crashes and lost updates

history == <<sent, abandoned, orphans, reused, created, faults>>
vars == <<rules, enabled, deliveries, pc, todo, result, cancelled, late, runs, history>>

Before(j, k) ==
  \/ j[1] < k[1]
  \/ j[1] = k[1] /\ j[2] < k[2]
  \/ j[1] = k[1] /\ j[2] = k[2] /\ j[3] < k[3]

\* The deliveries of an evaluation.  No run: none of the change entries is new.
Worklist(run) == {k \in Key : k[1] \in enabled /\ (k[2] <= Due \/ k[2] = Due + run)}

\* The one it is at, in the order of its loops.
AtHand(e) == {k \in todo[e] : \A j \in todo[e] \ {k} : Before(k, j)}

Pending == {k \in Key : deliveries[k] = "pending"}

\* The evaluation has claimed the key and not yet recorded its outcome.
Holds(e, k) == pc[e] \in {"send", "record"} /\ k \in AtHand(e)

-----------------------------------------------------------------------------

Init ==
  /\ rules = {}
  /\ enabled = {}
  /\ deliveries = [k \in Key |-> "none"]
  /\ pc = [e \in Evals |-> "idle"]
  /\ todo = [e \in Evals |-> {}]
  /\ result = [e \in Evals |-> "none"]
  /\ cancelled = [e \in Evals |-> FALSE]
  /\ late = [k \in Key |-> 0]
  /\ runs = 0
  /\ sent = [k \in Key |-> 0]
  /\ abandoned = [k \in Key |-> 0]
  /\ orphans = {}
  /\ reused = {}
  /\ created = 0
  /\ faults = 0

\* The evaluation goes on with the given keys, or ends, and its context with it.
Continue(e, keys) ==
  /\ todo' = [todo EXCEPT ![e] = keys]
  /\ pc' = [pc EXCEPT ![e] = IF keys = {} THEN "idle" ELSE "claim"]
  /\ cancelled' = [cancelled EXCEPT ![e] = @ /\ keys # {}]
  /\ result' = [result EXCEPT ![e] = "none"]

\* What is left after k.  An error ends the rule it occurred in; the rules after it
\* are still evaluated.
Others(e, k) == todo[e] \ {k}
OtherRules(e, k) == {j \in todo[e] : j[1] # k[1]}

\* Apply has committed a scan run, with change entries or without: Evaluate reads
\* the enabled rules.
Start(e, changes) ==
  /\ pc[e] = "idle"
  /\ changes => runs < MaxRuns
  /\ runs' = IF changes THEN runs + 1 ELSE runs
  /\ Continue(e, Worklist(IF changes THEN runs + 1 ELSE 0))
  /\ UNCHANGED <<rules, enabled, deliveries, late, history>>

\* The rows the upsert leaves alone: delivered, or being delivered.
\* Seeded faults: no guard against an overlapping evaluation; delivering again;
\* never trying again.
TakenUnlessPending(k) == deliveries[k] = "ok"
TakenUnlessOk(k) == deliveries[k] = "pending"
TakenOnceTried(k) == deliveries[k] # "none"
Taken(k) == deliveries[k] \in {"ok", "pending"}

\* deliverOnce, the upsert.  It fails when the context is over or the rule is
\* gone (foreign key); it changes no row when another delivery is pending or done.
Claim(e) ==
  /\ pc[e] = "claim"
  /\ \E k \in AtHand(e) :
       IF cancelled[e] \/ k[1] \notin rules
         THEN Continue(e, OtherRules(e, k)) /\ UNCHANGED deliveries
       ELSE IF Taken(k)
         THEN Continue(e, Others(e, k)) /\ UNCHANGED deliveries
       ELSE /\ deliveries' = [deliveries EXCEPT ![k] = "pending"]
            /\ pc' = [pc EXCEPT ![e] = "send"]
            /\ UNCHANGED <<todo, result, cancelled>>
  /\ UNCHANGED <<rules, enabled, late, runs, history>>

Answered(e, outcome) ==
  /\ pc[e] = "send"
  /\ result' = [result EXCEPT ![e] = outcome]
  /\ pc' = [pc EXCEPT ![e] = "record"]
  /\ UNCHANGED <<rules, enabled, deliveries, todo, cancelled, runs, orphans, reused, created, faults>>

\* The destination takes the message.
SendSucceeds(e) ==
  /\ Answered(e, "ok")
  /\ \E k \in AtHand(e) : sent' = [sent EXCEPT ![k] = @ + 1]
  /\ UNCHANGED <<late, abandoned>>

SendFails(e) ==
  /\ Answered(e, "failed")
  /\ UNCHANGED <<late, sent, abandoned>>

\* The context ends first: Send returns, its goroutine goes on.
SendAbandoned(e) ==
  /\ cancelled[e]
  /\ Answered(e, "failed")
  /\ \E k \in AtHand(e) :
       /\ abandoned[k] < MaxLate
       /\ abandoned' = [abandoned EXCEPT ![k] = @ + 1]
       /\ late' = [late EXCEPT ![k] = @ + 1]
  /\ UNCHANGED sent

\* What the row says after the update, which finds none when the rule was deleted.
\* Seeded fault: a discarded send error.
RecordedAsSent(e, k) == IF deliveries[k] = "none" THEN "none" ELSE "ok"
Recorded(e, k) == IF deliveries[k] = "none" THEN "none" ELSE result[e]

After(e, k) == IF result[e] = "ok" THEN Others(e, k) ELSE OtherRules(e, k)

\* deliverOnce, the update, which outlives the context.
Record(e) ==
  /\ pc[e] = "record"
  /\ \E k \in AtHand(e) :
       /\ deliveries' = [deliveries EXCEPT ![k] = Recorded(e, k)]
       /\ Continue(e, After(e, k))
  /\ UNCHANGED <<rules, enabled, late, runs, history>>

\* Its error is discarded: the row stays pending.
RecordLost(e) ==
  /\ faults < MaxFaults
  /\ pc[e] = "record"
  /\ faults' = faults + 1
  /\ orphans' = orphans \cup (AtHand(e) \cap Pending)
  /\ \E k \in AtHand(e) : Continue(e, After(e, k))
  /\ UNCHANGED <<rules, enabled, deliveries, late, runs, sent, abandoned,
                 reused, created>>

Expire(e) ==
  /\ pc[e] # "idle"
  /\ ~cancelled[e]
  /\ cancelled' = [cancelled EXCEPT ![e] = TRUE]
  /\ UNCHANGED <<rules, enabled, deliveries, pc, todo, result, late, runs, history>>

\* A send that was given up on ends, and may have reached its destination.
LateSend(k) ==
  /\ late[k] > 0
  /\ late' = [late EXCEPT ![k] = @ - 1]
  /\ sent' \in {sent, [sent EXCEPT ![k] = @ + 1]}
  /\ UNCHANGED <<rules, enabled, deliveries, pc, todo, result, cancelled, runs, abandoned,
                 orphans, reused, created, faults>>

\* Rules: the id of a deleted rule is handed out again when it was the largest.
CreateRule(r) ==
  /\ created < MaxCreated
  /\ r = 1 \/ r - 1 \in rules
  /\ \A q \in rules : q < r
  /\ created' = created + 1
  /\ rules' = rules \cup {r}
  /\ enabled' \in {enabled, enabled \cup {r}}
  /\ reused' = IF \E e \in Evals : pc[e] # "idle" /\ \E k \in todo[e] : k[1] = r
                 THEN reused \cup {r} ELSE reused
  /\ sent' = [k \in Key |-> IF k[1] = r THEN 0 ELSE sent[k]]
  /\ abandoned' = [k \in Key |-> IF k[1] = r THEN late[k] ELSE abandoned[k]]
  /\ UNCHANGED <<deliveries, pc, todo, result, cancelled, late, runs, orphans, faults>>

\* An update that turns the rule on or off: evaluations under way go on with it.
ToggleRule(r) ==
  /\ r \in rules
  /\ enabled' = IF r \in enabled THEN enabled \ {r} ELSE enabled \cup {r}
  /\ UNCHANGED <<rules, deliveries, pc, todo, result, cancelled, late, runs, history>>

\* The rows of its deliveries go with it.
DeleteRule(r) ==
  /\ r \in rules
  /\ rules' = rules \ {r}
  /\ enabled' = enabled \ {r}
  /\ deliveries' = [k \in Key |-> IF k[1] = r THEN "none" ELSE deliveries[k]]
  /\ orphans' = {k \in orphans : k[1] # r}
  /\ UNCHANGED <<pc, todo, result, cancelled, late, runs, sent, abandoned, reused, created,
                 faults>>

Crash ==
  /\ faults < MaxFaults
  /\ faults' = faults + 1
  /\ orphans' = orphans \cup {k \in Pending : \E e \in Evals : Holds(e, k)}
  /\ pc' = [e \in Evals |-> "idle"]
  /\ todo' = [e \in Evals |-> {}]
  /\ result' = [e \in Evals |-> "none"]
  /\ cancelled' = [e \in Evals |-> FALSE]
  /\ late' = [k \in Key |-> 0]
  /\ UNCHANGED <<rules, enabled, deliveries, runs, sent, abandoned, reused, created>>

-----------------------------------------------------------------------------

InTime(e, k) == pc[e] = "claim" /\ k \in AtHand(e) /\ ~cancelled[e]

Step(e) == Claim(e) \/ SendSucceeds(e) \/ SendFails(e) \/ SendAbandoned(e) \/ Record(e)

Next ==
  \/ \E e \in Evals : Step(e) \/ RecordLost(e) \/ Expire(e)
  \/ \E e \in Evals, changes \in BOOLEAN : Start(e, changes)
  \/ \E k \in Key : LateSend(k)
  \/ \E r \in Rules : CreateRule(r) \/ ToggleRule(r) \/ DeleteRule(r)
  \/ Crash

\* Sends return by their deadline, statements return, scans keep being applied; a
\* delivery that is reached again and again is at some point reached in time, and a
\* destination that is tried again and again takes the message at some point.
Fairness ==
  /\ \A e \in Evals : WF_vars(Step(e))
  /\ WF_vars(\E e \in Evals : Start(e, FALSE))
  /\ \A k \in Key :
       /\ SF_vars(\E e \in Evals : InTime(e, k) /\ Claim(e))
       /\ SF_vars(\E e \in Evals : Holds(e, k) /\ SendSucceeds(e))

Spec == Init /\ [][Next]_vars /\ Fairness

-----------------------------------------------------------------------------
\* Properties

\* Every variable keeps the shape the code gives it.
TypeOK ==
  /\ enabled \subseteq rules /\ rules \subseteq Rules
  /\ deliveries \in [Key -> {"none", "pending", "ok", "failed"}]
  /\ pc \in [Evals -> {"idle", "claim", "send", "record"}]
  /\ todo \in [Evals -> SUBSET Key]
  /\ \A e \in Evals : pc[e] = "idle" <=> todo[e] = {}
  /\ result \in [Evals -> {"none", "ok", "failed"}]
  /\ cancelled \in [Evals -> BOOLEAN]
  /\ {late, sent, abandoned} \subseteq [Key -> Nat]
  /\ runs \in 0..MaxRuns
  /\ orphans \subseteq Key /\ reused \subseteq Rules
  /\ created \in 0..MaxCreated /\ faults \in 0..MaxFaults

\* Two overlapping evaluations never deliver the same thing to one destination at
\* once, unless the rule's id changed hands while one of them was at it.
OneSender ==
  \A d, e \in Evals, k \in Key :
    Holds(d, k) /\ Holds(e, k) /\ k[1] \in rules /\ k[1] \notin reused => d = e

\* A row is pending exactly while an evaluation works on it, but for the rows a
\* crash or a lost update left behind, which nothing ever retries.
PendingIsHeld ==
  \A k \in Key : k[1] \in rules \ reused =>
    (deliveries[k] = "pending" <=> (k \in orphans \/ \E e \in Evals : Holds(e, k)))

\* deliverOnce: a claimed delivery is somebody's, and only one evaluation's.
ClaimsAreHeld == TypeOK /\ OneSender /\ PendingIsHeld

\* What is recorded as delivered was delivered, and each message reaches a
\* destination once; a duplicate needs a send that was given up on.
Once ==
  \A k \in Key : k[1] \in rules \ reused =>
    /\ deliveries[k] = "ok" => sent[k] >= 1
    /\ sent[k] <= 1 + abandoned[k]

\* The life of each delivery as its rule and its destination see it.  Nothing is promised
\* of a rule whose id was handed out again while an evaluation went on with it.
Live == {k \in Key : k[1] \in rules \ reused}

\* The destination answered that it took the message, and this is or was to be recorded.
Told(e, k) == Holds(e, k) /\ pc[e] = "record" /\ result[e] = "ok"

PendingPhase(k) ==
  CASE \E e \in Evals : Holds(e, k) /\ pc[e] = "send" -> "claimed"
    [] \E e \in Evals : Told(e, k) -> "taken"
    [] \E e \in Evals : Holds(e, k) /\ pc[e] = "record" /\ ~Told(e, k) -> "refused"
    [] OTHER -> "lost"

Phase(k) ==
  CASE k \notin Live -> "void"
    [] k \in Live /\ deliveries[k] = "pending" -> PendingPhase(k)
    [] k \in Live /\ deliveries[k] = "ok" -> "delivered"
    [] k \in Live /\ deliveries[k] \in {"none", "failed"} -> "open"

Phases == [k \in Key |-> Phase(k)]
Count(n) == [k \in Key |-> IF k \in Live THEN n[k] ELSE 0]

D == INSTANCE Delivery WITH
  Keys <- Key, phase <- Phases,
  copies <- Count(sent), stray <- Count(late), given <- Count(abandoned)

\* deliverOnce: what is claimed is in one hand, goes to its destination once, is then settled
\* by what came of it, and is final when it succeeded, whatever evaluations overlap.
ImplementsDelivery == D!Spec

\* A failed expiry alert is tried again by later evaluations until it arrives:
\* neither overlapping evaluations nor deadlines lose it.
ExpiryArrives ==
  \A k \in Key : k[1] \in ExpiryRules =>
    []( k[1] \in enabled =>
        <>(deliveries[k] = "ok" \/ k[1] \notin enabled \/ k \in orphans \/ k[1] \in reused))
=============================================================================
