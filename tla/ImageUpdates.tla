---------------------------- MODULE ImageUpdates ----------------------------
(***************************************************************************)
(* applyImageUpdates: the registry answers a scan brings back, the row the *)
(* inventory keeps per image reference, and the change-feed entries filed  *)
(* when a tag moved away from what containers run.  Registry sources scan  *)
(* at their own pace, so an answer may be out of date when it is applied.  *)
(***************************************************************************)
EXTENDS Naturals, Sequences

CONSTANTS
  Sources,     \* connectors of kind registry
  Refs,        \* image references
  Digests,     \* what a tag can point at
  NoDigest,    \* no registry digest; the empty string of the columns
  None,        \* no row
  MaxPublished \* bound on the times a tag moves

\* "unresolved" stands for the lookups unknown and pinned, which store no digest.
Row == [owner : Sources, lookup : {"resolved", "unresolved"},
        remote : Digests \cup {NoDigest}, notified : Digests \cup {NoDigest},
        retired : BOOLEAN]
\* What a registry can say of a reference: one ImageUpdate of a snapshot.
Finding == [lookup : {"resolved"}, remote : Digests, transient : {FALSE}]
           \cup [lookup : {"unresolved"}, remote : {NoDigest}, transient : BOOLEAN]
Snapshot == UNION {[refs -> Finding] : refs \in SUBSET Refs}

VARIABLES
  published, \* registry: the digest each tag points at
  running,   \* inventory: the digests of the containers that name a reference,
             \* NoDigest for one whose image has none
  sources,   \* the registry connectors there are
  answers,   \* source -> what the scan under way was told; None between scans
  row,       \* table image_updates
  filed,     \* history: digests of the entries filed per row, oldest first
  covered,   \* history: the references of the last applied scan per source
  moves      \* history: how often a tag moved

vars == <<published, running, sources, answers, row, filed, covered, moves>>

Scanning(s) == answers[s] # None

\* A container whose image has a registry digest other than the tag's.
Behind(r, d) == running[r] \ {NoDigest, d} # {}

-----------------------------------------------------------------------------

Init ==
  /\ published \in [Refs -> Digests]
  /\ running = [r \in Refs |-> {}]
  /\ sources = {}
  /\ answers = [s \in Sources |-> None]
  /\ row = [r \in Refs |-> None]
  /\ filed = [r \in Refs |-> <<>>]
  /\ covered = [s \in Sources |-> {}]
  /\ moves = 0

\* Someone pushes another build under the tag.
Publish(r, d) ==
  /\ moves < MaxPublished
  /\ d # published[r]
  /\ published' = [published EXCEPT ![r] = d]
  /\ moves' = moves + 1
  /\ UNCHANGED <<running, sources, answers, row, filed, covered>>

\* A Docker scan finds other containers.
Deploy(r, containers) ==
  /\ containers # running[r]
  /\ running' = [running EXCEPT ![r] = containers]
  /\ UNCHANGED <<published, sources, answers, row, filed, covered, moves>>

AddSource(s) ==
  /\ s \notin sources
  /\ sources' = sources \cup {s}
  /\ covered' = [covered EXCEPT ![s] = {}]
  /\ UNCHANGED <<published, running, answers, row, filed, moves>>

\* Its rows go with it; the scan under way finds its connector gone.
DeleteSource(s) ==
  LET orphaned == {r \in Refs : row[r] # None /\ row[r].owner = s} IN
  /\ s \in sources
  /\ sources' = sources \ {s}
  /\ answers' = [answers EXCEPT ![s] = None]
  /\ row' = [r \in Refs |-> IF r \in orphaned THEN None ELSE row[r]]
  /\ filed' = [r \in Refs |-> IF r \in orphaned THEN <<>> ELSE filed[r]]
  /\ UNCHANGED <<published, running, covered, moves>>

\* What it says of one now.
Answers(r) == {a \in Finding : a.lookup = "resolved" => a.remote = published[r]}

\* addImageTargets and the connector's Scan: references some container names, less
\* those the source is configured to skip.
Lookup(s, refs) ==
  /\ s \in sources /\ ~Scanning(s)
  /\ \A r \in refs : running[r] # {}
  /\ \E found \in [refs -> Finding] :
       /\ \A r \in refs : found[r] \in Answers(r)
       /\ answers' = [answers EXCEPT ![s] = found]
  /\ UNCHANGED <<published, running, sources, row, filed, covered, moves>>

\* An outage or a rate limit says nothing new about a resolved tag.
\* Seeded fault: flapping to unknown.
KeepsNever(old, new) == FALSE
Keeps(old, new) ==
  /\ old # None /\ old.lookup = "resolved"
  /\ new.lookup = "unresolved" /\ new.transient

\* The row after an answer.
Refresh(s, old, new) ==
  LET answer == IF Keeps(old, new) THEN old ELSE new
  IN [owner |-> s, lookup |-> answer.lookup, remote |-> answer.remote,
      notified |-> IF old = None THEN NoDigest ELSE old.notified, retired |-> FALSE]

\* An entry is due for a digest that was not reported last and that a container is
\* behind.
\* Seeded fault: an entry for every scan.
NewsEveryScan(r, now) == now.lookup = "resolved" /\ Behind(r, now.remote)
News(r, now) ==
  /\ now.lookup = "resolved"
  /\ now.remote # now.notified
  /\ Behind(r, now.remote)

\* The rows a scan retires: the source's own, for references it no longer covers.
Stale(s, r, refs) == r \notin refs /\ row[r] # None /\ row[r].owner = s

\* One transaction.
Apply(s) ==
  /\ s \in sources /\ Scanning(s)
  /\ LET found == answers[s]
         refs == DOMAIN found
         now == [r \in refs |-> Refresh(s, row[r], found[r])]
     IN /\ row' = [r \in Refs |->
                     IF r \in refs THEN
                       IF News(r, now[r]) THEN [now[r] EXCEPT !.notified = now[r].remote]
                       ELSE now[r]
                     ELSE IF Stale(s, r, refs) THEN [row[r] EXCEPT !.retired = TRUE]
                     ELSE row[r]]
        /\ filed' = [r \in Refs |->
                       IF r \in refs /\ News(r, now[r]) THEN Append(filed[r], now[r].remote)
                       ELSE filed[r]]
        /\ covered' = [covered EXCEPT ![s] = refs]
  /\ answers' = [answers EXCEPT ![s] = None]
  /\ UNCHANGED <<published, running, sources, moves>>

\* The scan fails, or its run is not applied.
Abandon(s) ==
  /\ Scanning(s)
  /\ answers' = [answers EXCEPT ![s] = None]
  /\ UNCHANGED <<published, running, sources, row, filed, covered, moves>>

\* purgeRetiredImageUpdates: retirement is older than the retention.
Purge(r) ==
  /\ row[r] # None /\ row[r].retired
  /\ row' = [row EXCEPT ![r] = None]
  /\ filed' = [filed EXCEPT ![r] = <<>>]
  /\ UNCHANGED <<published, running, sources, answers, covered, moves>>

-----------------------------------------------------------------------------

Next ==
  \/ \E r \in Refs, d \in Digests : Publish(r, d)
  \/ \E r \in Refs, containers \in SUBSET (Digests \cup {NoDigest}) : Deploy(r, containers)
  \/ \E s \in Sources : AddSource(s) \/ DeleteSource(s) \/ Apply(s) \/ Abandon(s)
  \/ \E s \in Sources, refs \in SUBSET Refs : Lookup(s, refs)
  \/ \E r \in Refs : Purge(r)

Spec == Init /\ [][Next]_vars

-----------------------------------------------------------------------------
\* Properties

\* Every variable keeps the shape the code gives it.
TypeOK ==
  /\ published \in [Refs -> Digests]
  /\ running \in [Refs -> SUBSET (Digests \cup {NoDigest})]
  /\ sources \subseteq Sources
  /\ answers \in [Sources -> Snapshot \cup {None}]
  /\ row \in [Refs -> Row \cup {None}]
  /\ \A r \in Refs : row[r] # None =>
       /\ row[r].owner \in sources
       /\ row[r].lookup = "resolved" <=> row[r].remote # NoDigest
  /\ filed \in [Refs -> Seq(Digests)]
  /\ covered \in [Sources -> SUBSET Refs]
  /\ moves \in 0..MaxPublished

\* Two entries in a row for one reference never report the same digest, whatever
\* happens in between: outages, containers that go and come back, skipped scans,
\* another source taking the row over (docs/CONNECTORS.md, "Change feed").
NoEcho ==
  \A r \in Refs : \A i \in 1..(Len(filed[r]) - 1) : filed[r][i] # filed[r][i + 1]

\* A row shows a status as long as the source that answered last still covers its
\* reference, and no longer.
OwnerCovers ==
  \A r \in Refs : row[r] # None => (~row[r].retired <=> r \in covered[row[r].owner])

\* A scan never leaves a container behind the digest it stored without the newest
\* entry of the reference saying so.
Announced ==
  [][\A s \in Sources, r \in Refs :
       /\ Scanning(s) /\ Apply(s)
       /\ r \in DOMAIN answers[s]
       /\ row'[r].lookup = "resolved" /\ Behind(r, row'[r].remote)
       => filed'[r] # <<>> /\ filed'[r][Len(filed'[r])] = row'[r].remote]_vars

\* Only a definite answer replaces a resolved one: an outage or a rate limit does
\* not, nor does retirement.
OutageKeepsAnswer ==
  [][\A r \in Refs :
       /\ row[r] # None /\ row[r].lookup = "resolved"
       /\ row'[r] # None /\ row'[r].remote # row[r].remote
       => \E s \in Sources : /\ Scanning(s) /\ r \in DOMAIN answers[s]
                             /\ ~answers[s][r].transient]_vars

\* applyImageUpdates: the feed tells of each move once, and a row is shown as long as the
\* source that answered last covers it.
NewsIsToldOnce == TypeOK /\ NoEcho /\ OwnerCovers

\* applyImageUpdates: nothing is shown as behind that the feed did not announce, and what
\* was known is forgotten only for something definite.
NothingKnownIsLost == Announced /\ OutageKeepsAnswer

\* "The same digest never files a second entry, however many scans or containers
\* see it" (docs/CONNECTORS.md:402), as long as the row is kept.
SameDigestOnce ==
  \A r \in Refs : \A i, j \in DOMAIN filed[r] : filed[r][i] = filed[r][j] => i = j
=============================================================================
