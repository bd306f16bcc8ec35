---------------------------- MODULE RegistryScan ----------------------------
(***************************************************************************)
(* One scan of the registry connector: workers look tags up side by side   *)
(* and share what the scan learned of the hosts: which of them answered,   *)
(* failed, are down or limit the rate, and the anonymous tokens.  A        *)
(* critical section under the mutex of the session is one step, and so is  *)
(* a request from its departure to what becomes of it.                     *)
(***************************************************************************)
EXTENDS Naturals, Sequences, FiniteSets, Functions

CONSTANTS
  Workers,     \* concurrency of them (4)
  Tags,        \* [registry, repo, name]: the distinct tags looked up; name is a number, in their order
  Registries,  \* sequence of hosts, in their order
  TokenHost,   \* registry -> the host of its token service
  MirrorHost,  \* registry -> where it may redirect a manifest
  downAfter,
  Spare,       \* requests beyond four for every tag (8)
  Days         \* the days a scan may take place on

ASSUME ConfigAssumption ==
  /\ IsFiniteSet(Workers) /\ IsFiniteSet(Tags) /\ Tags # {}
  /\ \A t \in Tags : t.registry \in Range(Registries) /\ t.name \in Nat
  /\ \A t, u \in Tags : t.registry = u.registry /\ t.name = u.name => t = u
  /\ Registries \in Seq(Range(Registries)) /\ Registries # <<>> /\ IsInjective(Registries)
  /\ DOMAIN TokenHost = Range(Registries) /\ DOMAIN MirrorHost = Range(Registries)
  /\ {downAfter, Spare} \cup Days \subseteq Nat
  /\ downAfter > 0

Hosts == Range(Registries) \cup Range(TokenHost) \cup Range(MirrorHost)
Scopes == {[host |-> TokenHost[t.registry], repo |-> t.repo] : t \in Tags}

VARIABLES
  day,         \* of the scan
  context,     \* of the scan: "running", "deadline" or "cancelled"
  feed,        \* tags not handed to a worker yet
  worker,      \* per worker: [at, sent, tag, target]: the request it is about to send, or waits for
  answers,     \* tag -> "none", "digest", "unknown" or "transient"
  requests,    \* sent so far
  tokens,      \* scope -> "none", "fetching", "token", "unknown" or "transient"
  limited,     \* registries that answered 429
  answered,    \* hosts that answered
  netFailures, \* host -> failures while it had not answered
  down,        \* hosts that are not contacted again
  result,      \* "none" while the scan goes on, then "cancelled", "unreachable" or "snapshot"
  silence,     \* history: host -> requests lost on it before it answered anything
  fetches,     \* history: scope -> token fetches
  overBudget   \* history: a lookup was denied a request

learned == <<limited, answered, netFailures, down>>
history == <<silence, fetches, overBudget>>
vars == <<day, context, feed, worker, answers, requests, tokens, learned, result, history>>

Idle == [at |-> "idle", sent |-> FALSE, tag |-> CHOOSE t \in Tags : TRUE, target |-> Registries[1]]
Asking == {"head", "token", "auth", "get"}

TypeOK ==
  /\ day \in Days
  /\ context \in {"running", "deadline", "cancelled"}
  /\ feed \in Seq(Tags)
  /\ worker \in [Workers -> [at : {"idle", "challenged", "wait"} \cup Asking, sent : BOOLEAN,
                             tag : Tags, target : Hosts]]
  /\ answers \in [Tags -> {"none", "digest", "unknown", "transient"}]
  /\ requests \in Nat
  /\ tokens \in [Scopes -> {"none", "fetching", "token", "unknown", "transient"}]
  /\ limited \subseteq Range(Registries)
  /\ answered \cup down \subseteq Hosts
  /\ netFailures \in [Hosts -> Nat]
  /\ result \in {"none", "cancelled", "unreachable", "snapshot"}

-----------------------------------------------------------------------------
\* The order lookups start in.

Fellows(t) == {u \in Tags : u.registry = t.registry}

\* The place of a tag in the list of its registry, which starts further on every day.
Turn(t, d) ==
  LET n == Cardinality(Fellows(t))
      place == Cardinality({u \in Fellows(t) : u.name < t.name})
  IN  (place + (n - (d % n))) % n

\* Every registry's first, then every registry's second, and so on.
Before(t, u, d) ==
  \/ Turn(t, d) < Turn(u, d)
  \/ /\ Turn(t, d) = Turn(u, d)
     /\ \E i, j \in DOMAIN Registries :
          Registries[i] = t.registry /\ Registries[j] = u.registry /\ i < j

\* The one order that is sorted so.
feedOrder(d) ==
  {f \in [1..Cardinality(Tags) -> Tags] : \A i, j \in DOMAIN f : i < j => Before(f[i], f[j], d)}

Init ==
  /\ day \in Days
  /\ context = "running"
  /\ feed \in feedOrder(day)
  /\ worker = [w \in Workers |-> Idle]
  /\ answers = [t \in Tags |-> "none"]
  /\ requests = 0
  /\ tokens = [s \in Scopes |-> "none"]
  /\ limited = {}
  /\ answered = {}
  /\ netFailures = [h \in Hosts |-> 0]
  /\ down = {}
  /\ result = "none"
  /\ silence = [h \in Hosts |-> 0]
  /\ fetches = [s \in Scopes |-> 0]
  /\ overBudget = FALSE

-----------------------------------------------------------------------------
\* What the scan learns of its hosts.

markAnswered(h) ==
  /\ answered' = answered \cup {h}
  /\ netFailures' = [netFailures EXCEPT ![h] = 0]
  /\ down' = down \ {h}
  /\ UNCHANGED <<limited, history>>

\* Seeded fault: a host that answered counts like any other.
recordEveryFailure(h) ==
  /\ netFailures' = [netFailures EXCEPT ![h] = @ + 1]
  /\ down' = IF netFailures[h] + 1 >= downAfter THEN down \cup {h} ELSE down
  /\ silence' = [silence EXCEPT ![h] = IF h \in answered THEN @ ELSE @ + 1]
  /\ UNCHANGED <<limited, answered, fetches, overBudget>>
recordFailure(h) ==
  /\ IF h \in answered THEN UNCHANGED <<netFailures, down, silence>>
     ELSE /\ netFailures' = [netFailures EXCEPT ![h] = @ + 1]
          /\ down' = IF netFailures[h] + 1 >= downAfter THEN down \cup {h} ELSE down
          /\ silence' = [silence EXCEPT ![h] = @ + 1]
  /\ UNCHANGED <<limited, answered, fetches, overBudget>>

\* The answer comes with a 429: the registry of the tag is limited, whoever said it.
markLimited(h, t) == limited' = limited \cup {t.registry}

NothingLearned == UNCHANGED <<learned, history>>

-----------------------------------------------------------------------------
\* The steps of a worker.

Scope(t) == [host |-> TokenHost[t.registry], repo |-> t.repo]
Go(w, at, target) == worker' = [worker EXCEPT ![w] = [@ EXCEPT !.at = at, !.target = target, !.sent = FALSE]]
Host(w) == IF worker[w].at = "token" THEN TokenHost[worker[w].tag.registry] ELSE worker[w].target
Free(w) == worker' = [worker EXCEPT ![w] = Idle]
Done(w, out) == Free(w) /\ answers' = [answers EXCEPT ![worker[w].tag] = out]

\* lookup ends here, or it was the fetch of a token, which ends for those who wait, too.
\* Seeded fault: only a token is passed on.
EndOnToken(w, out) ==
  /\ Done(w, out)
  /\ UNCHANGED tokens
End(w, out) ==
  /\ Done(w, out)
  /\ tokens' = IF worker[w].at = "token" THEN [tokens EXCEPT ![Scope(worker[w].tag)] = out] ELSE tokens

Take(w) ==
  /\ worker[w] = Idle
  /\ feed # <<>>
  /\ feed' = Tail(feed)
  /\ LET t == Head(feed) IN
     IF t.registry \in limited
     THEN answers' = [answers EXCEPT ![t] = "transient"] /\ UNCHANGED worker
     ELSE /\ worker' = [worker EXCEPT ![w] = [at |-> "head", sent |-> FALSE, tag |-> t, target |-> t.registry]]
          /\ UNCHANGED answers
  /\ NothingLearned
  /\ UNCHANGED <<day, context, requests, tokens, result>>

maxRequests == 4 * Cardinality(Tags) + Spare

\* do, up to the departure of the request.
IsDown(h) == h \in down

Send(w) ==
  /\ worker[w].at \in Asking
  /\ ~worker[w].sent
  /\ IF IsDown(Host(w))
     THEN End(w, "transient") /\ UNCHANGED <<requests, overBudget>>
     ELSE /\ requests' = requests + 1
          /\ IF requests + 1 > maxRequests
             THEN End(w, "transient") /\ overBudget' = TRUE
             ELSE /\ UNCHANGED overBudget
                  /\ IF context = "running"
                     THEN worker' = [worker EXCEPT ![w].sent = TRUE] /\ UNCHANGED <<answers, tokens>>
                     ELSE End(w, "transient")
  /\ UNCHANGED <<day, context, feed, learned, result, silence, fetches>>

InFlight(w) == worker[w].at \in Asking /\ worker[w].sent

\* Refused, dropped, timed out, no DNS.  What the end of the scan cut short says nothing.
Lost(w) ==
  /\ InFlight(w)
  /\ End(w, "transient")
  /\ IF context = "running" THEN recordFailure(Host(w)) ELSE NothingLearned
  /\ UNCHANGED <<day, context, feed, requests, result>>

\* No HTTP, no valid certificate.
Broken(w) ==
  /\ InFlight(w)
  /\ End(w, "transient")
  /\ NothingLearned
  /\ UNCHANGED <<day, context, feed, requests, result>>

\* Redirected to where there is nothing: the redirect was an answer.
Stranded(w) ==
  /\ InFlight(w)
  /\ End(w, "transient")
  /\ markAnswered(Host(w))
  /\ UNCHANGED <<day, context, feed, requests, result>>

\* classify, of a manifest: no digest, and methods that are not allowed; a challenge; what
\* settles the lookup without a digest; 5xx.
Answer(w, out) ==
  /\ InFlight(w)
  /\ worker[w].at # "token"
  /\ markAnswered(Host(w))
  /\ CASE out = "nodigest" /\ worker[w].at \in {"head", "auth"} ->
            Go(w, "get", worker[w].target) /\ UNCHANGED answers
       [] out = "challenge" /\ worker[w].at = "head" ->
            /\ UNCHANGED answers
            /\ \E target \in {Host(w), MirrorHost[worker[w].tag.registry]} : Go(w, "challenged", target)
       [] OTHER -> Done(w, CASE out = "digest" -> "digest"
                             [] out = "hiccup" -> "transient"
                             [] OTHER -> "unknown")
  /\ UNCHANGED <<day, context, feed, requests, tokens, result>>

TooMany(w) ==
  /\ InFlight(w)
  /\ End(w, "transient")
  /\ answered' = answered \cup {Host(w)}
  /\ netFailures' = [netFailures EXCEPT ![Host(w)] = 0]
  /\ down' = down \ {Host(w)}
  /\ markLimited(Host(w), worker[w].tag)
  /\ UNCHANGED <<day, context, feed, requests, result, history>>

\* token: the first to ask for a scope fetches it.
IsHit(s) == tokens[s] # "none"

AskToken(w) ==
  LET s == Scope(worker[w].tag) IN
  /\ worker[w].at = "challenged"
  /\ IF IsHit(s)
     THEN Go(w, "wait", worker[w].target) /\ UNCHANGED <<tokens, fetches>>
     ELSE /\ tokens' = [tokens EXCEPT ![s] = "fetching"]
          /\ fetches' = [fetches EXCEPT ![s] = @ + 1]
          /\ Go(w, "token", worker[w].target)
  /\ UNCHANGED <<day, context, feed, answers, requests, learned, result, silence, overBudget>>

\* A token; a refusal, or no usable token; 5xx, or what cannot be parsed.
AnswerToken(w, out) ==
  /\ InFlight(w)
  /\ worker[w].at = "token"
  /\ markAnswered(Host(w))
  /\ IF out = "token"
     THEN /\ tokens' = [tokens EXCEPT ![Scope(worker[w].tag)] = "token"]
          /\ Go(w, "auth", worker[w].target)
          /\ UNCHANGED answers
     ELSE End(w, IF out = "hiccup" THEN "transient" ELSE "unknown")
  /\ UNCHANGED <<day, context, feed, requests, result>>

Wait(w) ==
  LET s == Scope(worker[w].tag) IN
  /\ worker[w].at = "wait"
  /\ \/ tokens[s] = "token" /\ Go(w, "auth", worker[w].target) /\ UNCHANGED answers
     \/ tokens[s] \in {"unknown", "transient"} /\ Done(w, tokens[s])
     \/ context # "running" /\ Done(w, "transient")
  /\ NothingLearned
  /\ UNCHANGED <<day, context, feed, requests, tokens, result>>

\* The rest of the scan.
ContextEnds ==
  /\ context = "running"
  /\ result = "none"
  /\ context' \in {"deadline", "cancelled"}
  /\ UNCHANGED <<day, feed, worker, answers, requests, tokens, learned, result, history>>

BreakFeed ==
  /\ context # "running"
  /\ feed # <<>>
  /\ feed' = <<>>
  /\ UNCHANGED <<day, context, worker, answers, requests, tokens, learned, result, history>>

NothingAnswered == answered = {}

Finish ==
  /\ result = "none"
  /\ feed = <<>>
  /\ \A w \in Workers : worker[w] = Idle
  /\ result' = CASE context = "cancelled" -> "cancelled"
                 [] context # "cancelled" /\ NothingAnswered -> "unreachable"
                 [] OTHER -> "snapshot"
  /\ UNCHANGED <<day, context, feed, worker, answers, requests, tokens, learned, history>>

Work(w) ==
  \/ Take(w) \/ Send(w) \/ Lost(w) \/ Broken(w) \/ Stranded(w) \/ TooMany(w) \/ AskToken(w) \/ Wait(w)
  \/ \E out \in {"digest", "nodigest", "challenge", "denied", "hiccup"} : Answer(w, out)
  \/ \E out \in {"token", "denied", "hiccup"} : AnswerToken(w, out)

Next == (\E w \in Workers : Work(w)) \/ ContextEnds \/ BreakFeed \/ Finish

Spec == Init /\ [][Next]_vars

-----------------------------------------------------------------------------

\* recordFailure, markAnswered: whoever answered once is never left out, however late
\* that answer comes; whoever is left out was given downAfter chances.
DownIsSilent == \A h \in down : h \notin answered /\ silence[h] >= downAfter

\* do, recordFailure: an outage is cheap.  A host that never answers costs the scan
\* concurrency + downAfter - 1 requests at most, lost or under way, however many tags it has.
OutageIsCheap ==
  \A h \in Hosts \ answered :
    silence[h] + Cardinality({w \in Workers : InFlight(w) /\ Host(w) = h}) < downAfter + Cardinality(Workers)

\* maxRequests is a ceiling no lookup of a scan feels.
BudgetSuffices == ~overBudget

\* tokenEntry: "one token fetch, shared by every lookup that needs the same scope while it
\* is in flight or after it finished".
TokensAreShared == \A s \in Scopes : fetches[s] <= 1

\* Scan: when it fails for want of an answer, no lookup settled anything that would be lost
\* with it.
FailureLosesNothing ==
  result = "unreachable" => \A t \in Tags : answers[t] \notin {"digest", "unknown"}

\* feedOrder: "one slow registry cannot hold every worker while the others wait".
NoRegistryWaits ==
  LET waiting(t) == Cardinality({u \in Range(feed) : u.registry = t.registry})
      taken(t) == Cardinality(Fellows(t)) - waiting(t) IN
  context = "running" =>
    \A t, u \in Tags : waiting(t) > 0 => taken(u) <= taken(t) + 1

\* feedOrder: "a scan its deadline cuts short does not skip the same tags every time": in as
\* many days as its registry has tags, every tag is among the first once.
EveryTagHasItsDay ==
  \A t \in Tags :
    \E d \in day..(day + Cardinality(Fellows(t)) - 1) :
      Cardinality({u \in Tags : Before(u, t, d)}) < Len(Registries)

\* token, tokenEntry.done: a worker waits only for a token that is there, will not come,
\* or is being fetched by another worker.
WaitsAreServed ==
  \A w \in Workers : worker[w].at = "wait" =>
    LET s == Scope(worker[w].tag) IN
    \/ tokens[s] \in {"token", "unknown", "transient"}
    \/ \E v \in Workers : worker[v].at = "token" /\ Scope(worker[v].tag) = s
=============================================================================
