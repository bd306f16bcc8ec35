---------------------------- MODULE MCConnectors ----------------------------
(* The scans of five connectors, for TLC: registry (RegistryScan), Proxmox *)
(* (Proxmox), SSH (SshScan), Nginx Proxy Manager (NpmSession) and the      *)
(* loader of nginx (NginxLoad).  They share no state: one part moves.      *)
EXTENDS RegistryScan, TLC

CONSTANTS
  Guests, VMs, Addrs, Unread, Slots, MaxMoves,
  Containers, Processes, MaxNumber, MaxTurns,
  Scans, Tests, MaxLogins, MaxFaults,
  Names, Files, Directory, symlinkHops, Contents, Rewritten, Mounts, Limits, MaxRewrites,
  None

ASSUME BoundsAssumption == {MaxLogins, MaxFaults, MaxMoves, MaxTurns, Slots} \subseteq Nat
ASSUME NoneAssumption ==
  None \notin Nat \cup Addrs \cup Containers \cup Processes \cup {Unread, "own"}
ASSUME ProcessAssumption == Containers \cap Processes = {} /\ "docker-proxy" \notin Processes

VARIABLES
  part, \* which of them moves
  cluster, moves, scan, store, node, clusters,
  holder, root, turns, command, docker, dockerRan, found, ssRan, dropped, holders,
  issued, live, faults, knows, kept, pc, session, path, again, refusals, upset,
  disk, rewrites, lim, entry, todo, stack, parsed, includes, tree, status

P == INSTANCE Proxmox WITH Workers <- Slots, MaxEvents <- MaxMoves, events <- moves, past <- clusters
H == INSTANCE SshScan WITH MaxEvents <- MaxTurns, events <- turns, pc <- command, past <- holders
N == INSTANCE NpmSession WITH MaxEvents <- MaxFaults, events <- faults, cache <- kept
G == INSTANCE NginxLoad WITH cache <- parsed

ASSUME DirectoryAssumption ==
  /\ IsFiniteSet(Files) /\ symlinkHops \in Nat
  /\ \A n \in Names : Directory[n].kind = "file" => Directory[n].to \in Files
  /\ \A n \in Names : Directory[n].kind = "link" => Directory[n].to \in Names
ASSUME ContentsAssumption ==
  /\ Rewritten \subseteq Seq(G!Item) /\ \A f \in Files : Contents[f] \subseteq Seq(G!Item)
  /\ \A m \in Mounts : {m.main, m.confs, m.others} \subseteq Seq(Names)
  /\ \A l \in Limits : {l.includes, l.includeDepth} \subseteq Nat

-----------------------------------------------------------------------------
\* Registry: two tags of one repository, a third of another registry.  One token
\* service serves everybody; a registry redirects to the mirror they share, or nowhere.
Hub == "hub"
Ghcr == "ghcr"
Tag(r, repo, n) == [registry |-> r, repo |-> repo, name |-> n]
TwoRegistries == <<Hub, Ghcr>>
ThreeTags == {Tag(Hub, "app", 1), Tag(Hub, "app", 2), Tag(Ghcr, "db", 3)}
Auth == [r \in {Hub, Ghcr} |-> "auth"]
Mirror == [r \in {Hub, Ghcr} |-> "mirror"]

\* nginx: three files; the first has a second name, two links lead nowhere.
ThreeFiles == {"A", "B", "C"}
EightNames == {"a", "b", "c", "a2", "out", "gone", "loop", "dir"}
Is(kind, to) == [kind |-> kind, to |-> to]
OneDirectory ==
  [n \in EightNames |->
     CASE n = "a" -> Is("file", "A") [] n = "b" -> Is("file", "B") [] n = "c" -> Is("file", "C")
       [] n = "a2" -> Is("link", "a") [] n = "loop" -> Is("link", "loop")
       [] n = "out" -> Is("outside", n) [] n = "gone" -> Is("missing", n) [] n = "dir" -> Is("directory", n)]
Word(w) == [include |-> FALSE, word |-> w, names |-> <<>>]
Inc(ns) == [include |-> TRUE, word |-> 0, names |-> ns]
Unparsable == <<Word(0)>>
Patterns == {<<"b">>, <<"c">>, <<"out">>, <<"b", "c", "gone">>, <<"a2">>}
OneOrTwo == {<<Word(1)>>, Unparsable} \cup {<<Inc(p)>> : p \in Patterns}
              \cup {<<Word(1), Inc(p)>> : p \in Patterns} \cup {<<Inc(<<"c">>), Inc(<<"b">>)>>}
SomeContents ==
  [f \in ThreeFiles |->
     IF f = "C" THEN {<<Word(1)>>, <<Inc(<<"loop">>), Word(1)>>, <<Inc(<<"b">>)>>} ELSE OneOrTwo]
SomeRewritten == {<<Word(2)>>, <<Inc(<<"c">>), Word(2)>>, Unparsable}
Mount(main, confs, others) == [main |-> main, confs |-> confs, others |-> others]
SomeMounts ==
  {Mount(<<"a">>, <<"b">>, <<>>), Mount(<<>>, <<"a2", "b">>, <<"c">>), Mount(<<>>, <<>>, <<"b", "gone", "c">>),
   Mount(<<"loop">>, <<"b">>, <<>>), Mount(<<>>, <<>>, <<"dir">>)}
TwoLimits == {[includes |-> 4, includeDepth |-> 3, files |-> 3], [includes |-> 9, includeDepth |-> 2, files |-> 2]}

-----------------------------------------------------------------------------
registry == vars
proxmox == <<cluster, moves, scan, store, node, clusters>>
ssh == <<holder, root, turns, command, docker, dockerRan, found, ssRan, dropped, holders>>
npm == <<issued, live, faults, knows, kept, pc, session, path, again, refusals, upset>>
nginx == <<disk, rewrites, lim, entry, todo, stack, parsed, includes, tree, status>>

\* A part that does not move has one initial state.
NoNginx ==
  /\ disk = None /\ rewrites = 0 /\ lim = None /\ entry = <<>> /\ todo = <<>> /\ stack = <<>>
  /\ parsed = None /\ includes = 0 /\ tree = <<>> /\ status = "ok"

PartsInit ==
  /\ part \in {"registry", "proxmox", "ssh", "npm", "nginx"}
  /\ Init /\ (part # "registry" => day = CHOOSE d \in Days : TRUE)
  /\ P!Init /\ (part # "proxmox" =>
       cluster = [guests |-> [g \in Guests |-> [status |-> "stopped", addr |-> None, rrd |-> TRUE]],
                  node |-> "own", audit |-> TRUE, agent |-> TRUE, sys |-> TRUE])
  /\ H!Init /\ (part # "ssh" => root /\ holder = [p \in H!Ports |-> None])
  /\ N!Init /\ (part # "npm" => knows = N!Calls)
  /\ IF part = "nginx" THEN G!Init ELSE NoNginx

\* What has an end may rest there.
Rest ==
  /\ \/ part = "registry" /\ result # "none"
     \/ part = "npm" /\ \A c \in N!Calls : pc[c] \in {"listed", "partial", "failed"}
     \/ part = "nginx" /\ status # "loading"
  /\ UNCHANGED <<registry, proxmox, ssh, npm, nginx>>

PartsNext ==
  /\ \/ part = "registry" /\ Next /\ UNCHANGED <<proxmox, ssh, npm, nginx>>
     \/ part = "proxmox" /\ P!Next /\ UNCHANGED <<registry, ssh, npm, nginx>>
     \/ part = "ssh" /\ H!Next /\ UNCHANGED <<registry, proxmox, npm, nginx>>
     \/ part = "npm" /\ N!Next /\ UNCHANGED <<registry, proxmox, ssh, nginx>>
     \/ part = "nginx" /\ G!Next /\ UNCHANGED <<registry, proxmox, ssh, npm>>
     \/ Rest
  /\ UNCHANGED part

PartsSpec == PartsInit /\ [][PartsNext]_<<part, registry, proxmox, ssh, npm, nginx>>

Symmetry == Permutations(Workers) \cup Permutations(Scans)

-----------------------------------------------------------------------------
\* session, recordFailure, Scan: the registry connector leaves out only hosts that had
\* their chances, spends no more on an outage, and fails only when it has nothing to lose.
OutagesAreContained ==
  part = "registry" => TypeOK /\ DownIsSilent /\ OutageIsCheap /\ FailureLosesNothing

\* feedOrder, token, maxRequests: every tag gets its turn, its token and its requests.
LookupsAreServed ==
  part = "registry" =>
    /\ NoRegistryWaits /\ EveryTagHasItsDay
    /\ TokensAreShared /\ WaitsAreServed
    /\ BudgetSuffices

\* Scan, readGuests, applyHosts: what a scan of Proxmox could not read is kept.
UnreadIsKept ==
  /\ []P!TypeOK
  /\ P!AddressesAreEarned /\ P!GoneWasAbsent /\ P!StoppedHoldsNone /\ P!NamesAreKept

\* parseDockerPorts, parseSS: two commands, one truth.
PortsAreTold == part = "ssh" => H!NoPortTwice /\ H!HeldIsShown /\ H!ReportedWasHeld

\* get, session, fresh: calls share a session and not each other's mistakes.
SessionsAreShared ==
  /\ [](N!TypeOK /\ N!OneFailedLogin /\ N!DeadSessionIsHarmless)
  /\ N!TestsAreReal

\* expand, limits: what is loaded is what was there, and what is refused deserves it.
LoadIsFaithful ==
  part = "nginx" => G!LoadedIsUnfolded /\ G!CycleIsReal /\ G!DepthIsReal
=============================================================================
