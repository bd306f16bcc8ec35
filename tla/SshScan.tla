------------------------------ MODULE SshScan ------------------------------
(***************************************************************************)
(* internal/connectors/sshexec/sshexec.go: one scan of a host over SSH     *)
(* runs docker ps and then ss, reports the published ports of containers   *)
(* and every other listening port under its process, and goes on when      *)
(* either command fails.  Containers start and stop between the two.  The  *)
(* host, its two commands and what they print are external.                *)
(***************************************************************************)
EXTENDS Naturals, FiniteSets

CONSTANTS Containers,  \* containers that publish ports through docker-proxy
          Processes,   \* the other listening programs
          None,        \* nobody
          MaxNumber,   \* bound: port numbers are 1..MaxNumber
          MaxEvents    \* bound: changes of the host

VARIABLES
  holder,    \* who listens on each port of the host
  root,      \* ss shows the account whose socket each is
  events,    \* how often the host changed
  pc,        \* the command the scan runs next
  docker,    \* the Docker facts: port to container
  dockerRan, \* dockerErr is nil
  found,     \* what parseSS keeps: port to process
  ssRan,     \* ssErr is nil
  dropped,   \* the ports parseSS leaves to the Docker facts
  past       \* history: every holder since the scan began

vars == <<holder, root, events, pc, docker, dockerRan, found, ssRan, dropped, past>>

Ports == (1..MaxNumber) \X {"tcp", "udp"}

Pick(f, S) == [p \in S |-> f[p]]

Nothing == /\ docker = <<>> /\ dockerRan = FALSE /\ found = <<>>
           /\ ssRan = FALSE /\ dropped = {} /\ past = {}

Init ==
  /\ holder \in [Ports -> Containers \cup Processes \cup {None}]
  /\ root \in BOOLEAN /\ events = 0
  /\ pc = "idle" /\ Nothing

\* A port is opened, closed or handed to another program.
Change ==
  /\ events < MaxEvents
  /\ \E p \in Ports, h \in Containers \cup Processes \cup {None} :
       /\ h # holder[p]
       /\ holder' = [holder EXCEPT ![p] = h]
  /\ events' = events + 1
  /\ past' = IF pc \in {"docker", "ss"} THEN past \cup {holder'} ELSE past
  /\ UNCHANGED <<root, pc, docker, dockerRan, found, ssRan, dropped>>

Begin ==
  /\ pc = "idle"
  /\ pc' = "docker" /\ past' = {holder}
  /\ UNCHANGED <<holder, root, events, docker, dockerRan, found, ssRan, dropped>>

\* docker ps prints consecutive ports that a container publishes under their
\* own numbers as one range, 80-81->80-81/tcp.
InRange(h, p) ==
  \E q \in Ports : /\ q[2] = p[2] /\ q[1] \in {p[1] - 1, p[1] + 1}
                   /\ h[q] = h[p]

\* parseDockerPorts: portMapRE reads a single mapping, not a range.
parseDockerPorts ==
  Pick(holder, {p \in Ports : holder[p] \in Containers /\ ~ InRange(holder, p)})

\* A docker ps that fails leaves the scan without Docker facts.
runDocker ==
  /\ pc = "docker"
  /\ dockerRan' \in BOOLEAN
  /\ docker' = IF dockerRan' THEN parseDockerPorts ELSE <<>>
  /\ pc' = "ss"
  /\ UNCHANGED <<holder, root, events, found, ssRan, dropped, past>>

\* The program a line of ss names; without the privilege it names none.
Process(p) ==
  IF ~ root THEN "listener"
  ELSE IF holder[p] \in Containers THEN "docker-proxy" ELSE holder[p]

\* Seeded fault: the protocol is not looked at.

ExplainedByNumber(p) ==
  \/ Process(p) = "docker-proxy"
  \/ \E q \in DOMAIN docker : q[1] = p[1]

\* parseSS: "already explained by the Docker facts".
Explained(p) == Process(p) = "docker-proxy" \/ p \in DOMAIN docker

Listeners == {p \in Ports : holder[p] # None}

runSS ==
  /\ pc = "ss"
  /\ ssRan' \in BOOLEAN
  /\ dropped' = {p \in Listeners : ssRan' /\ Explained(p)}
  /\ found' = [p \in {q \in Listeners : ssRan' /\ ~ Explained(q)} |-> Process(p)]
  /\ pc' = "snapshot"
  /\ UNCHANGED <<holder, root, events, docker, dockerRan, past>>

\* The snapshot leaves for the engine and the scan's memory with it.
Return ==
  /\ pc = "snapshot"
  /\ pc' = "idle" /\ docker' = <<>> /\ dockerRan' = FALSE /\ found' = <<>>
  /\ ssRan' = FALSE /\ dropped' = {} /\ past' = {}
  /\ UNCHANGED <<holder, root, events>>

Next == Change \/ Begin \/ runDocker \/ runSS \/ Return

Spec == Init /\ [][Next]_vars

-----------------------------------------------------------------------------
(* No port is reported as a container's and as a process's at once, though *)
(* both commands see it.                                                   *)
NoPortTwice == DOMAIN docker \cap DOMAIN found = {}

(* A port one program held all through the scan is reported as its own:    *)
(* another protocol's container on the same number never hides it, and a   *)
(* single port of a container is not taken for a process's.                *)
HeldIsShown ==
  pc = "snapshot" => \A p \in Ports, h \in Containers \cup Processes :
    (\A x \in past : x[p] = h) =>
      /\ h \in Processes /\ ssRan => p \in DOMAIN found
      /\ h \in Containers /\ dockerRan /\ ~ (\E x \in past : InRange(x, p))
           => p \in DOMAIN docker /\ docker[p] = h

(* What is reported was listening at some moment of the scan, a container's*)
(* port under that container and a named process's under that process.     *)
ReportedWasHeld ==
  /\ \A p \in DOMAIN docker : \E x \in past : x[p] = docker[p]
  /\ \A p \in DOMAIN found : \E x \in past :
       x[p] # None /\ (root => x[p] = found[p])
=============================================================================
