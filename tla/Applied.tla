------------------------------- MODULE Applied ------------------------------
(***************************************************************************)
(* What applied scans leave behind: routes and certificates as they are    *)
(* filed and kept resolved (Routes), the news of a registry                *)
(* (ImageUpdates), which service an upstream reaches (Resolve), and which  *)
(* hosts are one machine (MachineLinks).  They share no state, and the     *)
(* latter two are functions of the inventory, explored over inventories of *)
(* their own: one part moves.                                              *)
(***************************************************************************)
EXTENDS Routes, Sequences, FiniteSets

CONSTANTS
  Registries, ImageRefs, Digests, NoDigest, MaxPublished, \* of ImageUpdates
  HostSlots, HostRef, HostReports, ServiceSlots, ServiceRef, ServiceReports,
  PortReports, Upstreams,                                 \* of Resolve
  MachineSlots, MachineRef, MachineReports                \* of MachineLinks

VARIABLES
  part,  \* which of them moves
  tags, running, sources, answers, row, entries, covered, moves, \* of ImageUpdates
  known, hosts, ports, \* of Resolve
  machines             \* of MachineLinks

U == INSTANCE ImageUpdates WITH Sources <- Registries, Refs <- ImageRefs,
       published <- tags, filed <- entries
R == INSTANCE Resolve WITH Slots <- HostSlots, Ref <- HostRef, Reports <- HostReports,
       services <- known
M == INSTANCE MachineLinks WITH Slots <- MachineSlots, Ref <- MachineRef,
       Reports <- MachineReports, hosts <- machines

ASSUME DigestsAssumption == NoDigest \notin Digests
ASSUME PublishedAssumption == MaxPublished \in Nat
ASSUME NoRowAssumption == None \notin U!Row \cup U!Snapshot
ASSUME SlotsAssumption ==
  /\ IsFiniteSet(ServiceSlots) /\ IsFiniteSet(MachineSlots) /\ MachineSlots \subseteq Nat
ASSUME ReportsAssumption == None \notin ServiceReports \cup MachineReports

images == <<tags, running, sources, answers, row, entries, covered, moves>>
inventory == <<known, hosts, ports>>

PartsInit ==
  /\ part \in {"rows", "images", "upstreams", "machines"}
  /\ Init /\ U!Init /\ R!Init /\ M!Init

PartsNext ==
  /\ \/ part = "rows" /\ Next /\ UNCHANGED <<images, inventory, machines>>
     \/ part = "images" /\ U!Next /\ UNCHANGED <<vars, inventory, machines>>
     \/ part = "upstreams" /\ R!Next /\ UNCHANGED <<vars, images, machines>>
     \/ part = "machines" /\ M!Next /\ UNCHANGED <<vars, images, inventory>>
  /\ UNCHANGED part

PartsSpec == PartsInit /\ [][PartsNext]_<<part, vars, images, inventory, machines>>

-----------------------------------------------------------------------------

\* applyImageUpdates: what the registry says is told once and kept.
NewsIsToldOnce == U!NewsIsToldOnce
NothingKnownIsLost == U!NothingKnownIsLost

\* resolve.Routes, linkMachines: these hold of every inventory.
ResolutionIsRight == part = "upstreams" => R!ResolutionIsRight
MachinesAreRight == part = "machines" => M!LinksAreRight
=============================================================================
