------------------------------ MODULE Metadata ------------------------------
(***************************************************************************)
(* EntityManager: the notes, tags and custom fields a user attaches to an  *)
(* entity, and the entities a user enters by hand.  Metadata names its     *)
(* entity by type and id, without a foreign key; ids are INTEGER PRIMARY   *)
(* KEYs, so the id of the newest row that is deleted is handed out again.  *)
(* The value of a piece of metadata is the entities (their incarnations)   *)
(* it was written for.                                                     *)
(***************************************************************************)
EXTENDS Integers, FiniteSets, FiniteSetsExt

CONSTANTS
  Sources,  \* connectors
  Pages,    \* requests that show an entity and then edit what they showed
  MaxId,    \* bound on ids
  MaxBorn,  \* bound on entities ever filed
  None

ASSUME BoundsAssumption == {MaxId, MaxBorn} \subseteq Nat

\* The types that matter here: a port follows its service, a service its host.
\* Routes, certificates, domains and expiries behave like hosts without services.
Types == {"host", "service", "port"}
Entities == Types \X (1..MaxId)
\* Tags are written, replaced, read and deleted as custom fields are: one part here.
Parts == {"notes", "fields"}

VARIABLES
  rows,      \* entity -> None or [born, owner, of]
  meta,      \* part -> entity -> the incarnations its rows were written for
  page,      \* per request: [at, of, born, saw]
  born,      \* entities filed so far
  leftovers, \* history: id and incarnation, removed without its metadata
  overtaken, \* history: id and incarnation, with a page that was open when the id was
             \* handed out again
  refused    \* history: ids under which a valid manual entry was refused

history == <<leftovers, overtaken, refused>>
vars == <<rows, meta, page, born, history>>

Blank == 0        \* whose row in entity_notes with an empty text is
Orphan == "none"  \* connector_id NULL, key not "manual:"

Row == [born : 1..MaxBorn, owner : Sources \cup {"manual", Orphan}, of : 0..MaxId]
\* A source is neither the user nor nobody, and None is none of what it stands beside.
ASSUME SourcesAssumption == Sources \cap {"manual", Orphan} = {}
ASSUME NoneAssumption == None \notin Sources \cup Row \cup Entities

Stages == {"closed", "notes", "fields", "shown"}
Closed == [at |-> "closed", of |-> None, born |-> 0, saw |-> {}]

Exists(e) == rows[e] # None
Children(t, e) == {x \in Entities : x[1] = t /\ Exists(x) /\ rows[x].of = e[2]}
Owner(e) == IF Exists(e) THEN rows[e].owner ELSE None
Above == [host |-> "none", service |-> "host", port |-> "service"]
Has(e) == {p \in Parts : meta[p][e] # {}}

\* The id SQLite gives to the next row of a type.
NextId(t) == 1 + Max({0} \cup {i \in 1..MaxId : Exists(<<t, i>>)})

-----------------------------------------------------------------------------

Init ==
  /\ rows = [e \in Entities |-> None]
  /\ meta = [p \in Parts |-> [e \in Entities |-> {}]]
  /\ page = [r \in Pages |-> Closed]
  /\ born = 0
  /\ leftovers = {}
  /\ overtaken = {}
  /\ refused = {}

\* A row is inserted under e.
File(e, owner, of) ==
  /\ born < MaxBorn
  /\ e[2] \in 1..MaxId
  /\ born' = born + 1
  /\ rows' = [rows EXCEPT ![e] = [born |-> born + 1, owner |-> owner, of |-> of]]
  /\ overtaken' = overtaken \cup {<<e, page[r].born>> : r \in {q \in Pages : page[q].of = e}}

\* A scan files an entity it sees for the first time.
Discover(c, t, of) ==
  /\ of = 0 => t # "port"
  /\ of # 0 => LET parent == <<Above[t], of>> IN parent \in Entities /\ Owner(parent) = c
  /\ File(<<t, NextId(t)>>, c, of)
  /\ UNCHANGED <<meta, page, leftovers, refused>>

\* The ports that go with the services and hosts of S.
WithPorts(S) ==
  S \cup UNION {Children("port", s) : s \in {x \in Entities : x[1] = "service" /\ Exists(x) /\
                  (x \in S \/ <<"host", rows[x].of>> \in S)}}

\* What the foreign keys make of the rows when S is deleted.
Without(S) ==
  [e \in Entities |->
     CASE e \in WithPorts(S) -> None
       [] e \notin WithPorts(S) /\ e[1] = "service" /\ Exists(e) /\ <<"host", rows[e].of>> \in S
            -> [rows[e] EXCEPT !.of = 0]
       [] OTHER -> rows[e]]

Leave(S) == leftovers' = leftovers \cup {<<e, rows[e].born>> : e \in {x \in S : Has(x) # {}}}

\* The retention purge deletes rows that went gone, a gone host with its services.
PurgeGone(S) ==
  /\ S # {}
  /\ \A e \in S : e[1] # "port" /\ Exists(e) /\ rows[e].owner # "manual"
  /\ \A h \in {e \in S : e[1] = "host"} :
       \A s \in Children("service", h) : rows[s].owner = "manual" \/ s \in S
  /\ rows' = Without(S)
  /\ Leave(WithPorts(S))
  /\ UNCHANGED <<meta, page, born, overtaken, refused>>

\* A port its source no longer reports is deleted.
ClosePort(e) ==
  /\ e[1] = "port"
  /\ Exists(e)
  /\ rows' = Without({e})
  /\ Leave({e})
  /\ UNCHANGED <<meta, page, born, overtaken, refused>>

\* ON DELETE SET NULL for hosts and services, CASCADE for ports.
DeleteSource(c) ==
  LET owned == {e \in Entities : Exists(e) /\ rows[e].owner = c}
      ports == {e \in owned : e[1] = "port"} IN
  /\ owned # {}
  /\ rows' = [e \in Entities |->
                CASE e \in ports -> None
                  [] e \in owned \ ports -> [rows[e] EXCEPT !.owner = Orphan]
                  [] OTHER -> rows[e]]
  /\ Leave(ports)
  /\ UNCHANGED <<meta, page, born, overtaken, refused>>

\* CreateManual: the row and its metadata in one transaction.  The metadata is
\* inserted, not upserted: a note that lies under the id refuses the entry, and so does a
\* tag or a key of its own that lies there; others it takes over.
CreateManual(t, of, parts, clash) ==
  LET e == <<t, NextId(t)>> IN
  /\ t # "port"
  /\ of # 0 => t = "service" /\ Exists(<<"host", of>>)
  /\ e \in Entities
  /\ clash \subseteq parts \cap Has(e)
  /\ "notes" \in parts \cap Has(e) => "notes" \in clash
  /\ IF clash = {}
     THEN /\ File(e, "manual", of)
          /\ meta' = [p \in Parts |-> IF p \in parts THEN [meta[p] EXCEPT ![e] = @ \cup {born + 1}]
                                                     ELSE meta[p]]
          /\ UNCHANGED refused
     ELSE /\ refused' = refused \cup {e}
          /\ UNCHANGED <<rows, meta, born, overtaken>>
  /\ UNCHANGED <<page, leftovers>>

\* DeleteManual: only an entry made by hand, with its metadata.  The errors of the
\* deletions are discarded: `kept` is what stays.
\* Seeded faults: fields forgotten; the type forgotten in the deletions.
DeleteManualKeepsFields(e, kept) ==
  /\ Exists(e)
  /\ rows[e].owner = "manual"
  /\ rows' = Without({e})
  /\ meta' = [p \in Parts |-> IF p = "fields" THEN meta[p] ELSE [meta[p] EXCEPT ![e] = {}]]
  /\ UNCHANGED <<page, born, history>>
DeleteManualAnyType(e, kept) ==
  /\ Exists(e)
  /\ rows[e].owner = "manual"
  /\ rows' = Without({e})
  /\ meta' = [p \in Parts |-> [x \in Entities |-> IF x[2] = e[2] THEN {} ELSE meta[p][x]]]
  /\ UNCHANGED <<page, born, history>>
DeleteManual(e, kept) ==
  /\ Exists(e)
  /\ rows[e].owner = "manual"
  /\ kept \subseteq Has(e)
  /\ rows' = Without({e})
  /\ meta' = [p \in Parts |-> IF p \in kept THEN meta[p] ELSE [meta[p] EXCEPT ![e] = {}]]
  /\ leftovers' = leftovers \cup (IF kept = {} THEN {} ELSE {<<e, rows[e].born>>})
  /\ UNCHANGED <<page, born, overtaken, refused>>

\* Detail: the row, then notes, then fields, each a statement of its own,
\* outside a transaction.
OpenPage(r, e) ==
  /\ page[r].at = "closed"
  /\ Exists(e)
  /\ page' = [page EXCEPT ![r] = [at |-> "notes", of |-> e, born |-> rows[e].born, saw |-> {}]]
  /\ UNCHANGED <<rows, meta, born, history>>

Following == [notes |-> "fields", fields |-> "shown"]

ReadPart(r) ==
  LET p == page[r].at IN
  /\ p \in Parts
  /\ page' = [page EXCEPT ![r].at = Following[p],
                          ![r].saw = @ \cup (meta[p][page[r].of] \ {Blank})]
  /\ UNCHANGED <<rows, meta, born, history>>

\* Patch: an edit of what the page showed, all of it or nothing.  `edit` says which
\* parts it names and whether it clears or sets them; tags and fields are replaced,
\* notes upserted.  An invalid list of fields rolls everything back (a stutter).
Patch(r, edit) ==
  LET e == page[r].of IN
  /\ page[r].at = "shown"
  /\ Exists(e)
  /\ meta' = [p \in Parts |->
                CASE edit[p] = "absent" -> meta[p]
                  [] edit[p] = "set" -> [meta[p] EXCEPT ![e] = {page[r].born}]
                  [] OTHER -> [meta[p] EXCEPT ![e] = IF p = "notes" THEN {Blank} ELSE {}]]
  /\ page' = [page EXCEPT ![r] = Closed]
  /\ UNCHANGED <<rows, born, history>>

ClosePage(r) ==
  /\ page[r].at = "shown"
  /\ page' = [page EXCEPT ![r] = Closed]
  /\ UNCHANGED <<rows, meta, born, history>>

\* requireEntity and its like: a request about an entity that is not there.
NotFound(e) == ~Exists(e) /\ UNCHANGED vars

Edits == [Parts -> {"absent", "clear", "set"}]

Next ==
  \/ \E c \in Sources : DeleteSource(c) \/ \E t \in Types, of \in 0..MaxId : Discover(c, t, of)
  \/ \E S \in SUBSET {e \in Entities : Exists(e)} : PurgeGone(S)
  \/ \E e \in Entities : ClosePort(e) \/ NotFound(e) \/ \E kept \in SUBSET Parts : DeleteManual(e, kept)
  \/ \E t \in Types, of \in 0..MaxId, parts, clash \in SUBSET Parts : CreateManual(t, of, parts, clash)
  \/ \E r \in Pages :
       \/ \E e \in Entities : OpenPage(r, e)
       \/ ReadPart(r)
       \/ \E edit \in Edits : Patch(r, edit)
       \/ ClosePage(r)

Spec == Init /\ [][Next]_vars

-----------------------------------------------------------------------------

\* Every variable keeps its type, and a port has a service.
TypeOK ==
  /\ rows \in [Entities -> Row \cup {None}]
  /\ born \in 0..MaxBorn
  /\ meta \in [Parts -> [Entities -> SUBSET (0..MaxBorn)]]
  /\ page \in [Pages -> [at : Stages, of : Entities \cup {None}, born : 0..MaxBorn,
                         saw : SUBSET (1..MaxBorn)]]
  /\ \A e \in Entities : e[1] = "port" /\ Exists(e) => Exists(<<"service", rows[e].of>>)

\* Whose metadata may be found under an id that is not theirs any more: who went by purge,
\* with a closed port or by a deletion that failed halfway, and who is edited by a page
\* that was open when the id was handed out again.
Strays == leftovers \cup overtaken

\* An entity shows what was written for it, and of another one only a stray's: never what
\* belonged to an entity that was deleted whole, whatever its id went through before.
MetadataIsOwn ==
  \A e \in Entities, p \in Parts :
    Exists(e) => \A b \in meta[p][e] : b \in {Blank, rows[e].born} \/ <<e, b>> \in Strays

\* A valid manual entry is refused only under an id that kept metadata.
RefusedOverLeftovers == \A e \in refused : \E b \in 1..MaxBorn : <<e, b>> \in leftovers

\* A page never shows metadata of an entity other than the one whose row it read, but for
\* strays, unless the id was handed out again under this very page: its reads are not one
\* transaction.
PageIsConsistent ==
  \A r \in Pages :
    \/ \A b \in page[r].saw : b = page[r].born \/ <<page[r].of, b>> \in Strays
    \/ <<page[r].of, page[r].born>> \in overtaken

\* Metadata outlives everything that happens to a row that stays: it changes only by an
\* edit of a page, or with the row.
MetadataSurvives ==
  [][\A e \in Entities :
       Exists(e) /\ rows'[e] # None /\ (\E p \in Parts : meta'[p][e] # meta[p][e])
         => \E r \in Pages : page[r].of = e /\ page[r].at = "shown" /\ page'[r] = Closed]_vars

\* EntityManager: notes, tags and fields are those of the entity they were written for, on
\* its page, too, but for strays, and only leftovers refuse a manual entry.
MetadataStaysApart == TypeOK /\ MetadataIsOwn /\ RefusedOverLeftovers /\ PageIsConsistent
=============================================================================
