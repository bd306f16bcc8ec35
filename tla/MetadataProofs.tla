--------------------------- MODULE MetadataProofs ---------------------------
(***************************************************************************)
(* What a page shows and an entity carries, for every number of sources,   *)
(* pages, ids and entities: ids are handed out again, and the metadata     *)
(* under them is that of the entity that is there, or of one of those that *)
(* Metadata calls strays.                                                  *)
(***************************************************************************)
EXTENDS Metadata, WellFoundedInduction, TLAPS

-----------------------------------------------------------------------------

(* A port hangs under a service of its own source. *)
PortsFit ==
  \A e \in Entities :
    Exists(e) /\ e[1] = "port" =>
      /\ <<"service", rows[e].of>> \in Entities
      /\ Exists(<<"service", rows[e].of>>)
      /\ rows[e].owner \in Sources
      /\ rows[<<"service", rows[e].of>>].owner = rows[e].owner

(* A service of a source hangs under a host of the same source, if under any: no port   *)
(* goes with the host that a user deletes.                                              *)
ServicesFit ==
  \A s \in Entities :
    Exists(s) /\ s[1] = "service" /\ rows[s].owner \in Sources /\ rows[s].of # 0 =>
      /\ <<"host", rows[s].of>> \in Entities
      /\ Exists(<<"host", rows[s].of>>)
      /\ rows[<<"host", rows[s].of>>].owner = rows[s].owner

(* What lies under an id without a row is a stray's, and somebody left it there. *)
GhostsAreLeftovers ==
  \A e \in Entities, p \in Parts :
    ~Exists(e) /\ meta[p][e] # {} =>
      /\ \A b \in meta[p][e] : b = Blank \/ <<e, b>> \in Strays
      /\ \E b \in 1..MaxBorn : <<e, b>> \in leftovers

(* An open page is about the entity it was opened for, or that one's id was overtaken. *)
PagesAreCurrent ==
  \A r \in Pages :
    page[r].at # "closed" =>
      /\ page[r].of \in Entities
      /\ page[r].born \in 1..MaxBorn
      /\ Exists(page[r].of) =>
           rows[page[r].of].born = page[r].born \/ <<page[r].of, page[r].born>> \in overtaken

TypesFit ==
  /\ rows \in [Entities -> Row \cup {None}]
  /\ born \in 0..MaxBorn
  /\ meta \in [Parts -> [Entities -> SUBSET (0..MaxBorn)]]
  /\ page \in [Pages -> [at : Stages, of : Entities \cup {None}, born : 0..MaxBorn,
                         saw : SUBSET (1..MaxBorn)]]

MetadataInv ==
  /\ TypesFit
  /\ PortsFit
  /\ ServicesFit
  /\ GhostsAreLeftovers
  /\ PagesAreCurrent
  /\ MetadataIsOwn
  /\ RefusedOverLeftovers
  /\ PageIsConsistent

-----------------------------------------------------------------------------

(* A nonempty set of numbers with a bound has a greatest one. *)
LEMMA MaxIsThere ==
  ASSUME NEW n \in Nat, NEW S \in SUBSET (0..n), S # {}
  PROVE  Max(S) \in S /\ \A y \in S : Max(S) >= y
<1> DEFINE T == {n - x : x \in S}
<1>1. T \subseteq Nat /\ T # {}
  <2>1. \A x \in S : n - x \in Nat
    OBVIOUS
  <2> QED BY <2>1
<1> DEFINE R == OpToRel(<, Nat)
<1>2. IsWellFoundedOn(R, Nat)
  BY NatLessThanWellFounded
<1>3. PICK m \in T : \A y \in T : ~(<<y, m>> \in R)
  BY <1>2, <1>1, WFMin
<1>4. \A y \in T : ~(y < m)
  <2> SUFFICES ASSUME NEW y \in T, y < m
               PROVE  FALSE
    OBVIOUS
  <2>1. <<y, m>> \in Nat \X Nat /\ <<y, m>>[1] < <<y, m>>[2]
    BY <1>1, Zenon
  <2>2. <<y, m>> \in R
    BY <2>1 DEF OpToRel
  <2> QED BY <2>2, <1>3
<1>5. PICK x \in S : m = n - x
  OBVIOUS
<1>6. \A y \in S : x >= y
  BY <1>4, <1>5
<1> QED BY <1>6 DEF Max

(* SQLite hands out an id that no row of its type has. *)
LEMMA NextIdIsFree ==
  ASSUME NEW t \in Types, MaxId \in Nat
  PROVE  NextId(t) \in 1..(MaxId + 1) /\ ~(NextId(t) \in 1..MaxId /\ Exists(<<t, NextId(t)>>))
<1> DEFINE S == {0} \cup {i \in 1..MaxId : Exists(<<t, i>>)}
<1>1. S \in SUBSET (0..MaxId) /\ 0 \in S
  OBVIOUS
<1>2. Max(S) \in S /\ \A y \in S : Max(S) >= y
  BY <1>1, MaxIsThere, Zenon
<1>3. NextId(t) = 1 + Max(S)
  BY DEF NextId
<1> HIDE DEF S
<1>4. Max(S) \in 0..MaxId
  BY <1>1, <1>2
<1>5. 1 + Max(S) \notin S
  BY <1>2, <1>4
<1>6. NextId(t) \in 1..MaxId /\ Exists(<<t, NextId(t)>>) => NextId(t) \in S
  BY DEF S
<1> QED BY <1>3, <1>4, <1>5, <1>6

(* A row has its fields. *)
LEMMA RowFields ==
  ASSUME TypesFit, NEW e \in Entities, Exists(e)
  PROVE  /\ rows[e] \in Row
         /\ rows[e].born \in 1..MaxBorn
         /\ rows[e].owner \in Sources \cup {"manual", Orphan}
         /\ rows[e].of \in 0..MaxId
<1>1. rows[e] \in Row
  BY DEF TypesFit, Exists
<1> QED BY <1>1 DEF Row

(* Deletion takes ports and rows of S, cuts services off their hosts, and leaves the rest. *)
LEMMA WithoutIs ==
  ASSUME TypesFit, NEW S \in SUBSET Entities
  PROVE  /\ WithPorts(S) \subseteq Entities
         /\ S \subseteq WithPorts(S)
         /\ Without(S) \in [Entities -> Row \cup {None}]
         /\ \A e \in WithPorts(S) : Without(S)[e] = None
         /\ \A e \in Entities \ WithPorts(S) :
              /\ Without(S)[e] # None <=> Exists(e)
              /\ Exists(e) => /\ Without(S)[e].born = rows[e].born
                              /\ Without(S)[e].owner = rows[e].owner
                              /\ Without(S)[e].of =
                                   IF e[1] = "service" /\ <<"host", rows[e].of>> \in S
                                   THEN 0 ELSE rows[e].of
<1>1. WithPorts(S) \subseteq Entities /\ S \subseteq WithPorts(S)
  BY DEF WithPorts, Children
<1>2. \A e \in Entities : Without(S)[e] =
        IF e \in WithPorts(S) THEN None
        ELSE IF e[1] = "service" /\ Exists(e) /\ <<"host", rows[e].of>> \in S
             THEN [rows[e] EXCEPT !.of = 0] ELSE rows[e]
  <2> SUFFICES ASSUME NEW e \in Entities
               PROVE  Without(S)[e] =
                        IF e \in WithPorts(S) THEN None
                        ELSE IF e[1] = "service" /\ Exists(e) /\ <<"host", rows[e].of>> \in S
                             THEN [rows[e] EXCEPT !.of = 0] ELSE rows[e]
    OBVIOUS
  <2>1. CASE e \in WithPorts(S)
    BY <2>1 DEF Without
  <2>2. CASE e \notin WithPorts(S)
    BY <2>2 DEF Without
  <2> QED BY <2>1, <2>2
<1>3. DOMAIN Without(S) = Entities /\ Without(S) = [e \in Entities |-> Without(S)[e]]
  BY DEF Without
<1>4. ASSUME NEW e \in Entities \ WithPorts(S), Exists(e)
      PROVE  /\ Without(S)[e] \in Row
             /\ Without(S)[e].born = rows[e].born
             /\ Without(S)[e].owner = rows[e].owner
             /\ Without(S)[e].of = IF e[1] = "service" /\ <<"host", rows[e].of>> \in S
                                   THEN 0 ELSE rows[e].of
  <2>1. rows[e] \in Row /\ rows[e].of \in 0..MaxId
    BY <1>4, RowFields
  <2>2. CASE e[1] = "service" /\ <<"host", rows[e].of>> \in S
    <3>1. Without(S)[e] = [rows[e] EXCEPT !.of = 0]
      BY <1>2, <1>4, <2>2
    <3> QED BY <3>1, <2>1, <2>2, BoundsAssumption DEF Row
  <2>3. CASE ~(e[1] = "service" /\ <<"host", rows[e].of>> \in S)
    <3>1. Without(S)[e] = rows[e]
      BY <1>2, <1>4, <2>3
    <3> QED BY <3>1, <2>1, <2>3
  <2> QED BY <2>2, <2>3
<1>5. \A e \in Entities \ WithPorts(S) : ~Exists(e) => Without(S)[e] = None
  BY <1>2 DEF Exists
<1>6. \A e \in Entities : Without(S)[e] \in Row \cup {None}
  BY <1>2, <1>4, <1>5
<1>7. None \notin Row
  BY NoneAssumption
<1>8. Without(S) \in [Entities -> Row \cup {None}]
  BY <1>3, <1>6, Zenon
<1>9. \A e \in WithPorts(S) : Without(S)[e] = None
  BY <1>1, <1>2
<1> QED BY <1>1, <1>4, <1>5, <1>7, <1>8, <1>9

(* A row that is filed under a free id fits in where its parent does. *)
LEMMA FiledFits ==
  ASSUME MetadataInv, NEW t \in Types, NEW e, e = <<t, NextId(t)>>,
         NEW owner \in Sources \cup {"manual"}, NEW of \in 0..MaxId, File(e, owner, of),
         t = "port" => /\ owner \in Sources
                       /\ <<"service", of>> \in Entities
                       /\ Exists(<<"service", of>>)
                       /\ rows[<<"service", of>>].owner = owner,
         t = "service" /\ owner \in Sources /\ of # 0 =>
           /\ <<"host", of>> \in Entities
           /\ Exists(<<"host", of>>)
           /\ rows[<<"host", of>>].owner = owner
  PROVE  /\ e \in Entities /\ ~Exists(e) /\ rows'[e] # None
         /\ rows' \in [Entities -> Row \cup {None}]
         /\ born' \in 1..MaxBorn
         /\ rows'[e].born = born'
         /\ \A x \in Entities : x # e => rows'[x] = rows[x]
         /\ PortsFit' /\ ServicesFit'
<1>1. e \in Entities /\ ~Exists(e)
  <2>1. e[2] = NextId(t) /\ NextId(t) \in 1..MaxId
    BY DEF File
  <2>2. ~Exists(<<t, NextId(t)>>)
    BY <2>1, NextIdIsFree, BoundsAssumption
  <2> QED BY <2>1, <2>2 DEF Entities
<1>2. rows \in [Entities -> Row \cup {None}] /\ born \in 0..MaxBorn
  BY DEF MetadataInv, TypesFit
<1>3. born' = born + 1 /\ born' \in 1..MaxBorn
  BY <1>2, BoundsAssumption DEF File
<1> DEFINE r == [born |-> born', owner |-> owner, of |-> of]
<1>4. r \in Row /\ r.born = born' /\ r.owner = owner /\ r.of = of /\ r # None
  <2>1. r \in Row
    BY <1>3 DEF Row
  <2> QED BY <2>1, NoneAssumption
<1>5. rows' = [rows EXCEPT ![e] = r]
  BY <1>3 DEF File
<1> HIDE DEF r
<1>6. rows'[e] = r /\ \A x \in Entities : x # e => rows'[x] = rows[x]
  BY <1>1, <1>2, <1>5
<1>7. rows' \in [Entities -> Row \cup {None}]
  BY <1>2, <1>4, <1>5
<1>8. \A x \in Entities : Exists(x) => x # e /\ rows'[x] = rows[x] /\ rows'[x] # None
  BY <1>1, <1>6 DEF Exists
<1>9. \A x \in Entities : rows'[x] # None => x = e \/ Exists(x)
  BY <1>6 DEF Exists
<1>10. e[1] = t
  OBVIOUS
<1>11. PortsFit'
  <2> SUFFICES ASSUME NEW x \in Entities, rows'[x] # None, x[1] = "port"
               PROVE  /\ <<"service", rows'[x].of>> \in Entities
                      /\ rows'[<<"service", rows'[x].of>>] # None
                      /\ rows'[x].owner \in Sources
                      /\ rows'[<<"service", rows'[x].of>>].owner = rows'[x].owner
    BY DEF PortsFit, Exists
  <2>1. CASE x = e
    <3>1. t = "port" /\ rows'[x].of = of /\ rows'[x].owner = owner
      BY <2>1, <1>4, <1>6, <1>10
    <3> QED BY <3>1, <1>8
  <2>2. CASE x # e
    <3>1. Exists(x) /\ rows'[x] = rows[x]
      BY <2>2, <1>6, <1>9
    <3>2. /\ <<"service", rows[x].of>> \in Entities
          /\ Exists(<<"service", rows[x].of>>)
          /\ rows[x].owner \in Sources
          /\ rows[<<"service", rows[x].of>>].owner = rows[x].owner
      BY <3>1 DEF MetadataInv, PortsFit
    <3> QED BY <3>1, <3>2, <1>8
  <2> QED BY <2>1, <2>2
<1>12. ServicesFit'
  <2> SUFFICES ASSUME NEW x \in Entities, rows'[x] # None, x[1] = "service",
                      rows'[x].owner \in Sources, rows'[x].of # 0
               PROVE  /\ <<"host", rows'[x].of>> \in Entities
                      /\ rows'[<<"host", rows'[x].of>>] # None
                      /\ rows'[<<"host", rows'[x].of>>].owner = rows'[x].owner
    BY DEF ServicesFit, Exists
  <2>1. CASE x = e
    <3>1. t = "service" /\ rows'[x].of = of /\ rows'[x].owner = owner
      BY <2>1, <1>4, <1>6, <1>10
    <3> QED BY <3>1, <1>8
  <2>2. CASE x # e
    <3>1. Exists(x) /\ rows'[x] = rows[x]
      BY <2>2, <1>6, <1>9
    <3>2. /\ <<"host", rows[x].of>> \in Entities
          /\ Exists(<<"host", rows[x].of>>)
          /\ rows[<<"host", rows[x].of>>].owner = rows[x].owner
      BY <3>1 DEF MetadataInv, ServicesFit
    <3> QED BY <3>1, <3>2, <1>8
  <2> QED BY <2>1, <2>2
<1> QED BY <1>1, <1>3, <1>4, <1>6, <1>7, <1>11, <1>12

(* When rows are deleted, with what the foreign keys make of it, the others still fit. *)
LEMMA DeletedFits ==
  ASSUME MetadataInv, NEW S \in SUBSET Entities, rows' = Without(S)
  PROVE  /\ rows' \in [Entities -> Row \cup {None}]
         /\ \A e \in Entities : /\ rows'[e] # None <=> Exists(e) /\ e \notin WithPorts(S)
                                /\ rows'[e] # None => rows'[e].born = rows[e].born
         /\ PortsFit' /\ ServicesFit'
<1>1. /\ WithPorts(S) \subseteq Entities
      /\ S \subseteq WithPorts(S)
      /\ rows' \in [Entities -> Row \cup {None}]
      /\ \A e \in WithPorts(S) : rows'[e] = None
      /\ \A e \in Entities \ WithPorts(S) :
           /\ rows'[e] # None <=> Exists(e)
           /\ Exists(e) => /\ rows'[e].born = rows[e].born
                           /\ rows'[e].owner = rows[e].owner
                           /\ rows'[e].of =
                                IF e[1] = "service" /\ <<"host", rows[e].of>> \in S
                                THEN 0 ELSE rows[e].of
  BY WithoutIs DEF MetadataInv
<1>2. \A e \in Entities : rows'[e] # None <=> Exists(e) /\ e \notin WithPorts(S)
  BY <1>1 DEF Exists
<1>3. \A e \in Entities : e[1] # "port" /\ e \in WithPorts(S) => e \in S
  BY DEF WithPorts, Children
<1>4. PortsFit'
  <2> SUFFICES ASSUME NEW x \in Entities, rows'[x] # None, x[1] = "port"
               PROVE  /\ <<"service", rows'[x].of>> \in Entities
                      /\ rows'[<<"service", rows'[x].of>>] # None
                      /\ rows'[x].owner \in Sources
                      /\ rows'[<<"service", rows'[x].of>>].owner = rows'[x].owner
    BY DEF PortsFit, Exists
  <2>1. Exists(x) /\ x \notin WithPorts(S) /\ rows'[x].of = rows[x].of
        /\ rows'[x].owner = rows[x].owner
    BY <1>1, <1>2
  <2> DEFINE s == <<"service", rows[x].of>>
  <2>2. /\ s \in Entities /\ Exists(s) /\ rows[x].owner \in Sources
        /\ rows[s].owner = rows[x].owner
    BY <2>1 DEF MetadataInv, PortsFit
  <2>3. s[1] = "service" /\ s[2] = rows[x].of
    OBVIOUS
  <2> HIDE DEF s
  <2>4. s \notin WithPorts(S)
    <3> SUFFICES ASSUME s \in WithPorts(S)
                 PROVE  FALSE
      OBVIOUS
    <3>1. s \in S
      BY <1>3, <2>2, <2>3
    <3>2. x \in Children("port", s)
      BY <2>1, <2>3 DEF Children
    <3>3. x \in WithPorts(S)
      BY <3>1, <3>2, <2>2, <2>3 DEF WithPorts
    <3> QED BY <3>3, <2>1
  <2>5. rows'[s] # None /\ rows'[s].owner = rows[s].owner
    BY <1>1, <1>2, <2>2, <2>4
  <2> QED BY <2>1, <2>2, <2>5 DEF s
<1>5. ServicesFit'
  <2> SUFFICES ASSUME NEW x \in Entities, rows'[x] # None, x[1] = "service",
                      rows'[x].owner \in Sources, rows'[x].of # 0
               PROVE  /\ <<"host", rows'[x].of>> \in Entities
                      /\ rows'[<<"host", rows'[x].of>>] # None
                      /\ rows'[<<"host", rows'[x].of>>].owner = rows'[x].owner
    BY DEF ServicesFit, Exists
  <2>1. Exists(x) /\ rows'[x].owner = rows[x].owner /\ x \notin WithPorts(S)
    BY <1>1, <1>2
  <2> DEFINE h == <<"host", rows[x].of>>
  <2>2. h \notin S /\ rows'[x].of = rows[x].of
    BY <1>1, <2>1
  <2>3. h \in Entities /\ Exists(h) /\ rows[h].owner = rows[x].owner
    BY <2>1, <2>2 DEF MetadataInv, ServicesFit
  <2>4. h[1] # "port"
    OBVIOUS
  <2> HIDE DEF h
  <2>5. h \notin WithPorts(S)
    BY <1>3, <2>2, <2>3, <2>4
  <2>6. rows'[h] # None /\ rows'[h].owner = rows[h].owner
    BY <1>1, <1>2, <2>3, <2>5
  <2> QED BY <2>1, <2>2, <2>3, <2>6 DEF h
<1> QED BY <1>1, <1>2, <1>4, <1>5

-----------------------------------------------------------------------------

LEMMA InitInv == Init => MetadataInv
<1> SUFFICES ASSUME Init
             PROVE  MetadataInv
  OBVIOUS
<1>1. \A e \in Entities : ~Exists(e)
  BY DEF Init, Exists
<1>2. Closed \in [at : Stages, of : Entities \cup {None}, born : 0..MaxBorn,
                  saw : SUBSET (1..MaxBorn)]
  BY BoundsAssumption DEF Closed, Stages
<1>3. TypesFit
  BY <1>2, BoundsAssumption DEF Init, TypesFit
<1>4. GhostsAreLeftovers
  BY DEF Init, GhostsAreLeftovers
<1>5. PagesAreCurrent /\ PageIsConsistent
  BY DEF Init, PagesAreCurrent, PageIsConsistent, Closed
<1> QED BY <1>1, <1>3, <1>4, <1>5
        DEF MetadataInv, PortsFit, ServicesFit, MetadataIsOwn, RefusedOverLeftovers, Init

(* What a page is kept for when rows come and go under it. *)
LEMMA PagesStay ==
  ASSUME MetadataInv, page' = page, leftovers \subseteq leftovers', overtaken \subseteq overtaken',
         \A e \in Entities :
           rows'[e] # None =>
             \/ Exists(e) /\ rows'[e].born = rows[e].born
             \/ \A r \in Pages : page[r].of = e => <<e, page[r].born>> \in overtaken'
  PROVE  PagesAreCurrent' /\ PageIsConsistent'
<1>1. PageIsConsistent'
  BY DEF MetadataInv, PageIsConsistent, Strays
<1>2. PagesAreCurrent'
  <2> SUFFICES ASSUME NEW r \in Pages, page[r].at # "closed"
               PROVE  /\ page[r].of \in Entities
                      /\ page[r].born \in 1..MaxBorn
                      /\ rows'[page[r].of] # None =>
                           rows'[page[r].of].born = page[r].born
                             \/ <<page[r].of, page[r].born>> \in overtaken'
    BY DEF PagesAreCurrent, Exists
  <2>1. /\ page[r].of \in Entities
        /\ page[r].born \in 1..MaxBorn
        /\ Exists(page[r].of) => rows[page[r].of].born = page[r].born
                                 \/ <<page[r].of, page[r].born>> \in overtaken
    BY DEF MetadataInv, PagesAreCurrent
  <2> QED BY <2>1
<1> QED BY <1>1, <1>2

(* Rows that go with what they had recorded, while metadata stays. *)
LEMMA Departure ==
  ASSUME MetadataInv, NEW G, G \subseteq Entities, Leave(G),
         UNCHANGED <<meta, page, born, overtaken, refused>>,
         rows' \in [Entities -> Row \cup {None}], PortsFit', ServicesFit',
         \A e \in Entities : /\ rows'[e] # None => Exists(e) /\ rows'[e].born = rows[e].born
                             /\ Exists(e) /\ rows'[e] = None => e \in G
  PROVE  MetadataInv'
<1>1. TypesFit'
  BY DEF MetadataInv, TypesFit
<1>2. /\ leftovers \subseteq leftovers' /\ Strays \subseteq Strays'
      /\ \A e \in G : Has(e) # {} => <<e, rows[e].born>> \in leftovers'
  BY DEF Leave, Strays
<1>3. GhostsAreLeftovers'
  <2> SUFFICES ASSUME NEW e \in Entities, NEW p \in Parts, rows'[e] = None, meta[p][e] # {}
               PROVE  /\ \A b \in meta[p][e] : b = Blank \/ <<e, b>> \in Strays'
                      /\ \E b \in 1..MaxBorn : <<e, b>> \in leftovers'
    BY DEF GhostsAreLeftovers, Exists
  <2>1. CASE Exists(e)
    <3>1. e \in G /\ p \in Has(e)
      BY <2>1 DEF Has
    <3>2. rows[e].born \in 1..MaxBorn /\ <<e, rows[e].born>> \in leftovers'
      BY <2>1, <3>1, <1>2, RowFields DEF MetadataInv
    <3>3. \A b \in meta[p][e] : b \in {Blank, rows[e].born} \/ <<e, b>> \in Strays
      BY <2>1 DEF MetadataInv, MetadataIsOwn
    <3> QED BY <3>2, <3>3, <1>2 DEF Strays
  <2>2. CASE ~Exists(e)
    BY <2>2, <1>2 DEF MetadataInv, GhostsAreLeftovers
  <2> QED BY <2>1, <2>2
<1>4. PagesAreCurrent' /\ PageIsConsistent'
  BY <1>2, PagesStay
<1>5. MetadataIsOwn'
  BY <1>2 DEF MetadataInv, MetadataIsOwn, Exists
<1>6. RefusedOverLeftovers'
  BY <1>2 DEF MetadataInv, RefusedOverLeftovers
<1> QED BY <1>1, <1>3, <1>4, <1>5, <1>6 DEF MetadataInv

LEMMA PurgeStep ==
  ASSUME MetadataInv, NEW S \in SUBSET Entities, PurgeGone(S)
  PROVE  MetadataInv'
<1>1. rows' = Without(S) /\ Leave(WithPorts(S)) /\ WithPorts(S) \subseteq Entities
  BY WithoutIs DEF PurgeGone, MetadataInv
<1>2. /\ rows' \in [Entities -> Row \cup {None}]
      /\ \A e \in Entities : /\ rows'[e] # None <=> Exists(e) /\ e \notin WithPorts(S)
                             /\ rows'[e] # None => rows'[e].born = rows[e].born
      /\ PortsFit' /\ ServicesFit'
  BY <1>1, DeletedFits
<1>3. UNCHANGED <<meta, page, born, overtaken, refused>>
  BY DEF PurgeGone
<1> QED BY <1>1, <1>2, <1>3, Departure

LEMMA ClosePortStep ==
  ASSUME MetadataInv, NEW e \in Entities, ClosePort(e)
  PROVE  MetadataInv'
<1>1. rows' = Without({e}) /\ Leave({e})
  BY DEF ClosePort
<1>2. WithPorts({e}) = {e}
  BY DEF WithPorts, Children, ClosePort, Entities
<1>3. /\ rows' \in [Entities -> Row \cup {None}]
      /\ \A x \in Entities : /\ rows'[x] # None <=> Exists(x) /\ x \notin WithPorts({e})
                             /\ rows'[x] # None => rows'[x].born = rows[x].born
      /\ PortsFit' /\ ServicesFit'
  BY <1>1, DeletedFits
<1>4. UNCHANGED <<meta, page, born, overtaken, refused>>
  BY DEF ClosePort
<1> QED BY <1>1, <1>2, <1>3, <1>4, Departure

LEMMA DeleteSourceStep ==
  ASSUME MetadataInv, NEW c \in Sources, DeleteSource(c)
  PROVE  MetadataInv'
<1> DEFINE owned == {e \in Entities : Exists(e) /\ rows[e].owner = c}
           ports == {e \in owned : e[1] = "port"}
<1>1. /\ DOMAIN rows' = Entities /\ rows' = [e \in Entities |-> rows'[e]]
      /\ \A e \in ports : rows'[e] = None
      /\ \A e \in owned \ ports : rows'[e] = [rows[e] EXCEPT !.owner = Orphan]
      /\ \A e \in Entities \ owned : rows'[e] = rows[e]
      /\ Leave(ports)
      /\ UNCHANGED <<meta, page, born, overtaken, refused>>
  BY DEF DeleteSource
<1>2. \A e \in owned : e \in Entities /\ Exists(e) /\ rows[e].owner = c
  OBVIOUS
<1>3. \A e \in Entities : Exists(e) /\ rows[e].owner = c => e \in owned
  OBVIOUS
<1>4. \A e \in ports : e \in owned /\ e[1] = "port"
  OBVIOUS
<1>5. \A e \in owned : e[1] = "port" => e \in ports
  OBVIOUS
<1>6. ports \subseteq Entities
  OBVIOUS
<1> HIDE DEF owned, ports
<1>7. ASSUME NEW e \in owned \ ports
      PROVE  /\ rows'[e] \in Row /\ rows'[e] # None
             /\ rows'[e].born = rows[e].born
             /\ rows'[e].owner = Orphan
             /\ rows'[e].of = rows[e].of
  <2>1. rows[e] \in Row
    BY <1>2, RowFields DEF MetadataInv
  <2>2. rows'[e] = [rows[e] EXCEPT !.owner = Orphan]
    BY <1>1
  <2>3. /\ rows'[e] \in Row
        /\ rows'[e].born = rows[e].born
        /\ rows'[e].owner = Orphan
        /\ rows'[e].of = rows[e].of
    BY <2>1, <2>2 DEF Row
  <2> QED BY <2>3, NoneAssumption
<1>8. rows \in [Entities -> Row \cup {None}]
  BY DEF MetadataInv, TypesFit
<1>9. \A e \in Entities : rows'[e] \in Row \cup {None}
  BY <1>1, <1>7, <1>8
<1>10. rows' \in [Entities -> Row \cup {None}]
  BY <1>1, <1>9, Zenon
<1>11. \A e \in Entities : /\ rows'[e] # None <=> Exists(e) /\ e \notin ports
                           /\ rows'[e] # None => /\ rows'[e].born = rows[e].born
                                                 /\ rows'[e].of = rows[e].of
  BY <1>1, <1>2, <1>4, <1>7 DEF Exists
<1>12. Orphan \notin Sources
  BY SourcesAssumption
<1>13. \A e \in Entities : rows'[e] # None /\ rows'[e].owner \in Sources
                             => e \notin owned /\ rows'[e] = rows[e]
  BY <1>1, <1>2, <1>7, <1>11, <1>12
<1>14. PortsFit'
  <2> SUFFICES ASSUME NEW x \in Entities, rows'[x] # None, x[1] = "port"
               PROVE  /\ <<"service", rows'[x].of>> \in Entities
                      /\ rows'[<<"service", rows'[x].of>>] # None
                      /\ rows'[x].owner \in Sources
                      /\ rows'[<<"service", rows'[x].of>>].owner = rows'[x].owner
    BY DEF PortsFit, Exists
  <2>1. Exists(x) /\ x \notin owned /\ rows'[x] = rows[x]
    BY <1>1, <1>5, <1>11
  <2> DEFINE s == <<"service", rows[x].of>>
  <2>2. s \in Entities /\ Exists(s) /\ rows[x].owner \in Sources /\ rows[s].owner = rows[x].owner
    BY <2>1 DEF MetadataInv, PortsFit
  <2> HIDE DEF s
  <2>3. s \notin owned
    BY <1>2, <1>3, <2>1, <2>2
  <2>4. rows'[s] = rows[s] /\ rows'[s] # None
    BY <1>1, <2>2, <2>3 DEF Exists
  <2> QED BY <2>1, <2>2, <2>4 DEF s
<1>15. ServicesFit'
  <2> SUFFICES ASSUME NEW x \in Entities, rows'[x] # None, x[1] = "service",
                      rows'[x].owner \in Sources, rows'[x].of # 0
               PROVE  /\ <<"host", rows'[x].of>> \in Entities
                      /\ rows'[<<"host", rows'[x].of>>] # None
                      /\ rows'[<<"host", rows'[x].of>>].owner = rows'[x].owner
    BY DEF ServicesFit, Exists
  <2>1. Exists(x) /\ x \notin owned /\ rows'[x] = rows[x]
    BY <1>11, <1>13
  <2> DEFINE h == <<"host", rows[x].of>>
  <2>2. h \in Entities /\ Exists(h) /\ rows[h].owner = rows[x].owner
    BY <2>1 DEF MetadataInv, ServicesFit
  <2> HIDE DEF h
  <2>3. h \notin owned
    BY <1>2, <1>3, <2>1, <2>2
  <2>4. rows'[h] = rows[h] /\ rows'[h] # None
    BY <1>1, <2>2, <2>3 DEF Exists
  <2> QED BY <2>1, <2>2, <2>4 DEF h
<1> QED BY <1>1, <1>6, <1>10, <1>11, <1>14, <1>15, Departure

(* What lies under an id that a new row got was left over. *)
LEMMA Arrival ==
  ASSUME MetadataInv, NEW e \in Entities, ~Exists(e), rows'[e] # None, rows'[e].born = born',
         born' \in 0..MaxBorn, rows' \in [Entities -> Row \cup {None}],
         \A x \in Entities : x # e => rows'[x] = rows[x],
         PortsFit', ServicesFit',
         overtaken' = overtaken \cup {<<e, page[r].born>> : r \in {q \in Pages : page[q].of = e}},
         UNCHANGED <<page, leftovers, refused>>,
         meta' \in [Parts -> [Entities -> SUBSET (0..MaxBorn)]],
         \A p \in Parts : /\ \A x \in Entities : x # e => meta'[p][x] = meta[p][x]
                          /\ meta'[p][e] \in {meta[p][e], meta[p][e] \cup {born'}}
  PROVE  MetadataInv'
<1>1. TypesFit'
  BY DEF MetadataInv, TypesFit
<1>0. overtaken \subseteq overtaken' /\ Strays \subseteq Strays'
  BY DEF Strays
<1>2. GhostsAreLeftovers'
  <2> SUFFICES ASSUME NEW x \in Entities, NEW p \in Parts, rows'[x] = None, meta'[p][x] # {}
               PROVE  /\ \A b \in meta'[p][x] : b = Blank \/ <<x, b>> \in Strays'
                      /\ \E b \in 1..MaxBorn : <<x, b>> \in leftovers
    BY DEF GhostsAreLeftovers, Exists
  <2>1. x # e /\ ~Exists(x) /\ meta'[p][x] = meta[p][x]
    BY DEF Exists
  <2> QED BY <2>1, <1>0 DEF MetadataInv, GhostsAreLeftovers
<1>3. PagesAreCurrent' /\ PageIsConsistent'
  <2>1. \A x \in Entities :
          rows'[x] # None =>
            \/ Exists(x) /\ rows'[x].born = rows[x].born
            \/ \A r \in Pages : page[r].of = x => <<x, page[r].born>> \in overtaken'
    BY DEF Exists
  <2> QED BY <2>1, <1>0, PagesStay
<1>4. MetadataIsOwn'
  <2> SUFFICES ASSUME NEW x \in Entities, NEW p \in Parts, rows'[x] # None, NEW b \in meta'[p][x]
               PROVE  b \in {Blank, rows'[x].born} \/ <<x, b>> \in Strays'
    BY DEF MetadataIsOwn, Exists
  <2>1. CASE x = e
    <3>1. b \in meta[p][e] \/ b = born'
      BY <2>1
    <3>2. b \in meta[p][e] => b = Blank \/ <<e, b>> \in Strays
      BY DEF MetadataInv, GhostsAreLeftovers
    <3> QED BY <2>1, <3>1, <3>2, <1>0
  <2>2. CASE x # e
    <3>1. Exists(x) /\ rows'[x] = rows[x] /\ b \in meta[p][x]
      BY <2>2 DEF Exists
    <3> QED BY <3>1, <1>0 DEF MetadataInv, MetadataIsOwn
  <2> QED BY <2>1, <2>2
<1>5. RefusedOverLeftovers'
  BY DEF MetadataInv, RefusedOverLeftovers
<1> QED BY <1>1, <1>2, <1>3, <1>4, <1>5 DEF MetadataInv

LEMMA DiscoverStep ==
  ASSUME MetadataInv, NEW c \in Sources, NEW t \in Types, NEW of \in 0..MaxId, Discover(c, t, of)
  PROVE  MetadataInv'
<1> DEFINE e == <<t, NextId(t)>>
           parent == <<Above[t], of>>
<1>1. File(e, c, of) /\ UNCHANGED <<meta, page, leftovers, refused>>
  BY DEF Discover
<1>2. (of = 0 => t # "port") /\ (of # 0 => parent \in Entities /\ Owner(parent) = c)
  BY DEF Discover
<1>3. of # 0 => Exists(parent) /\ rows[parent].owner = c
  BY <1>2, NoneAssumption DEF Owner
<1>4. t = "port" => /\ <<"service", of>> \in Entities
                    /\ Exists(<<"service", of>>)
                    /\ rows[<<"service", of>>].owner = c
  BY <1>2, <1>3 DEF Above
<1>5. t = "service" /\ of # 0 => /\ <<"host", of>> \in Entities
                                 /\ Exists(<<"host", of>>)
                                 /\ rows[<<"host", of>>].owner = c
  BY <1>2, <1>3 DEF Above
<1>6. overtaken' = overtaken \cup {<<e, page[r].born>> : r \in {q \in Pages : page[q].of = e}}
  BY <1>1 DEF File
<1>7. e = <<t, NextId(t)>>
  OBVIOUS
<1> HIDE DEF e, parent
<1>8. /\ e \in Entities /\ ~Exists(e) /\ rows'[e] # None
      /\ rows' \in [Entities -> Row \cup {None}]
      /\ born' \in 1..MaxBorn
      /\ rows'[e].born = born'
      /\ \A x \in Entities : x # e => rows'[x] = rows[x]
      /\ PortsFit' /\ ServicesFit'
  BY <1>1, <1>4, <1>5, <1>7, FiledFits
<1>9. meta' \in [Parts -> [Entities -> SUBSET (0..MaxBorn)]]
  BY <1>1 DEF MetadataInv, TypesFit
<1>10. born' \in 0..MaxBorn
  BY <1>8, BoundsAssumption
<1> QED BY <1>1, <1>6, <1>8, <1>9, <1>10, Arrival

LEMMA CreateManualStep ==
  ASSUME MetadataInv, NEW t \in Types, NEW of \in 0..MaxId, NEW parts \in SUBSET Parts,
         NEW clash \in SUBSET Parts, CreateManual(t, of, parts, clash)
  PROVE  /\ MetadataInv'
         /\ \A e \in Entities, p \in Parts : Exists(e) => meta'[p][e] = meta[p][e]
<1> DEFINE e == <<t, NextId(t)>>
<1>1. t # "port" /\ (of # 0 => t = "service" /\ Exists(<<"host", of>>)) /\ e \in Entities
  BY DEF CreateManual
<1>2. e = <<t, NextId(t)>> /\ UNCHANGED <<page, leftovers>>
  BY DEF CreateManual
<1>3. ~Exists(e)
  BY <1>1, NextIdIsFree, BoundsAssumption DEF Entities
<1>4. meta \in [Parts -> [Entities -> SUBSET (0..MaxBorn)]]
  BY DEF MetadataInv, TypesFit
<1>5. \/ /\ File(e, "manual", of)
         /\ meta' = [p \in Parts |-> IF p \in parts THEN [meta[p] EXCEPT ![e] = @ \cup {born + 1}]
                                                    ELSE meta[p]]
         /\ UNCHANGED refused
      \/ /\ parts \cap Has(e) # {}
         /\ refused' = refused \cup {e}
         /\ UNCHANGED <<rows, meta, born, overtaken>>
  BY DEF CreateManual
<1> HIDE DEF e
<1>6. CASE /\ File(e, "manual", of)
           /\ meta' = [p \in Parts |-> IF p \in parts THEN [meta[p] EXCEPT ![e] = @ \cup {born + 1}]
                                                      ELSE meta[p]]
           /\ UNCHANGED refused
  <2>1. "manual" \notin Sources
    BY SourcesAssumption
  <2>2. /\ rows'[e] # None
        /\ rows' \in [Entities -> Row \cup {None}]
        /\ born' \in 1..MaxBorn
        /\ rows'[e].born = born'
        /\ \A x \in Entities : x # e => rows'[x] = rows[x]
        /\ PortsFit' /\ ServicesFit'
    <3> DEFINE owner == "manual"
    <3>1. owner \in Sources \cup {"manual"} /\ owner \notin Sources /\ File(e, owner, of)
      BY <1>6, <2>1
    <3> HIDE DEF owner
    <3>2. t = "port" => /\ owner \in Sources
                        /\ <<"service", of>> \in Entities
                        /\ Exists(<<"service", of>>)
                        /\ rows[<<"service", of>>].owner = owner
      BY <1>1
    <3>3. t = "service" /\ owner \in Sources /\ of # 0 =>
            /\ <<"host", of>> \in Entities
            /\ Exists(<<"host", of>>)
            /\ rows[<<"host", of>>].owner = owner
      BY <3>1
    <3>4. e = <<t, NextId(t)>>
      BY <1>2
    <3> QED BY <3>1, <3>2, <3>3, <3>4, FiledFits
  <2>3. /\ overtaken' = overtaken \cup {<<e, page[r].born>> : r \in {q \in Pages : page[q].of = e}}
        /\ born' = born + 1
    BY <1>6 DEF File
  <2>4. born' \in 0..MaxBorn
    BY <2>2, BoundsAssumption
  <2>5. meta' = [p \in Parts |-> IF p \in parts THEN [meta[p] EXCEPT ![e] = @ \cup {born'}]
                                                ELSE meta[p]]
    BY <1>6, <2>3
  <2>6. ASSUME NEW p \in Parts
        PROVE  /\ meta'[p] \in [Entities -> SUBSET (0..MaxBorn)]
               /\ \A x \in Entities : x # e => meta'[p][x] = meta[p][x]
               /\ meta'[p][e] \in {meta[p][e], meta[p][e] \cup {born'}}
    <3>1. CASE p \in parts
      <4>1. meta'[p] = [meta[p] EXCEPT ![e] = @ \cup {born'}] /\ meta[p] \in [Entities -> SUBSET (0..MaxBorn)]
        BY <3>1, <2>5, <1>4
      <4> QED BY <4>1, <2>4, <1>1
    <3>2. CASE p \notin parts
      BY <3>2, <2>5, <1>4
    <3> QED BY <3>1, <3>2
  <2>7. meta' \in [Parts -> [Entities -> SUBSET (0..MaxBorn)]]
    BY <2>5, <2>6
  <2>8. MetadataInv'
    BY <1>1, <1>2, <1>3, <1>6, <2>2, <2>3, <2>4, <2>6, <2>7, Arrival
  <2> QED BY <2>6, <2>8, <1>3
<1>7. CASE /\ parts \cap Has(e) # {}
           /\ refused' = refused \cup {e}
           /\ UNCHANGED <<rows, meta, born, overtaken>>
  <2>1. \E b \in 1..MaxBorn : <<e, b>> \in leftovers
    <3>1. PICK p \in Parts : meta[p][e] # {}
      BY <1>7 DEF Has
    <3> QED BY <3>1, <1>1, <1>3 DEF MetadataInv, GhostsAreLeftovers
  <2>2. RefusedOverLeftovers'
    BY <1>2, <1>7, <2>1 DEF MetadataInv, RefusedOverLeftovers
  <2>3. MetadataInv'
    BY <1>2, <1>7, <2>2 DEF MetadataInv, TypesFit, PortsFit, ServicesFit, GhostsAreLeftovers,
         PagesAreCurrent, MetadataIsOwn, PageIsConsistent, Exists, Strays
  <2> QED BY <2>3, <1>7
<1> QED BY <1>5, <1>6, <1>7

LEMMA DeleteManualStep ==
  ASSUME MetadataInv, NEW e \in Entities, NEW kept \in SUBSET Parts, DeleteManual(e, kept)
  PROVE  /\ MetadataInv'
         /\ rows'[e] = None
         /\ \A x \in Entities, p \in Parts : x # e => meta'[p][x] = meta[p][x]
<1>1. /\ Exists(e) /\ rows[e].owner = "manual" /\ rows' = Without({e})
      /\ meta' = [p \in Parts |-> IF p \in kept THEN meta[p] ELSE [meta[p] EXCEPT ![e] = {}]]
      /\ leftovers' = leftovers \cup (IF kept = {} THEN {} ELSE {<<e, rows[e].born>>})
      /\ UNCHANGED <<page, born, overtaken, refused>>
  BY DEF DeleteManual
<1>2. "manual" \notin Sources
  BY SourcesAssumption
<1>3. WithPorts({e}) = {e}
  <2> SUFFICES ASSUME NEW s \in Entities, s[1] = "service", Exists(s),
                      s = e \/ <<"host", rows[s].of>> = e,
                      NEW x \in Children("port", s)
               PROVE  FALSE
    BY DEF WithPorts
  <2>1. x \in Entities /\ x[1] = "port" /\ Exists(x) /\ rows[x].of = s[2]
    BY DEF Children
  <2>2. s = <<"service", rows[x].of>>
    BY <2>1 DEF Entities
  <2>3. rows[x].owner \in Sources /\ rows[s].owner = rows[x].owner
    BY <2>1, <2>2 DEF MetadataInv, PortsFit
  <2>4. CASE s = e
    BY <2>3, <2>4, <1>1, <1>2
  <2>5. CASE <<"host", rows[s].of>> = e
    <3>1. rows[s].of # 0
      BY <2>5, BoundsAssumption DEF Entities
    <3>2. rows[e].owner = rows[s].owner
      BY <2>3, <2>5, <3>1 DEF MetadataInv, ServicesFit
    <3> QED BY <3>2, <2>3, <1>1, <1>2
  <2> QED BY <2>4, <2>5
<1>4. /\ rows' \in [Entities -> Row \cup {None}]
      /\ \A x \in Entities : /\ rows'[x] # None <=> Exists(x) /\ x # e
                             /\ rows'[x] # None => rows'[x].born = rows[x].born
      /\ PortsFit' /\ ServicesFit'
  BY <1>1, <1>3, DeletedFits
<1>5. meta \in [Parts -> [Entities -> SUBSET (0..MaxBorn)]]
  BY DEF MetadataInv, TypesFit
<1>6. leftovers \subseteq leftovers' /\ Strays \subseteq Strays'
  BY <1>1 DEF Strays
<1>7. ASSUME NEW p \in Parts
      PROVE  /\ meta'[p] \in [Entities -> SUBSET (0..MaxBorn)]
             /\ \A x \in Entities : x # e => meta'[p][x] = meta[p][x]
             /\ meta'[p][e] # {} => p \in kept /\ meta'[p][e] = meta[p][e]
  <2>1. CASE p \in kept
    BY <2>1, <1>1, <1>5
  <2>2. CASE p \notin kept
    <3>1. meta'[p] = [meta[p] EXCEPT ![e] = {}] /\ meta[p] \in [Entities -> SUBSET (0..MaxBorn)]
      BY <2>2, <1>1, <1>5
    <3> QED BY <3>1
  <2> QED BY <2>1, <2>2
<1>8. meta' \in [Parts -> [Entities -> SUBSET (0..MaxBorn)]]
  BY <1>1, <1>7
<1>9. TypesFit'
  BY <1>1, <1>4, <1>8 DEF MetadataInv, TypesFit
<1>10. GhostsAreLeftovers'
  <2> SUFFICES ASSUME NEW x \in Entities, NEW p \in Parts, rows'[x] = None, meta'[p][x] # {}
               PROVE  /\ \A b \in meta'[p][x] : b = Blank \/ <<x, b>> \in Strays'
                      /\ \E b \in 1..MaxBorn : <<x, b>> \in leftovers'
    BY DEF GhostsAreLeftovers, Exists
  <2>1. CASE x = e
    <3>1. kept # {} /\ meta'[p][e] = meta[p][e]
      BY <2>1, <1>7
    <3>2. rows[e].born \in 1..MaxBorn
      BY <1>1, RowFields DEF MetadataInv
    <3>3. <<e, rows[e].born>> \in leftovers'
      BY <3>1, <1>1
    <3>4. \A b \in meta[p][e] : b \in {Blank, rows[e].born} \/ <<e, b>> \in Strays
      BY <1>1 DEF MetadataInv, MetadataIsOwn
    <3> QED BY <2>1, <3>1, <3>2, <3>3, <3>4, <1>6 DEF Strays
  <2>2. CASE x # e
    <3>1. ~Exists(x) /\ meta'[p][x] = meta[p][x]
      BY <2>2, <1>4, <1>7
    <3> QED BY <3>1, <1>6 DEF MetadataInv, GhostsAreLeftovers
  <2> QED BY <2>1, <2>2
<1>11. PagesAreCurrent' /\ PageIsConsistent'
  BY <1>1, <1>4, <1>6, PagesStay
<1>12. MetadataIsOwn'
  <2> SUFFICES ASSUME NEW x \in Entities, NEW p \in Parts, rows'[x] # None, NEW b \in meta'[p][x]
               PROVE  b \in {Blank, rows'[x].born} \/ <<x, b>> \in Strays'
    BY DEF MetadataIsOwn, Exists
  <2>1. Exists(x) /\ x # e /\ rows'[x].born = rows[x].born /\ meta'[p][x] = meta[p][x]
    BY <1>4, <1>7
  <2> QED BY <2>1, <1>6 DEF MetadataInv, MetadataIsOwn
<1>13. RefusedOverLeftovers'
  BY <1>1, <1>6 DEF MetadataInv, RefusedOverLeftovers
<1> QED BY <1>4, <1>7, <1>9, <1>10, <1>11, <1>12, <1>13 DEF MetadataInv

LEMMA OpenPageStep ==
  ASSUME MetadataInv, NEW r \in Pages, NEW e \in Entities, OpenPage(r, e)
  PROVE  MetadataInv'
<1> DEFINE new == [at |-> "notes", of |-> e, born |-> rows[e].born, saw |-> {}]
<1>1. page' = [page EXCEPT ![r] = new] /\ Exists(e) /\ UNCHANGED <<rows, meta, born, history>>
  BY DEF OpenPage
<1>2. rows[e].born \in 1..MaxBorn
  BY <1>1, RowFields DEF MetadataInv
<1>3. new \in [at : Stages, of : Entities \cup {None}, born : 0..MaxBorn, saw : SUBSET (1..MaxBorn)]
  BY <1>2, BoundsAssumption DEF Stages
<1>4. new.of = e /\ new.born = rows[e].born /\ new.saw = {}
  OBVIOUS
<1> HIDE DEF new
<1>5. page'[r] = new /\ \A q \in Pages : q # r => page'[q] = page[q]
  BY <1>1 DEF MetadataInv, TypesFit
<1>6. TypesFit'
  BY <1>1, <1>3 DEF MetadataInv, TypesFit
<1>7. PagesAreCurrent'
  BY <1>1, <1>2, <1>4, <1>5 DEF MetadataInv, PagesAreCurrent, Exists, history
<1>8. PageIsConsistent'
  BY <1>1, <1>4, <1>5 DEF MetadataInv, PageIsConsistent, history, Strays
<1> QED BY <1>1, <1>6, <1>7, <1>8 DEF MetadataInv, PortsFit, ServicesFit, GhostsAreLeftovers,
      MetadataIsOwn, RefusedOverLeftovers, Exists, history, Strays

LEMMA ReadPartStep ==
  ASSUME MetadataInv, NEW r \in Pages, ReadPart(r)
  PROVE  MetadataInv'
<1> DEFINE p == page[r].at
           seen == meta[p][page[r].of] \ {Blank}
           old == page[r]
           new == [old EXCEPT !.at = Following[p], !.saw = @ \cup seen]
<1>1. p \in Parts /\ UNCHANGED <<rows, meta, born, history>>
      /\ page' = [page EXCEPT ![r].at = Following[p], ![r].saw = @ \cup seen]
  BY DEF ReadPart
<1>2. old \in [at : Stages, of : Entities \cup {None}, born : 0..MaxBorn, saw : SUBSET (1..MaxBorn)]
  BY DEF MetadataInv, TypesFit
<1>3. /\ old.of \in Entities /\ old.born \in 1..MaxBorn
      /\ Exists(old.of) => rows[old.of].born = old.born \/ <<old.of, old.born>> \in overtaken
  BY <1>1 DEF MetadataInv, PagesAreCurrent, Parts
<1>4. meta[p][old.of] \in SUBSET (0..MaxBorn)
  BY <1>1, <1>3 DEF MetadataInv, TypesFit
<1>5. seen \subseteq 1..MaxBorn
  BY <1>4, BoundsAssumption DEF Blank
<1>6. \/ \A b \in seen : b = old.born \/ <<old.of, b>> \in Strays
      \/ <<old.of, old.born>> \in overtaken
  <2>1. CASE Exists(old.of)
    <3>1. \A b \in meta[p][old.of] : b \in {Blank, rows[old.of].born} \/ <<old.of, b>> \in Strays
      BY <2>1, <1>1, <1>3 DEF MetadataInv, MetadataIsOwn
    <3> QED BY <2>1, <3>1, <1>3
  <2>2. CASE ~Exists(old.of)
    <3>1. meta[p][old.of] # {} => \A b \in meta[p][old.of] : b = Blank \/ <<old.of, b>> \in Strays
      BY <2>2, <1>1, <1>3 DEF MetadataInv, GhostsAreLeftovers
    <3> QED BY <3>1
  <2> QED BY <2>1, <2>2
<1>7. page' = [page EXCEPT ![r] = new]
  BY <1>1
<1>8. Following[p] \in Stages
  BY <1>1 DEF Following, Parts, Stages
<1> HIDE DEF seen
<1>9. /\ new \in [at : Stages, of : Entities \cup {None}, born : 0..MaxBorn, saw : SUBSET (1..MaxBorn)]
      /\ new.of = old.of /\ new.born = old.born /\ new.saw = old.saw \cup seen
  BY <1>2, <1>5, <1>8
<1> HIDE DEF new, old, p
<1>10. page'[r] = new /\ page[r] = old /\ \A q \in Pages : q # r => page'[q] = page[q]
  BY <1>7 DEF MetadataInv, TypesFit, old
<1>11. TypesFit'
  BY <1>1, <1>7, <1>9 DEF MetadataInv, TypesFit
<1>12. PagesAreCurrent'
  <2> SUFFICES ASSUME NEW q \in Pages, page'[q].at # "closed"
               PROVE  /\ page'[q].of \in Entities
                      /\ page'[q].born \in 1..MaxBorn
                      /\ rows[page'[q].of] # None =>
                           rows[page'[q].of].born = page'[q].born
                             \/ <<page'[q].of, page'[q].born>> \in overtaken
    BY <1>1 DEF PagesAreCurrent, Exists, history
  <2>1. CASE q = r
    BY <2>1, <1>3, <1>9, <1>10 DEF Exists
  <2>2. CASE q # r
    BY <2>2, <1>10 DEF MetadataInv, PagesAreCurrent, Exists
  <2> QED BY <2>1, <2>2
<1>13. PageIsConsistent'
  <2> SUFFICES ASSUME NEW q \in Pages
               PROVE  \/ \A b \in page'[q].saw : b = page'[q].born \/ <<page'[q].of, b>> \in Strays
                      \/ <<page'[q].of, page'[q].born>> \in overtaken
    BY <1>1 DEF PageIsConsistent, history, Strays
  <2>1. CASE q = r
    <3>1. \/ \A b \in old.saw : b = old.born \/ <<old.of, b>> \in Strays
          \/ <<old.of, old.born>> \in overtaken
      BY <1>10 DEF MetadataInv, PageIsConsistent
    <3> QED BY <3>1, <2>1, <1>6, <1>9, <1>10
  <2>2. CASE q # r
    BY <2>2, <1>10 DEF MetadataInv, PageIsConsistent
  <2> QED BY <2>1, <2>2
<1> QED BY <1>1, <1>11, <1>12, <1>13 DEF MetadataInv, PortsFit, ServicesFit, GhostsAreLeftovers,
      MetadataIsOwn, RefusedOverLeftovers, Exists, history, Strays

(* A page that closes is about nothing. *)
LEMMA PageCloses ==
  ASSUME TypesFit, PagesAreCurrent, PageIsConsistent, NEW r \in Pages,
         page' = [page EXCEPT ![r] = Closed], UNCHANGED <<rows, born, leftovers, overtaken>>
  PROVE  /\ page' \in [Pages -> [at : Stages, of : Entities \cup {None}, born : 0..MaxBorn,
                                 saw : SUBSET (1..MaxBorn)]]
         /\ PagesAreCurrent' /\ PageIsConsistent'
<1>1. Closed \in [at : Stages, of : Entities \cup {None}, born : 0..MaxBorn, saw : SUBSET (1..MaxBorn)]
  BY BoundsAssumption DEF Closed, Stages
<1>2. page'[r] = Closed /\ \A q \in Pages : q # r => page'[q] = page[q]
  BY DEF TypesFit
<1>3. Closed.at = "closed" /\ Closed.saw = {}
  BY DEF Closed
<1>4. page' \in [Pages -> [at : Stages, of : Entities \cup {None}, born : 0..MaxBorn,
                           saw : SUBSET (1..MaxBorn)]]
  BY <1>1 DEF TypesFit
<1>5. PagesAreCurrent'
  BY <1>2, <1>3 DEF PagesAreCurrent, Exists
<1>6. PageIsConsistent'
  BY <1>2, <1>3 DEF PageIsConsistent, Strays
<1> QED BY <1>4, <1>5, <1>6

LEMMA PatchStep ==
  ASSUME MetadataInv, NEW r \in Pages, NEW edit \in Edits, Patch(r, edit)
  PROVE  /\ MetadataInv'
         /\ page[r].at = "shown" /\ page'[r] = Closed
         /\ \A e \in Entities, p \in Parts : e # page[r].of => meta'[p][e] = meta[p][e]
<1> DEFINE e == page[r].of
<1>1. /\ page[r].at = "shown" /\ Exists(e)
      /\ meta' = [p \in Parts |->
           CASE edit[p] = "absent" -> meta[p]
             [] edit[p] = "set" -> [meta[p] EXCEPT ![e] = {page[r].born}]
             [] OTHER -> [meta[p] EXCEPT ![e] = IF p = "notes" THEN {Blank} ELSE {}]]
      /\ page' = [page EXCEPT ![r] = Closed]
      /\ UNCHANGED <<rows, born, history>>
  BY DEF Patch
<1>2. /\ e \in Entities /\ page[r].born \in 1..MaxBorn
      /\ rows[e].born = page[r].born \/ <<e, page[r].born>> \in overtaken
  BY <1>1 DEF MetadataInv, PagesAreCurrent
<1>3. meta \in [Parts -> [Entities -> SUBSET (0..MaxBorn)]]
  BY DEF MetadataInv, TypesFit
<1>4. {{Blank}, {}, {page[r].born}} \subseteq SUBSET (0..MaxBorn)
  BY <1>2, BoundsAssumption DEF Blank
<1> HIDE DEF e
<1>5. ASSUME NEW p \in Parts
      PROVE  /\ meta'[p] \in [Entities -> SUBSET (0..MaxBorn)]
             /\ \A x \in Entities : x # e => meta'[p][x] = meta[p][x]
             /\ meta'[p][e] \in {meta[p][e], {page[r].born}, {Blank}, {}}
  <2>1. PICK v \in {{page[r].born}, {Blank}, {}} : meta'[p] \in {meta[p], [meta[p] EXCEPT ![e] = v]}
    <3>1. CASE edit[p] = "absent"
      BY <3>1, <1>1
    <3>2. CASE edit[p] = "set"
      BY <3>2, <1>1
    <3>3. CASE edit[p] \notin {"absent", "set"}
      BY <3>3, <1>1
    <3> QED BY <3>1, <3>2, <3>3
  <2>2. meta[p] \in [Entities -> SUBSET (0..MaxBorn)] /\ v \in SUBSET (0..MaxBorn)
    BY <1>3, <1>4
  <2> QED BY <2>1, <2>2, <1>2
<1>6. meta' \in [Parts -> [Entities -> SUBSET (0..MaxBorn)]]
  BY <1>1, <1>5
<1>7. /\ page' \in [Pages -> [at : Stages, of : Entities \cup {None}, born : 0..MaxBorn,
                              saw : SUBSET (1..MaxBorn)]]
      /\ PagesAreCurrent' /\ PageIsConsistent'
  BY <1>1, PageCloses DEF MetadataInv, history
<1>8. TypesFit'
  BY <1>1, <1>6, <1>7 DEF MetadataInv, TypesFit
<1>9. GhostsAreLeftovers'
  BY <1>1, <1>5 DEF MetadataInv, GhostsAreLeftovers, Exists, history, Strays
<1>10. MetadataIsOwn'
  <2> SUFFICES ASSUME NEW x \in Entities, NEW p \in Parts, rows[x] # None,
                      NEW b \in meta'[p][x]
               PROVE  b \in {Blank, rows[x].born} \/ <<x, b>> \in Strays
    BY <1>1 DEF MetadataIsOwn, Exists, history, Strays
  <2>1. CASE x = e
    <3>1. b \in meta[p][e] \/ b = page[r].born \/ b = Blank
      BY <2>1, <1>5
    <3> QED BY <2>1, <3>1, <1>2 DEF MetadataInv, MetadataIsOwn, Exists, Strays
  <2>2. CASE x # e
    BY <2>2, <1>5 DEF MetadataInv, MetadataIsOwn, Exists
  <2> QED BY <2>1, <2>2
<1>11. page'[r] = Closed
  BY <1>1 DEF MetadataInv, TypesFit
<1>12. MetadataInv'
  BY <1>1, <1>7, <1>8, <1>9, <1>10 DEF MetadataInv, PortsFit, ServicesFit, RefusedOverLeftovers,
     Exists, history
<1> QED BY <1>1, <1>5, <1>11, <1>12 DEF e

LEMMA ClosePageStep ==
  ASSUME MetadataInv, NEW r \in Pages, ClosePage(r)
  PROVE  MetadataInv'
<1>1. /\ page' = [page EXCEPT ![r] = Closed]
      /\ UNCHANGED <<rows, meta, born, leftovers, overtaken, refused>>
  BY DEF ClosePage, history
<1>2. /\ page' \in [Pages -> [at : Stages, of : Entities \cup {None}, born : 0..MaxBorn,
                              saw : SUBSET (1..MaxBorn)]]
      /\ PagesAreCurrent' /\ PageIsConsistent'
  BY <1>1, PageCloses DEF MetadataInv
<1> QED BY <1>1, <1>2 DEF MetadataInv, TypesFit, PortsFit, ServicesFit, GhostsAreLeftovers,
      MetadataIsOwn, RefusedOverLeftovers, Exists, Strays

LEMMA StutterStep == ASSUME MetadataInv, UNCHANGED vars PROVE MetadataInv'
BY DEF vars, history, MetadataInv, TypesFit, PortsFit, ServicesFit, GhostsAreLeftovers,
   PagesAreCurrent, MetadataIsOwn, RefusedOverLeftovers, PageIsConsistent, Exists, Strays

LEMMA NextInv == MetadataInv /\ [Next]_vars => MetadataInv'
<1> SUFFICES ASSUME MetadataInv, [Next]_vars
             PROVE  MetadataInv'
  OBVIOUS
<1>1. ASSUME NEW c \in Sources, DeleteSource(c) PROVE MetadataInv'
  BY <1>1, DeleteSourceStep
<1>2. ASSUME NEW c \in Sources, NEW t \in Types, NEW of \in 0..MaxId, Discover(c, t, of)
      PROVE  MetadataInv'
  BY <1>2, DiscoverStep
<1>3. ASSUME NEW S \in SUBSET {e \in Entities : Exists(e)}, PurgeGone(S) PROVE MetadataInv'
  <2>1. S \in SUBSET Entities
    OBVIOUS
  <2> QED BY <2>1, <1>3, PurgeStep
<1>4. ASSUME NEW e \in Entities, ClosePort(e) PROVE MetadataInv'
  BY <1>4, ClosePortStep
<1>5. ASSUME NEW e \in Entities, NEW kept \in SUBSET Parts, DeleteManual(e, kept)
      PROVE  MetadataInv'
  BY <1>5, DeleteManualStep
<1>6. ASSUME NEW t \in Types, NEW of \in 0..MaxId, NEW parts \in SUBSET Parts,
             NEW clash \in SUBSET Parts, CreateManual(t, of, parts, clash)
      PROVE  MetadataInv'
  BY <1>6, CreateManualStep
<1>7. ASSUME NEW r \in Pages, NEW e \in Entities, OpenPage(r, e) PROVE MetadataInv'
  BY <1>7, OpenPageStep
<1>8. ASSUME NEW r \in Pages, ReadPart(r) PROVE MetadataInv'
  BY <1>8, ReadPartStep
<1>9. ASSUME NEW r \in Pages, NEW edit \in Edits, Patch(r, edit) PROVE MetadataInv'
  BY <1>9, PatchStep
<1>10. ASSUME NEW r \in Pages, ClosePage(r) PROVE MetadataInv'
  BY <1>10, ClosePageStep
<1>11. CASE UNCHANGED vars
  BY <1>11, StutterStep
<1> QED BY <1>1, <1>2, <1>3, <1>4, <1>5, <1>6, <1>7, <1>8, <1>9, <1>10, <1>11 DEF Next, NotFound

LEMMA SpecInv == Spec => []MetadataInv
<1> QED BY InitInv, NextInv, PTL DEF Spec

(* An entity, and its page, carries of others only what strays left: entities that were    *)
(* purged, closed or deleted halfway, or are edited by a page open since before.  What was *)
(* deleted whole never shows up again; only leftovers refuse a manual entry.               *)
THEOREM MetadataIsApart == Spec => []MetadataStaysApart
<1>1. MetadataInv => MetadataStaysApart
  BY DEF MetadataInv, MetadataStaysApart, TypesFit, TypeOK, PortsFit
<1> QED BY <1>1, SpecInv, PTL

(* Whatever else happens to a row that stays, its metadata changes by an edit of its page. *)
THEOREM MetadataStays == Spec => MetadataSurvives
<1> DEFINE A == \A e \in Entities :
       Exists(e) /\ rows'[e] # None /\ (\E p \in Parts : meta'[p][e] # meta[p][e])
         => \E r \in Pages : page[r].of = e /\ page[r].at = "shown" /\ page'[r] = Closed
<1>1. MetadataInv /\ [Next]_vars => [A]_vars
  <2> SUFFICES ASSUME MetadataInv, Next,
                      NEW e \in Entities, Exists(e), rows'[e] # None,
                      NEW p \in Parts, meta'[p][e] # meta[p][e]
               PROVE  \E r \in Pages : page[r].of = e /\ page[r].at = "shown" /\ page'[r] = Closed
    OBVIOUS
  <2>1. ASSUME NEW x \in Entities, NEW kept \in SUBSET Parts, DeleteManual(x, kept)
        PROVE  FALSE
    BY <2>1, DeleteManualStep
  <2>2. ASSUME NEW t \in Types, NEW of \in 0..MaxId, NEW parts \in SUBSET Parts,
               NEW clash \in SUBSET Parts, CreateManual(t, of, parts, clash)
        PROVE  FALSE
    BY <2>2, CreateManualStep
  <2>3. ASSUME NEW r \in Pages, NEW edit \in Edits, Patch(r, edit)
        PROVE  page[r].of = e /\ page[r].at = "shown" /\ page'[r] = Closed
    BY <2>3, PatchStep
  <2>4. CASE UNCHANGED meta
    BY <2>4
  <2> QED BY <2>1, <2>2, <2>3, <2>4
          DEF Next, NotFound, vars, DeleteSource, Discover, PurgeGone, ClosePort, OpenPage, ReadPart,
              ClosePage
<1> QED BY <1>1, SpecInv, PTL DEF Spec, MetadataSurvives
=============================================================================
