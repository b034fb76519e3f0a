----------------------------- MODULE StartupProofs -----------------------------
(***************************************************************************)
(* That starts converge and keep what they find, for a board of any size   *)
(* that an older version left, with any number of deaths and of edits in   *)
(* between.  Each upgrade finishes its stage, undoes none before it, and    *)
(* is the identity where its stage is done; tables read back as the Board   *)
(* they were written from.  So what an uninterrupted start would make of    *)
(* the Board in memory (Rest), and of the tables if the process died now    *)
(* (Whole), stays the same at every step of a start and through its deaths. *)
(***************************************************************************)
EXTENDS Startup, WellFoundedInduction, TLAPS

-------------------------------------------------------------------------------
(* Boards and their parts. *)

Partial(S, T) == UNION {[D -> T] : D \in SUBSET S}
Boards == [items: Partial(Cards, Items), lines: SUBSET Cards,
           policies: Partial(StartPolicies, Texts \cup Paths), specs: Partial(Boxes, Specs),
           provs: Partial(ProviderKeys, Providers), app: SUBSET Material, seeds: SUBSET Seeds]

LEMMA PartialIs ==
  ASSUME NEW S, NEW T, NEW f
  PROVE  f \in Partial(S, T) <=> PartialOf(f, S, T)
  BY DEF Partial, PartialOf

LEMMA BoardIs ==
  ASSUME NEW b
  PROVE  IsBoard(b) <=> b \in Boards
<1>1. ASSUME IsBoard(b) PROVE b \in Boards
  <2>1. /\ b.items \in Partial(Cards, Items) /\ b.policies \in Partial(StartPolicies, Texts \cup Paths)
        /\ b.specs \in Partial(Boxes, Specs) /\ b.provs \in Partial(ProviderKeys, Providers)
    BY <1>1, PartialIs DEF IsBoard
  <2> QED
    BY <1>1, <2>1 DEF IsBoard, Boards
<1>2. ASSUME b \in Boards PROVE IsBoard(b)
  <2>1. /\ b.items \in Partial(Cards, Items) /\ b.policies \in Partial(StartPolicies, Texts \cup Paths)
        /\ b.specs \in Partial(Boxes, Specs) /\ b.provs \in Partial(ProviderKeys, Providers)
    BY <1>2 DEF Boards
  <2>2. /\ PartialOf(b.items, Cards, Items) /\ PartialOf(b.policies, StartPolicies, Texts \cup Paths)
        /\ PartialOf(b.specs, Boxes, Specs) /\ PartialOf(b.provs, ProviderKeys, Providers)
    BY <2>1, PartialIs
  <2> QED
    BY <1>2, <2>2 DEF IsBoard, Boards
<1> QED
  BY <1>1, <1>2

(* What there is to know of a board's tables. *)
LEMMA PartsOf ==
  ASSUME NEW b \in Boards
  PROVE  /\ b.items \in Partial(Cards, Items) /\ b.policies \in Partial(StartPolicies, Texts \cup Paths)
         /\ b.specs \in Partial(Boxes, Specs) /\ b.provs \in Partial(ProviderKeys, Providers)
         /\ b.lines \subseteq Cards /\ b.app \subseteq Material /\ b.seeds \subseteq Seeds
         /\ DOMAIN b.items \subseteq Cards /\ b.items \in [DOMAIN b.items -> Items]
         /\ DOMAIN b.policies \subseteq StartPolicies /\ b.policies \in [DOMAIN b.policies -> Texts \cup Paths]
         /\ DOMAIN b.specs \subseteq Boxes /\ b.specs \in [DOMAIN b.specs -> Specs]
         /\ DOMAIN b.provs \subseteq ProviderKeys /\ b.provs \in [DOMAIN b.provs -> Providers]
<1>1. /\ b.items \in Partial(Cards, Items) /\ b.policies \in Partial(StartPolicies, Texts \cup Paths)
      /\ b.specs \in Partial(Boxes, Specs) /\ b.provs \in Partial(ProviderKeys, Providers)
      /\ b.lines \subseteq Cards /\ b.app \subseteq Material /\ b.seeds \subseteq Seeds
  BY DEF Boards
<1> QED
  BY <1>1, PartialIs DEF PartialOf

LEMMA IntoPartial ==
  ASSUME NEW S, NEW T, NEW D \in SUBSET S, NEW f \in [D -> T]
  PROVE  f \in Partial(S, T)
  BY DEF Partial

LEMMA SameFunction ==
  ASSUME NEW S, NEW T, NEW f \in Partial(S, T), NEW g \in Partial(S, T),
         DOMAIN f = DOMAIN g, \A x \in DOMAIN f : f[x] = g[x]
  PROVE  f = g
<1>1. f \in [DOMAIN f -> T] /\ g \in [DOMAIN f -> T]
  BY PartialIs DEF PartialOf
<1> QED
  BY <1>1

LEMMA SameBoard ==
  ASSUME NEW b \in Boards, NEW z \in Boards,
         b.items = z.items, b.lines = z.lines, b.policies = z.policies, b.specs = z.specs,
         b.provs = z.provs, b.app = z.app, b.seeds = z.seeds
  PROVE  b = z
  BY DEF Boards

(* A table with another under it, with one more row, and with fewer. *)
Joins(h, f, g, S, T) ==
  /\ h \in Partial(S, T) /\ DOMAIN h = DOMAIN f \cup DOMAIN g
  /\ \A x \in DOMAIN f : h[x] = f[x]
  /\ \A x \in DOMAIN g \ DOMAIN f : h[x] = g[x]
Admits(h, f, x, v, S, T) ==
  /\ h \in Partial(S, T) /\ DOMAIN h = DOMAIN f \cup {x}
  /\ h[x] = v /\ \A y \in DOMAIN f \ {x} : h[y] = f[y]
Drops(h, f, D, S, T) ==
  /\ h \in Partial(S, T) /\ DOMAIN h = DOMAIN f \ D
  /\ \A y \in DOMAIN f \ D : h[y] = f[y]

LEMMA OverIs ==
  ASSUME NEW S, NEW T, NEW f \in Partial(S, T), NEW g \in Partial(S, T)
  PROVE  Joins(Over(f, g), f, g, S, T)
<1>1. /\ DOMAIN f \subseteq S /\ f \in [DOMAIN f -> T] /\ DOMAIN g \subseteq S /\ g \in [DOMAIN g -> T]
  BY PartialIs DEF PartialOf
<1>2. Over(f, g) \in [DOMAIN f \cup DOMAIN g -> T]
  BY <1>1 DEF Over
<1>3. Over(f, g) \in Partial(S, T)
  BY <1>1, <1>2, IntoPartial
<1> QED
  BY <1>3 DEF Over, Joins

LEMMA EnteredIs ==
  ASSUME NEW S, NEW T, NEW f \in Partial(S, T), NEW x \in S, NEW v \in T
  PROVE  Admits(Entered(f, x, v), f, x, v, S, T)
<1>1. PICK g : g = [y \in {x} |-> v]
  OBVIOUS
<1>2. g \in [{x} -> T] /\ {x} \in SUBSET S /\ DOMAIN g = {x} /\ g[x] = v
  BY <1>1
<1>3. g \in Partial(S, T)
  BY <1>2, IntoPartial
<1>4. Entered(f, x, v) = Over(g, f)
  BY <1>1 DEF Entered
<1>5. Joins(Over(g, f), g, f, S, T)
  BY <1>3, OverIs
<1> QED
  BY <1>2, <1>4, <1>5 DEF Joins, Admits

LEMMA LessIs ==
  ASSUME NEW S, NEW T, NEW f \in Partial(S, T), NEW D
  PROVE  Drops(Less(f, D), f, D, S, T)
<1>1. DOMAIN f \subseteq S /\ f \in [DOMAIN f -> T]
  BY PartialIs DEF PartialOf
<1>2. Less(f, D) \in [DOMAIN f \ D -> T] /\ DOMAIN f \ D \in SUBSET S
  BY <1>1 DEF Less, Restrict
<1> QED
  BY <1>2, IntoPartial DEF Less, Restrict, Drops

-------------------------------------------------------------------------------
(* What each step of a start makes of a board, field by field. *)

(* Of a card, all but what is said of its title, state and link. *)
SameCard(x, y) == x.parent = y.parent /\ x.needs = y.needs
Others(b, z, moved) ==
  /\ "items" \in moved \/ z.items = b.items
  /\ "lines" \in moved \/ z.lines = b.lines
  /\ "policies" \in moved \/ z.policies = b.policies
  /\ "specs" \in moved \/ z.specs = b.specs
  /\ "provs" \in moved \/ z.provs = b.provs
  /\ "app" \in moved \/ z.app = b.app
  /\ "seeds" \in moved \/ z.seeds = b.seeds

LEMMA WithItems ==
  ASSUME NEW b \in Boards, NEW f \in [DOMAIN b.items -> Items]
  PROVE  /\ [b EXCEPT !.items = f] \in Boards /\ [b EXCEPT !.items = f].items = f
         /\ Others(b, [b EXCEPT !.items = f], {"items"})
<1>1. f \in Partial(Cards, Items)
  BY PartsOf, IntoPartial
<1> QED
  BY <1>1 DEF Boards, Others

LEMMA SpecsIn ==
  ASSUME NEW b \in Boards, NEW f \in Partial(Boxes, Specs)
  PROVE  /\ [b EXCEPT !.specs = f] \in Boards /\ [b EXCEPT !.specs = f].specs = f
         /\ Others(b, [b EXCEPT !.specs = f], {"specs"})
  BY DEF Boards, Others

LEMMA WithPolicies ==
  ASSUME NEW b \in Boards, NEW f \in Partial(StartPolicies, Texts \cup Paths)
  PROVE  /\ [b EXCEPT !.policies = f] \in Boards /\ [b EXCEPT !.policies = f].policies = f
         /\ Others(b, [b EXCEPT !.policies = f], {"policies"})
  BY DEF Boards, Others

LEMMA SavedIs ==
  ASSUME NEW b \in Boards
  PROVE  /\ Saved(b) \in Boards /\ Others(b, Saved(b), {"items", "lines"})
         /\ Saved(b).lines = b.lines \cap DOMAIN b.items /\ DOMAIN Saved(b).items = DOMAIN b.items
         /\ \A i \in DOMAIN b.items :
              Saved(b).items[i] = [b.items[i] EXCEPT !.pr = IF b.items[i].pr = "legacy" THEN "none"
                                                             ELSE b.items[i].pr]
<1>1. PICK f : f = [i \in DOMAIN b.items |->
                      [b.items[i] EXCEPT !.pr = IF @ = "legacy" THEN "none" ELSE @]]
  OBVIOUS
<1>2. \A i \in DOMAIN b.items : b.items[i] \in Items
  BY PartsOf
<1>3. \A i \in DOMAIN b.items :
        /\ f[i] = [b.items[i] EXCEPT !.pr = IF b.items[i].pr = "legacy" THEN "none" ELSE b.items[i].pr]
        /\ f[i] \in Items
  BY <1>1, <1>2 DEF Items
<1>4. f \in [DOMAIN b.items -> Items] /\ DOMAIN f = DOMAIN b.items
  BY <1>1, <1>3
<1>5. f \in Partial(Cards, Items) /\ b.lines \cap DOMAIN b.items \subseteq Cards
  BY <1>4, PartsOf, IntoPartial
<1>6. Saved(b) = [b EXCEPT !.items = f, !.lines = b.lines \cap DOMAIN b.items]
  BY <1>1 DEF Saved, Boards
<1>7. /\ Saved(b) \in Boards /\ Others(b, Saved(b), {"items", "lines"})
      /\ Saved(b).lines = b.lines \cap DOMAIN b.items /\ Saved(b).items = f
  BY <1>5, <1>6 DEF Boards, Others
<1> QED
  BY <1>3, <1>4, <1>7

LEMMA LoadedIs ==
  ASSUME NEW t, t.board \in Boards
  PROVE  /\ Loaded(t) \in Boards /\ Others(t.board, Loaded(t), {"items"})
         /\ DOMAIN Loaded(t).items = DOMAIN t.board.items
         /\ \A i \in DOMAIN t.board.items :
              Loaded(t).items[i] = [t.board.items[i] EXCEPT !.pr = IF t.board.items[i].pr = "legacy"
                                                                   THEN "listed" ELSE t.board.items[i].pr]
<1>1. PICK b \in Boards : b = t.board
  OBVIOUS
<1>2. PICK f : f = [i \in DOMAIN b.items |->
                      [b.items[i] EXCEPT !.pr = IF @ = "legacy" THEN "listed" ELSE @]]
  OBVIOUS
<1>3. \A i \in DOMAIN b.items : b.items[i] \in Items
  BY PartsOf
<1>4. \A i \in DOMAIN b.items :
        /\ f[i] = [b.items[i] EXCEPT !.pr = IF b.items[i].pr = "legacy" THEN "listed" ELSE b.items[i].pr]
        /\ f[i] \in Items
  BY <1>2, <1>3 DEF Items
<1>5. f \in [DOMAIN b.items -> Items] /\ DOMAIN f = DOMAIN b.items
  BY <1>2, <1>4
<1>6. Loaded(t) = [b EXCEPT !.items = f]
  BY <1>1, <1>2 DEF Loaded
<1>7. Loaded(t) \in Boards /\ Loaded(t).items = f /\ Others(b, Loaded(t), {"items"})
  BY <1>5, <1>6, WithItems
<1> QED
  BY <1>1, <1>4, <1>5, <1>7

Retitled(b, i) ==
  IF b.items[i].title = "legacy" /\ b.items[i].parent \in DOMAIN b.items THEN "plan" ELSE b.items[i].title
Restated(b, i) ==
  IF Retitled(b, i) \in {"legacy", "plan"} /\ b.items[i].state = "shaping" THEN "backlog"
  ELSE b.items[i].state

LEMMA HealedIs ==
  ASSUME NEW b \in Boards
  PROVE  /\ HealedItems(b) \in Boards /\ Others(b, HealedItems(b), {"items"})
         /\ DOMAIN HealedItems(b).items = DOMAIN b.items
         /\ \A i \in DOMAIN b.items :
              HealedItems(b).items[i] = [b.items[i] EXCEPT !.title = Retitled(b, i), !.state = Restated(b, i)]
<1>1. PICK f : f = [i \in DOMAIN b.items |->
                      [b.items[i] EXCEPT !.title = Retitled(b, i), !.state = Restated(b, i)]]
  OBVIOUS
<1>2. \A i \in DOMAIN b.items : b.items[i] \in Items
  BY PartsOf
<1>3. \A i \in DOMAIN b.items : f[i] \in Items
  BY <1>1, <1>2 DEF Items, Retitled, Restated
<1>4. f \in [DOMAIN b.items -> Items] /\ DOMAIN f = DOMAIN b.items
  BY <1>1, <1>3
<1>5. HealedItems(b) = [b EXCEPT !.items = f]
  <2>1. \A i \in DOMAIN b.items :
          [b.items[i] EXCEPT !.title = Retitled(b, i),
                             !.state = IF Retitled(b, i) \in {"legacy", "plan"} /\ @ = "shaping"
                                       THEN "backlog" ELSE @] = f[i]
    BY <1>1, <1>2 DEF Items, Restated
  <2> QED
    BY <1>4, <2>1 DEF HealedItems, Retitled
<1>6. HealedItems(b) \in Boards /\ HealedItems(b).items = f /\ Others(b, HealedItems(b), {"items"})
  BY <1>4, <1>5, WithItems
<1> QED
  BY <1>1, <1>4, <1>6

LEMMA InlinedIs ==
  ASSUME NEW b \in Boards
  PROVE  /\ Inlined(b) \in Boards /\ Others(b, Inlined(b), {"specs"})
         /\ DOMAIN Inlined(b).specs = DOMAIN b.specs
         /\ \A s \in DOMAIN b.specs :
              /\ Inlined(b).specs[s].policy = b.specs[s].policy
              /\ Inlined(b).specs[s].wants = b.specs[s].wants
              /\ Inlined(b).specs[s].inline = IF b.specs[s].inline \in DOMAIN Host
                                              THEN Host[b.specs[s].inline] ELSE b.specs[s].inline
<1>1. PICK f : f = [s \in DOMAIN b.specs |->
                      [b.specs[s] EXCEPT !.inline = IF @ \in DOMAIN Host THEN Host[@] ELSE @]]
  OBVIOUS
<1>2. \A s \in DOMAIN b.specs : b.specs[s] \in Specs
  BY PartsOf
<1>3. \A s \in DOMAIN b.specs :
        /\ f[s] \in Specs
        /\ f[s].policy = b.specs[s].policy /\ f[s].wants = b.specs[s].wants
        /\ f[s].inline = IF b.specs[s].inline \in DOMAIN Host
                         THEN Host[b.specs[s].inline] ELSE b.specs[s].inline
  BY <1>1, <1>2, TextsAssumption DEF Specs
<1>4. f \in [DOMAIN b.specs -> Specs] /\ DOMAIN f = DOMAIN b.specs
  BY <1>1, <1>3
<1>5. f \in Partial(Boxes, Specs)
  BY <1>4, PartsOf, IntoPartial
<1>6. Inlined(b) = [b EXCEPT !.specs = f]
  BY <1>1 DEF Inlined
<1>7. Inlined(b) \in Boards /\ Inlined(b).specs = f /\ Others(b, Inlined(b), {"specs"})
  BY <1>5, <1>6, SpecsIn
<1> QED
  BY <1>3, <1>4, <1>7

(* A number below a bound: the lowest of a set exists. *)
LEMMA OrderOfNat == IsWellFoundedOn({p \in Nat \X Nat : p[1] < p[2]}, Nat)
  BY NatLessThanWellFounded DEF OpToRel

LEMMA LowestIn ==
  ASSUME NEW S \in SUBSET Nat, S # {}
  PROVE  \E i \in S : \A k \in S : i <= k
<1> DEFINE R == {p \in Nat \X Nat : p[1] < p[2]}
<1>1. IsWellFoundedOn(R, Nat)
  BY OrderOfNat
<1>2. \E x \in S : \A y \in S : ~(<<y, x>> \in R)
  <2> HIDE DEF R
  <2>1. S \subseteq Nat /\ S # {}
    OBVIOUS
  <2> QED
    BY <1>1, <2>1, WFMin, Zenon
<1>3. PICK i \in S : \A k \in S : ~(<<k, i>> \in R)
  BY <1>2
<1>4. \A k \in S : i <= k
  <2> TAKE k \in S
  <2>1. i \in Nat /\ k \in Nat
    OBVIOUS
  <2>2. <<k, i>> \in R <=> k < i
    BY <2>1
  <2> QED
    BY <1>3, <2>1, <2>2
<1> QED
  BY <1>4

(* The id a spec's own policy gets is free, and no other spec's. *)
LEMMA FreeIdIs ==
  ASSUME NEW b \in Boards, Named(b), NEW s \in Pending(b)
  PROVE  /\ s \in Boxes /\ s \in DOMAIN b.specs /\ FreeId(b, s) \in Range(IdsFor[s])
         /\ FreeId(b, s) \in StartPolicies /\ FreeId(b, s) \notin DOMAIN b.policies
<1>1. /\ s \in DOMAIN b.specs /\ s \in Boxes
      /\ b.specs[s].policy = NoPolicy /\ b.specs[s].inline # NoText
  BY PartsOf DEF Pending
<1>2. PICK free : free = {k \in DOMAIN IdsFor[s] : IdsFor[s][k] \notin DOMAIN b.policies}
  OBVIOUS
<1>3. IdsFor[s] \in Seq(StartPolicies)
  BY <1>1, NamesAssumption
<1>4. free \in SUBSET Nat /\ free # {}
  BY <1>1, <1>2, <1>3 DEF Named
<1>5. \E k \in free : \A m \in free : k <= m
  BY <1>4, LowestIn
<1>6. PICK k : k = CHOOSE j \in free : \A m \in free : j <= m
  OBVIOUS
<1>7. k \in free
  BY <1>5, <1>6
<1>8. FreeId(b, s) = IdsFor[s][k]
  BY <1>2, <1>6 DEF FreeId
<1>9. k \in DOMAIN IdsFor[s] /\ IdsFor[s][k] \notin DOMAIN b.policies
  BY <1>2, <1>7
<1>10. IdsFor[s][k] \in Range(IdsFor[s])
  BY <1>9 DEF Range
<1> QED
  BY <1>1, <1>8, <1>9, <1>10 DEF StartPolicies

LEMMA FreeIdOwn ==
  ASSUME NEW b \in Boards, Named(b), NEW s \in Pending(b), NEW z \in Pending(b),
         FreeId(b, s) = FreeId(b, z)
  PROVE  s = z
  BY FreeIdIs, NamesAssumption

LEMMA CatalogedIs ==
  ASSUME NEW b \in Boards, Named(b)
  PROVE  /\ Cataloged(b) \in Boards /\ Others(b, Cataloged(b), {"policies", "specs"})
         /\ DOMAIN Cataloged(b).specs = DOMAIN b.specs
         /\ DOMAIN b.policies \subseteq DOMAIN Cataloged(b).policies
         /\ \A p \in DOMAIN b.policies : Cataloged(b).policies[p] = b.policies[p]
         /\ \A s \in DOMAIN b.specs : Cataloged(b).specs[s].wants = b.specs[s].wants
         /\ \A s \in DOMAIN b.specs \ Pending(b) : Cataloged(b).specs[s] = b.specs[s]
         /\ \A s \in Pending(b) :
              /\ s \in DOMAIN b.specs /\ Cataloged(b).specs[s].inline = NoText
              /\ Cataloged(b).specs[s].policy \in DOMAIN Cataloged(b).policies
              /\ Cataloged(b).specs[s].policy # NoPolicy
              /\ Cataloged(b).policies[Cataloged(b).specs[s].policy] = b.specs[s].inline
<1>1. PICK g : g = [p \in {FreeId(b, s) : s \in Pending(b)} |->
                      b.specs[CHOOSE s \in Pending(b) : FreeId(b, s) = p].inline]
  OBVIOUS
<1>2. PICK f : f = [s \in DOMAIN b.specs |->
                      IF s \notin Pending(b) THEN b.specs[s]
                      ELSE [b.specs[s] EXCEPT !.policy = FreeId(b, s), !.inline = NoText]]
  OBVIOUS
<1>3. DOMAIN g = {FreeId(b, s) : s \in Pending(b)}
  BY <1>1
<1>4. \A s \in Pending(b) : s \in DOMAIN b.specs /\ b.specs[s] \in Specs /\ b.specs[s].inline # NoText
  BY PartsOf DEF Pending
<1>5. \A s \in Pending(b) : FreeId(b, s) \in DOMAIN g /\ g[FreeId(b, s)] = b.specs[s].inline
  <2> TAKE s \in Pending(b)
  <2>1. FreeId(b, s) \in DOMAIN g
    BY <1>3
  <2>2. PICK z : z = CHOOSE x \in Pending(b) : FreeId(b, x) = FreeId(b, s)
    OBVIOUS
  <2>3. z \in Pending(b) /\ FreeId(b, z) = FreeId(b, s)
    BY <2>2
  <2>4. z = s
    BY <2>3, FreeIdOwn
  <2>5. g[FreeId(b, s)] = b.specs[z].inline
    BY <1>1, <2>1, <2>2
  <2> QED
    BY <2>1, <2>4, <2>5
<1>6. \A p \in DOMAIN g : p \in StartPolicies /\ p \notin DOMAIN b.policies /\ g[p] \in Texts \cup Paths
  <2> TAKE p \in DOMAIN g
  <2>1. PICK s \in Pending(b) : p = FreeId(b, s)
    BY <1>3
  <2>2. g[p] = b.specs[s].inline
    BY <1>5, <2>1
  <2>3. b.specs[s].inline \in Texts \cup Paths
    BY <1>4 DEF Specs
  <2> QED
    BY <2>1, <2>2, <2>3, FreeIdIs
<1>7. g \in [DOMAIN g -> Texts \cup Paths] /\ DOMAIN g \in SUBSET StartPolicies
  BY <1>1, <1>6
<1>8. g \in Partial(StartPolicies, Texts \cup Paths)
  BY <1>7, IntoPartial
<1>9. b.policies \in Partial(StartPolicies, Texts \cup Paths) /\ DOMAIN b.specs \subseteq Boxes
  BY PartsOf
<1>10. PICK h : h = Over(g, b.policies)
  OBVIOUS
<1>11. /\ h \in Partial(StartPolicies, Texts \cup Paths) /\ DOMAIN h = DOMAIN g \cup DOMAIN b.policies
       /\ \A p \in DOMAIN g : h[p] = g[p]
       /\ \A p \in DOMAIN b.policies \ DOMAIN g : h[p] = b.policies[p]
  <2>1. PICK old : old = b.policies
    OBVIOUS
  <2>2. old \in Partial(StartPolicies, Texts \cup Paths)
    BY <1>9, <2>1
  <2>3. Joins(Over(g, old), g, old, StartPolicies, Texts \cup Paths)
    BY <1>8, <2>2, OverIs
  <2> QED
    BY <1>10, <2>1, <2>3 DEF Joins
<1>12. \A s \in DOMAIN b.specs : b.specs[s] \in Specs
  BY PartsOf
<1>13. \A s \in DOMAIN b.specs :
         /\ f[s] \in Specs /\ f[s].wants = b.specs[s].wants
         /\ s \notin Pending(b) => f[s] = b.specs[s]
         /\ s \in Pending(b) => f[s].policy = FreeId(b, s) /\ f[s].inline = NoText
  <2> TAKE s \in DOMAIN b.specs
  <2>1. CASE s \notin Pending(b)
    BY <1>2, <1>12, <2>1
  <2>2. CASE s \in Pending(b)
    <3>1. f[s] = [b.specs[s] EXCEPT !.policy = FreeId(b, s), !.inline = NoText]
      BY <1>2, <2>2
    <3>2. FreeId(b, s) \in StartPolicies /\ b.specs[s] \in Specs
      BY <2>2, <1>12, FreeIdIs
    <3> QED
      BY <2>2, <3>1, <3>2 DEF Specs
  <2> QED
    BY <2>1, <2>2
<1>14. f \in [DOMAIN b.specs -> Specs] /\ DOMAIN f = DOMAIN b.specs
  BY <1>2, <1>13
<1>15. f \in Partial(Boxes, Specs)
  BY <1>9, <1>14, IntoPartial
<1>16. Cataloged(b) = [b EXCEPT !.policies = h, !.specs = f]
  BY <1>1, <1>2, <1>10 DEF Cataloged
<1>17. /\ Cataloged(b) \in Boards /\ Others(b, Cataloged(b), {"policies", "specs"})
       /\ Cataloged(b).policies = h /\ Cataloged(b).specs = f
  BY <1>11, <1>15, <1>16 DEF Boards, Others
<1>18. \A p \in DOMAIN b.policies : p \notin DOMAIN g
  BY <1>6
<1>19. \A s \in Pending(b) :
         /\ s \in DOMAIN b.specs /\ f[s].inline = NoText /\ f[s].policy \in DOMAIN h
         /\ f[s].policy # NoPolicy /\ h[f[s].policy] = b.specs[s].inline
  BY <1>4, <1>5, <1>6, <1>11, <1>13, NamesAssumption
<1> QED
  BY <1>11, <1>13, <1>14, <1>17, <1>18, <1>19

LEMMA MinimalIs ==
  ASSUME NEW b \in Boards
  PROVE  /\ WithMinimal(b) \in Boards /\ Others(b, WithMinimal(b), {"policies"})
         /\ DOMAIN WithMinimal(b).policies = DOMAIN b.policies \cup {Minimal}
         /\ \A p \in DOMAIN b.policies : WithMinimal(b).policies[p] = b.policies[p]
<1>1. PICK g : g = [p \in {Minimal} |-> ShippedText]
  OBVIOUS
<1>2. g \in [{Minimal} -> Texts \cup Paths] /\ {Minimal} \in SUBSET StartPolicies /\ DOMAIN g = {Minimal}
  BY <1>1, TextsAssumption DEF StartPolicies
<1>3. g \in Partial(StartPolicies, Texts \cup Paths) /\ b.policies \in Partial(StartPolicies, Texts \cup Paths)
  BY <1>2, IntoPartial, PartsOf
<1>4. PICK old : old = b.policies
  OBVIOUS
<1>5. PICK h : h = Over(old, g)
  OBVIOUS
<1>6. /\ h \in Partial(StartPolicies, Texts \cup Paths) /\ DOMAIN h = DOMAIN b.policies \cup {Minimal}
      /\ \A p \in DOMAIN b.policies : h[p] = b.policies[p]
  <2>1. old \in Partial(StartPolicies, Texts \cup Paths) /\ g \in Partial(StartPolicies, Texts \cup Paths)
    BY <1>3, <1>4
  <2>2. Joins(Over(old, g), old, g, StartPolicies, Texts \cup Paths)
    BY <2>1, OverIs
  <2> QED
    BY <1>2, <1>4, <1>5, <2>2 DEF Joins
<1>7. WithMinimal(b) = [b EXCEPT !.policies = h]
  BY <1>1, <1>4, <1>5 DEF WithMinimal
<1>8. /\ WithMinimal(b) \in Boards /\ WithMinimal(b).policies = h
      /\ Others(b, WithMinimal(b), {"policies"})
  BY <1>6, <1>7, WithPolicies
<1> QED
  BY <1>6, <1>8

LEMMA ShippedIs ==
  ASSUME NEW b \in Boards
  PROVE  /\ WithShipped(b) \in Boards /\ Others(b, WithShipped(b), {"policies", "specs"})
         /\ DOMAIN WithShipped(b).policies = DOMAIN b.policies \cup Range(ShippedBoxes)
         /\ \A p \in DOMAIN b.policies : WithShipped(b).policies[p] = b.policies[p]
         /\ DOMAIN WithShipped(b).specs = DOMAIN b.specs \cup DOMAIN ShippedBoxes
         /\ \A s \in DOMAIN b.specs : WithShipped(b).specs[s] = b.specs[s]
         /\ \A s \in DOMAIN ShippedBoxes \ DOMAIN b.specs :
              WithShipped(b).specs[s] = [policy |-> ShippedBoxes[s], inline |-> NoText, wants |-> {}]
<1>1. PICK g : g = [p \in Range(ShippedBoxes) |-> ShippedText]
  OBVIOUS
<1>2. /\ g \in [Range(ShippedBoxes) -> Texts \cup Paths] /\ Range(ShippedBoxes) \in SUBSET StartPolicies
      /\ DOMAIN g = Range(ShippedBoxes)
  BY <1>1, TextsAssumption DEF StartPolicies
<1>3. g \in Partial(StartPolicies, Texts \cup Paths) /\ b.policies \in Partial(StartPolicies, Texts \cup Paths)
  BY <1>2, IntoPartial, PartsOf
<1>4. PICK old : old = b.policies
  OBVIOUS
<1>5. PICK h : h = Over(old, g)
  OBVIOUS
<1>6. /\ h \in Partial(StartPolicies, Texts \cup Paths)
      /\ DOMAIN h = DOMAIN b.policies \cup Range(ShippedBoxes)
      /\ \A p \in DOMAIN b.policies : h[p] = b.policies[p]
  <2>1. old \in Partial(StartPolicies, Texts \cup Paths) /\ g \in Partial(StartPolicies, Texts \cup Paths)
    BY <1>3, <1>4
  <2>2. Joins(Over(old, g), old, g, StartPolicies, Texts \cup Paths)
    BY <2>1, OverIs
  <2> QED
    BY <1>2, <1>4, <1>5, <2>2 DEF Joins
<1>7. PICK e : e = [s \in DOMAIN ShippedBoxes |->
                      [policy |-> ShippedBoxes[s], inline |-> NoText, wants |-> {}]]
  OBVIOUS
<1>8. /\ DOMAIN e = DOMAIN ShippedBoxes /\ DOMAIN ShippedBoxes \in SUBSET Boxes
      /\ \A s \in DOMAIN e : e[s] = [policy |-> ShippedBoxes[s], inline |-> NoText, wants |-> {}]
  BY <1>7, NamesAssumption
<1>9. \A s \in DOMAIN e : e[s] \in Specs
  <2> TAKE s \in DOMAIN e
  <2>1. ShippedBoxes[s] \in Range(ShippedBoxes)
    BY <1>8 DEF Range
  <2> QED
    BY <1>8, <2>1 DEF StartPolicies, Specs
<1>10. e \in [DOMAIN ShippedBoxes -> Specs]
  BY <1>7, <1>8, <1>9
<1>11. e \in Partial(Boxes, Specs) /\ b.specs \in Partial(Boxes, Specs)
  BY <1>8, <1>10, IntoPartial, PartsOf
<1>12. PICK boxes : boxes = b.specs
  OBVIOUS
<1>13. PICK f : f = Over(boxes, e)
  OBVIOUS
<1>14. /\ f \in Partial(Boxes, Specs) /\ DOMAIN f = DOMAIN b.specs \cup DOMAIN ShippedBoxes
       /\ \A s \in DOMAIN b.specs : f[s] = b.specs[s]
       /\ \A s \in DOMAIN ShippedBoxes \ DOMAIN b.specs :
            f[s] = [policy |-> ShippedBoxes[s], inline |-> NoText, wants |-> {}]
  <2>1. boxes \in Partial(Boxes, Specs) /\ e \in Partial(Boxes, Specs)
    BY <1>11, <1>12
  <2>2. Joins(Over(boxes, e), boxes, e, Boxes, Specs)
    BY <2>1, OverIs
  <2> QED
    BY <1>8, <1>12, <1>13, <2>2 DEF Joins
<1>15. WithShipped(b) = [b EXCEPT !.policies = h, !.specs = f]
  BY <1>1, <1>4, <1>5, <1>7, <1>12, <1>13 DEF WithShipped
<1>16. /\ WithShipped(b) \in Boards /\ Others(b, WithShipped(b), {"policies", "specs"})
       /\ WithShipped(b).policies = h /\ WithShipped(b).specs = f
  BY <1>6, <1>14, <1>15 DEF Boards, Others
<1> QED
  BY <1>6, <1>14, <1>16

(* The rename of the rows, in two moves: the row, then its type. *)
LEMMA RowsAre ==
  ASSUME NEW p \in Partial(ProviderKeys, Providers), NEW old \in BOOLEAN,
         old => Legacy \in DOMAIN p
  PROVE  /\ RenamedRows(p, old) \in Partial(ProviderKeys, Providers)
         /\ DOMAIN RenamedRows(p, old) = IF old THEN (DOMAIN p \ {Legacy}) \cup {App} ELSE DOMAIN p
         /\ \A n \in DOMAIN p \ {Legacy} : RenamedRows(p, old)[n].creds = p[n].creds
         /\ \A n \in DOMAIN p \ {App} : ~old \/ n # Legacy => RenamedRows(p, old)[n] = p[n]
         /\ old /\ App \notin DOMAIN p => RenamedRows(p, old)[App].creds = p[Legacy].creds
         /\ App \in DOMAIN RenamedRows(p, old) =>
              /\ RenamedRows(p, old)[App].type # "github"
              /\ App \in DOMAIN p /\ p[App].type # "github" => RenamedRows(p, old)[App] = p[App]
<1>1. Legacy \in ProviderKeys /\ App \in ProviderKeys /\ Legacy # App
  BY NamesAssumption
<1>2. DOMAIN p \subseteq ProviderKeys /\ p \in [DOMAIN p -> Providers]
  BY PartialIs DEF PartialOf
<1>3. PICK rows : rows = IF old THEN Entered(Less(p, {Legacy}), App,
                                             IF App \in DOMAIN p THEN p[App] ELSE p[Legacy])
                         ELSE p
  OBVIOUS
<1>4. /\ rows \in Partial(ProviderKeys, Providers)
      /\ DOMAIN rows = IF old THEN (DOMAIN p \ {Legacy}) \cup {App} ELSE DOMAIN p
      /\ \A n \in DOMAIN p : ~old \/ n # Legacy => rows[n] = p[n]
      /\ old /\ App \notin DOMAIN p => rows[App] = p[Legacy]
  <2>1. CASE ~old
    BY <1>3, <2>1
  <2>2. CASE old
    <3>1. PICK D : D = {Legacy}
      OBVIOUS
    <3>2. PICK less : less = Less(p, D)
      OBVIOUS
    <3>3. /\ less \in Partial(ProviderKeys, Providers) /\ DOMAIN less = DOMAIN p \ {Legacy}
          /\ \A n \in DOMAIN p \ {Legacy} : less[n] = p[n]
      <4>1. Drops(Less(p, D), p, D, ProviderKeys, Providers)
        BY LessIs
      <4> QED
        BY <3>1, <3>2, <4>1 DEF Drops
    <3>4. PICK v : v = IF App \in DOMAIN p THEN p[App] ELSE p[Legacy]
      OBVIOUS
    <3>5. v \in Providers
      BY <1>2, <2>2, <3>4
    <3>6. rows = Entered(less, App, v)
      BY <1>3, <2>2, <3>1, <3>2, <3>4
    <3>7. /\ rows \in Partial(ProviderKeys, Providers) /\ DOMAIN rows = DOMAIN less \cup {App}
          /\ rows[App] = v /\ \A n \in DOMAIN less \ {App} : rows[n] = less[n]
      <4>1. less \in Partial(ProviderKeys, Providers) /\ App \in ProviderKeys
        BY <1>1, <3>3
      <4>2. Admits(Entered(less, App, v), less, App, v, ProviderKeys, Providers)
        BY <3>5, <4>1, EnteredIs
      <4> QED
        BY <3>6, <4>2 DEF Admits
    <3> QED
      BY <1>1, <2>2, <3>3, <3>4, <3>7
  <2> QED
    BY <2>1, <2>2
<1>5. DOMAIN rows \subseteq ProviderKeys /\ rows \in [DOMAIN rows -> Providers]
  BY <1>4, PartialIs DEF PartialOf
<1>6. PICK z : z = RenamedRows(p, old)
  OBVIOUS
<1>7. z = [n \in DOMAIN rows |-> IF n = App /\ (rows[n].type = "github" \/ (old /\ App \notin DOMAIN p))
                                 THEN [rows[n] EXCEPT !.type = "github-app"] ELSE rows[n]]
  BY <1>3, <1>6 DEF RenamedRows
<1>8. /\ DOMAIN z = DOMAIN rows
      /\ \A n \in DOMAIN rows :
           /\ z[n] \in Providers /\ z[n].creds = rows[n].creds
           /\ n # App => z[n] = rows[n]
           /\ n = App => z[n].type # "github"
           /\ n = App /\ rows[n].type # "github" /\ App \in DOMAIN p => z[n] = rows[n]
  <2>1. DOMAIN z = DOMAIN rows
    BY <1>7
  <2>2. ASSUME NEW n \in DOMAIN rows
        PROVE  /\ z[n] \in Providers /\ z[n].creds = rows[n].creds
               /\ n # App => z[n] = rows[n]
               /\ n = App => z[n].type # "github"
               /\ n = App /\ rows[n].type # "github" /\ App \in DOMAIN p => z[n] = rows[n]
    <3>1. rows[n] \in Providers
      BY <1>5
    <3>2. z[n] = IF n = App /\ (rows[n].type = "github" \/ (old /\ App \notin DOMAIN p))
                 THEN [rows[n] EXCEPT !.type = "github-app"] ELSE rows[n]
      BY <1>7
    <3> QED
      BY <3>1, <3>2 DEF Providers, Kinds
  <2> QED
    BY <2>1, <2>2
<1>9. z \in [DOMAIN rows -> Providers]
  BY <1>7, <1>8
<1>10. z \in Partial(ProviderKeys, Providers)
  BY <1>5, <1>9, IntoPartial
<1>11. \A n \in DOMAIN p \ {Legacy} : n \in DOMAIN rows /\ rows[n] = p[n]
  BY <1>4
<1>12. \A n \in DOMAIN p \ {App} : ~old \/ n # Legacy => n \in DOMAIN rows /\ rows[n] = p[n]
  BY <1>4
<1>13. old /\ App \notin DOMAIN p => App \in DOMAIN rows /\ rows[App] = p[Legacy]
  BY <1>4
<1>14. App \in DOMAIN p => App \in DOMAIN rows /\ rows[App] = p[App]
  BY <1>1, <1>4
<1>15. DOMAIN z = IF old THEN (DOMAIN p \ {Legacy}) \cup {App} ELSE DOMAIN p
  BY <1>4, <1>8
<1>16. App \in DOMAIN z => /\ z[App].type # "github"
                           /\ App \in DOMAIN p /\ p[App].type # "github" => z[App] = p[App]
  BY <1>8, <1>14
<1> QED
  BY <1>6, <1>8, <1>10, <1>11, <1>12, <1>13, <1>15, <1>16

LEMMA RenamedIs ==
  ASSUME NEW b \in Boards
  PROVE  /\ Renamed(b) \in Boards /\ Others(b, Renamed(b), {"provs", "specs"})
         /\ Renamed(b).provs = RenamedRows(b.provs, OldRow(b))
         /\ DOMAIN Renamed(b).specs = DOMAIN b.specs
         /\ \A s \in DOMAIN b.specs :
              /\ Renamed(b).specs[s].policy = b.specs[s].policy
              /\ Renamed(b).specs[s].inline = b.specs[s].inline
              /\ Renamed(b).specs[s].wants = {NewName(n) : n \in b.specs[s].wants}
<1>1. PICK f : f = [s \in DOMAIN b.specs |->
                      [b.specs[s] EXCEPT !.wants = {NewName(n) : n \in b.specs[s].wants}]]
  OBVIOUS
<1>2. \A s \in DOMAIN b.specs : b.specs[s] \in Specs
  BY PartsOf
<1>3. \A n \in ProviderKeys : NewName(n) \in ProviderKeys
  BY NamesAssumption DEF NewName
<1>4. \A s \in DOMAIN b.specs :
        /\ f[s] \in Specs /\ f[s].policy = b.specs[s].policy /\ f[s].inline = b.specs[s].inline
        /\ f[s].wants = {NewName(n) : n \in b.specs[s].wants}
  <2> TAKE s \in DOMAIN b.specs
  <2>1. f[s] = [b.specs[s] EXCEPT !.wants = {NewName(n) : n \in b.specs[s].wants}]
    BY <1>1
  <2>2. {NewName(n) : n \in b.specs[s].wants} \subseteq ProviderKeys
    BY <1>2, <1>3 DEF Specs
  <2> QED
    BY <1>2, <2>1, <2>2 DEF Specs
<1>5. f \in [DOMAIN b.specs -> Specs] /\ DOMAIN f = DOMAIN b.specs
  BY <1>1, <1>4
<1>6. f \in Partial(Boxes, Specs) /\ b.provs \in Partial(ProviderKeys, Providers)
  BY <1>5, PartsOf, IntoPartial
<1>7. OldRow(b) \in BOOLEAN /\ (OldRow(b) => Legacy \in DOMAIN b.provs)
  BY DEF OldRow
<1>8. PICK old \in BOOLEAN : old = OldRow(b)
  BY <1>7
<1>9. PICK q : q = b.provs
  OBVIOUS
<1>10. PICK p : p = RenamedRows(q, old)
  OBVIOUS
<1>11. p \in Partial(ProviderKeys, Providers)
  <2>1. q \in Partial(ProviderKeys, Providers) /\ (old => Legacy \in DOMAIN q)
    BY <1>6, <1>7, <1>8, <1>9
  <2> QED
    BY <1>10, <2>1, RowsAre
<1>12. Renamed(b) = [b EXCEPT !.provs = p, !.specs = f]
  BY <1>1, <1>8, <1>9, <1>10 DEF Renamed
<1>13. /\ Renamed(b) \in Boards /\ Others(b, Renamed(b), {"provs", "specs"})
       /\ Renamed(b).provs = p /\ Renamed(b).specs = f
  BY <1>6, <1>11, <1>12 DEF Boards, Others
<1> QED
  BY <1>4, <1>5, <1>8, <1>9, <1>10, <1>13

LEMMA UnsealedIs ==
  ASSUME NEW b \in Boards
  PROVE  /\ Unsealed(b) \in Boards /\ Others(b, Unsealed(b), {"provs", "app"})
         /\ Unsealed(b).app = {}
         /\ b.app = {} => Unsealed(b) = b
         /\ DOMAIN Unsealed(b).provs = IF b.app = {} THEN DOMAIN b.provs ELSE DOMAIN b.provs \cup {App}
         /\ \A n \in DOMAIN b.provs \ {App} : Unsealed(b).provs[n] = b.provs[n]
         /\ b.app # {} => /\ Unsealed(b).provs[App].type = "github-app"
                          /\ b.app \subseteq Unsealed(b).provs[App].creds
         /\ App \in DOMAIN b.provs => b.provs[App].creds \subseteq Unsealed(b).provs[App].creds
<1>1. CASE b.app = {}
  BY <1>1 DEF Unsealed, Others
<1>2. CASE b.app # {}
  <2>1. PICK v : v = [type |-> "github-app",
                      creds |-> b.app \cup (IF App \in DOMAIN b.provs THEN b.provs[App].creds ELSE {})]
    OBVIOUS
  <2>2. b.provs \in Partial(ProviderKeys, Providers) /\ b.provs \in [DOMAIN b.provs -> Providers]
        /\ b.app \subseteq Material
    BY PartsOf
  <2>3. v \in Providers /\ v.type = "github-app" /\ b.app \subseteq v.creds
        /\ (App \in DOMAIN b.provs => b.provs[App].creds \subseteq v.creds)
    BY <2>1, <2>2 DEF Providers, Kinds
  <2>4. PICK q : q = b.provs
    OBVIOUS
  <2>5. PICK p : p = Entered(q, App, v)
    OBVIOUS
  <2>6. /\ p \in Partial(ProviderKeys, Providers) /\ DOMAIN p = DOMAIN b.provs \cup {App}
        /\ p[App] = v /\ \A n \in DOMAIN b.provs \ {App} : p[n] = b.provs[n]
    <3>1. q \in Partial(ProviderKeys, Providers) /\ App \in ProviderKeys /\ v \in Providers
      BY <2>2, <2>3, <2>4, NamesAssumption
    <3>2. Admits(Entered(q, App, v), q, App, v, ProviderKeys, Providers)
      BY <3>1, EnteredIs
    <3> QED
      BY <2>4, <2>5, <3>2 DEF Admits
  <2>7. Unsealed(b) = [b EXCEPT !.provs = p, !.app = {}]
    BY <1>2, <2>1, <2>4, <2>5 DEF Unsealed
  <2>8. /\ Unsealed(b) \in Boards /\ Others(b, Unsealed(b), {"provs", "app"})
        /\ Unsealed(b).provs = p /\ Unsealed(b).app = {}
    BY <2>6, <2>7 DEF Boards, Others
  <2> QED
    BY <1>2, <2>3, <2>6, <2>8
<1> QED
  BY <1>1, <1>2

LEMMA PrunedIs ==
  ASSUME NEW b \in Boards
  PROVE  /\ Pruned(b) \in Boards /\ Others(b, Pruned(b), {"specs"})
         /\ DOMAIN Pruned(b).specs = DOMAIN b.specs
         /\ \A s \in DOMAIN b.specs :
              /\ Pruned(b).specs[s].policy = b.specs[s].policy
              /\ Pruned(b).specs[s].inline = b.specs[s].inline
              /\ Pruned(b).specs[s].wants = b.specs[s].wants \cap DOMAIN b.provs
<1>1. PICK f : f = [s \in DOMAIN b.specs |->
                      [b.specs[s] EXCEPT !.wants = b.specs[s].wants \cap DOMAIN b.provs]]
  OBVIOUS
<1>2. \A s \in DOMAIN b.specs : b.specs[s] \in Specs
  BY PartsOf
<1>3. \A s \in DOMAIN b.specs :
        /\ f[s] \in Specs /\ f[s].policy = b.specs[s].policy /\ f[s].inline = b.specs[s].inline
        /\ f[s].wants = b.specs[s].wants \cap DOMAIN b.provs
  BY <1>1, <1>2 DEF Specs
<1>4. f \in [DOMAIN b.specs -> Specs] /\ DOMAIN f = DOMAIN b.specs
  BY <1>1, <1>3
<1>5. f \in Partial(Boxes, Specs)
  BY <1>4, PartsOf, IntoPartial
<1>6. Pruned(b) = [b EXCEPT !.specs = f]
  BY <1>1 DEF Pruned
<1>7. Pruned(b) \in Boards /\ Pruned(b).specs = f /\ Others(b, Pruned(b), {"specs"})
  BY <1>5, <1>6, SpecsIn
<1> QED
  BY <1>3, <1>4, <1>7

LEMMA SeededIs ==
  ASSUME NEW b \in Boards, NEW seed \in Seeds
  PROVE  /\ Seeded(seed, b) \in Boards /\ Others(b, Seeded(seed, b), {"seeds"})
         /\ Seeded(seed, b).seeds = b.seeds \cup {seed}
  BY DEF Seeded, Boards, Others

-------------------------------------------------------------------------------
(* What each upgrade leaves done, and that a start that finds it done adds nothing. *)

Titled(b) ==
  \A i \in DOMAIN b.items :
    /\ ~(b.items[i].title = "legacy" /\ b.items[i].parent \in DOMAIN b.items)
    /\ ~(b.items[i].title \in {"legacy", "plan"} /\ b.items[i].state = "shaping")
AllRead(b) == \A s \in DOMAIN b.specs : b.specs[s].inline \notin DOMAIN Host
InCatalog(b) == Titled(b) /\ AllRead(b) /\ Pending(b) = {}
HasMinimal(b) == Minimal \in DOMAIN b.policies
HasShipped(b) == Range(ShippedBoxes) \subseteq DOMAIN b.policies /\ DOMAIN ShippedBoxes \subseteq DOMAIN b.specs
IsRenamed(b) ==
  /\ ~OldRow(b) /\ (App \in DOMAIN b.provs => b.provs[App].type # "github")
  /\ \A s \in DOMAIN b.specs : Legacy \notin b.specs[s].wants
IsPruned(b) == \A s \in DOMAIN b.specs : b.specs[s].wants \subseteq DOMAIN b.provs

(* Of a start that is at a stage, the stages before it. *)
FinishedTo(k, b) ==
  /\ k # "load" => InCatalog(b)
  /\ k \notin {"load", "minimal"} => HasMinimal(b)
  /\ k \notin {"load", "minimal", "shipped"} => HasShipped(b)
  /\ k \notin {"load", "minimal", "shipped", "rename"} => IsRenamed(b)
  /\ k \notin {"load", "minimal", "shipped", "rename", "unseal"} => b.app = {}
  /\ k \in {"forge", "runtime", "types", "up"} => IsPruned(b)
  /\ k \in {"runtime", "types", "up"} => "forge" \in b.seeds
  /\ k \in {"types", "up"} => "runtime" \in b.seeds
  /\ k = "up" => "types" \in b.seeds

LEMMA SameSpec ==
  ASSUME NEW x \in Specs, NEW y \in Specs, x.policy = y.policy, x.inline = y.inline, x.wants = y.wants
  PROVE  x = y
  BY DEF Specs

LEMMA SameItem ==
  ASSUME NEW x \in Items, NEW t, NEW s, x.title = t, x.state = s
  PROVE  [x EXCEPT !.title = t, !.state = s] = x
  BY DEF Items

LEMMA HealedStays ==
  ASSUME NEW b \in Boards, Titled(b)
  PROVE  HealedItems(b) = b
<1>1. /\ HealedItems(b) \in Boards /\ Others(b, HealedItems(b), {"items"})
      /\ DOMAIN HealedItems(b).items = DOMAIN b.items
      /\ \A i \in DOMAIN b.items :
           HealedItems(b).items[i] = [b.items[i] EXCEPT !.title = Retitled(b, i), !.state = Restated(b, i)]
  BY HealedIs
<1>2. PICK z \in Boards : z = HealedItems(b)
  BY <1>1
<1>3. \A i \in DOMAIN b.items : z.items[i] = b.items[i]
  <2> TAKE i \in DOMAIN b.items
  <2>1. b.items[i] \in Items
    BY PartsOf
  <2>2. Retitled(b, i) = b.items[i].title /\ Restated(b, i) = b.items[i].state
    BY DEF Titled, Retitled, Restated
  <2>3. [b.items[i] EXCEPT !.title = Retitled(b, i), !.state = Restated(b, i)] = b.items[i]
    <3>1. PICK x \in Items : x = b.items[i]
      BY <2>1
    <3>2. PICK u, v : u = Retitled(b, i) /\ v = Restated(b, i)
      OBVIOUS
    <3>3. [x EXCEPT !.title = u, !.state = v] = x
      BY <2>2, <3>1, <3>2, SameItem
    <3> QED
      BY <3>1, <3>2, <3>3
  <2> QED
    BY <1>1, <1>2, <2>3
<1>4. z.items \in Partial(Cards, Items) /\ b.items \in Partial(Cards, Items)
  BY PartsOf
<1>5. z.items = b.items
  BY <1>1, <1>2, <1>3, <1>4, SameFunction
<1> QED
  BY <1>1, <1>2, <1>5, SameBoard DEF Others

LEMMA InlinedStays ==
  ASSUME NEW b \in Boards, AllRead(b)
  PROVE  Inlined(b) = b
<1>1. /\ Inlined(b) \in Boards /\ Others(b, Inlined(b), {"specs"})
      /\ DOMAIN Inlined(b).specs = DOMAIN b.specs
      /\ \A s \in DOMAIN b.specs :
           /\ Inlined(b).specs[s].policy = b.specs[s].policy
           /\ Inlined(b).specs[s].wants = b.specs[s].wants
           /\ Inlined(b).specs[s].inline = IF b.specs[s].inline \in DOMAIN Host
                                           THEN Host[b.specs[s].inline] ELSE b.specs[s].inline
  BY InlinedIs
<1>2. PICK z \in Boards : z = Inlined(b)
  BY <1>1
<1>3. \A s \in DOMAIN b.specs : z.specs[s] = b.specs[s]
  <2> TAKE s \in DOMAIN b.specs
  <2>1. b.specs[s] \in Specs /\ z.specs[s] \in Specs
    BY <1>1, <1>2, PartsOf
  <2>2. /\ z.specs[s].policy = b.specs[s].policy /\ z.specs[s].wants = b.specs[s].wants
        /\ z.specs[s].inline = b.specs[s].inline
    BY <1>1, <1>2 DEF AllRead
  <2> QED
    BY <2>1, <2>2, SameSpec
<1>4. z.specs \in Partial(Boxes, Specs) /\ b.specs \in Partial(Boxes, Specs)
  BY PartsOf
<1>5. z.specs = b.specs
  BY <1>1, <1>2, <1>3, <1>4, SameFunction
<1> QED
  BY <1>1, <1>2, <1>5, SameBoard DEF Others

LEMMA CatalogedStays ==
  ASSUME NEW b \in Boards, Named(b), Pending(b) = {}
  PROVE  Cataloged(b) = b
<1>1. PICK z : z = Cataloged(b)
  OBVIOUS
<1>2. /\ z \in Boards /\ Others(b, z, {"policies", "specs"}) /\ DOMAIN z.specs = DOMAIN b.specs
      /\ \A s \in DOMAIN b.specs \ Pending(b) : z.specs[s] = b.specs[s]
  BY <1>1, CatalogedIs
<1>3. z.specs \in Partial(Boxes, Specs) /\ b.specs \in Partial(Boxes, Specs)
  BY <1>2, PartsOf
<1>4. z.specs = b.specs
  BY <1>2, <1>3, SameFunction
<1>5. PICK g : g = [p \in {FreeId(b, s) : s \in Pending(b)} |->
                      b.specs[CHOOSE s \in Pending(b) : FreeId(b, s) = p].inline]
  OBVIOUS
<1>6. DOMAIN g = {}
  BY <1>5
<1>7. g \in [{} -> Texts \cup Paths]
  BY <1>5, <1>6
<1>8. g \in Partial(StartPolicies, Texts \cup Paths) /\ b.policies \in Partial(StartPolicies, Texts \cup Paths)
  BY <1>7, PartsOf, IntoPartial
<1>9. PICK old : old = b.policies
  OBVIOUS
<1>10. Joins(Over(g, old), g, old, StartPolicies, Texts \cup Paths)
  <2>1. old \in Partial(StartPolicies, Texts \cup Paths)
    BY <1>8, <1>9
  <2> QED
    BY <1>8, <2>1, OverIs
<1>11. z.policies = Over(g, old)
  <2>1. b \in Boards /\ g = [p \in {FreeId(b, s) : s \in Pending(b)} |->
                              b.specs[CHOOSE s \in Pending(b) : FreeId(b, s) = p].inline]
    BY <1>5
  <2>2. PICK f : f = [s \in DOMAIN b.specs |->
                        IF s \notin Pending(b) THEN b.specs[s]
                        ELSE [b.specs[s] EXCEPT !.policy = FreeId(b, s), !.inline = NoText]]
    OBVIOUS
  <2>3. z = [b EXCEPT !.policies = Over(g, old), !.specs = f]
    BY <1>1, <1>9, <2>1, <2>2 DEF Cataloged
  <2> QED
    BY <2>3 DEF Boards
<1>12. PICK h : h = Over(g, old)
  OBVIOUS
<1>13. h \in Partial(StartPolicies, Texts \cup Paths) /\ DOMAIN h = DOMAIN old /\ \A p \in DOMAIN h : h[p] = old[p]
  BY <1>6, <1>10, <1>12 DEF Joins
<1>14. h = old
  BY <1>8, <1>9, <1>13, SameFunction
<1> QED
  BY <1>1, <1>2, <1>4, <1>9, <1>11, <1>12, <1>14, SameBoard DEF Others

LEMMA MinimalStays ==
  ASSUME NEW b \in Boards, HasMinimal(b)
  PROVE  WithMinimal(b) = b
<1>1. PICK z : z = WithMinimal(b)
  OBVIOUS
<1>2. /\ z \in Boards /\ Others(b, z, {"policies"}) /\ DOMAIN z.policies = DOMAIN b.policies \cup {Minimal}
      /\ \A p \in DOMAIN b.policies : z.policies[p] = b.policies[p]
  BY <1>1, MinimalIs
<1>3. /\ z.policies \in Partial(StartPolicies, Texts \cup Paths)
      /\ b.policies \in Partial(StartPolicies, Texts \cup Paths)
      /\ DOMAIN z.policies = DOMAIN b.policies
  BY <1>2, PartsOf DEF HasMinimal
<1>4. z.policies = b.policies
  BY <1>2, <1>3, SameFunction
<1> QED
  BY <1>1, <1>2, <1>4, SameBoard DEF Others

LEMMA ShippedRemains ==
  ASSUME NEW b \in Boards, HasShipped(b)
  PROVE  WithShipped(b) = b
<1>1. PICK z : z = WithShipped(b)
  OBVIOUS
<1>2. /\ z \in Boards /\ Others(b, z, {"policies", "specs"})
      /\ DOMAIN z.policies = DOMAIN b.policies \cup Range(ShippedBoxes)
      /\ \A p \in DOMAIN b.policies : z.policies[p] = b.policies[p]
      /\ DOMAIN z.specs = DOMAIN b.specs \cup DOMAIN ShippedBoxes
      /\ \A s \in DOMAIN b.specs : z.specs[s] = b.specs[s]
  BY <1>1, ShippedIs
<1>3. /\ z.policies \in Partial(StartPolicies, Texts \cup Paths)
      /\ b.policies \in Partial(StartPolicies, Texts \cup Paths)
      /\ DOMAIN z.policies = DOMAIN b.policies
  BY <1>2, PartsOf DEF HasShipped
<1>4. /\ z.specs \in Partial(Boxes, Specs) /\ b.specs \in Partial(Boxes, Specs)
      /\ DOMAIN z.specs = DOMAIN b.specs
  BY <1>2, PartsOf DEF HasShipped
<1>5. z.policies = b.policies
  BY <1>2, <1>3, SameFunction
<1>6. z.specs = b.specs
  BY <1>2, <1>4, SameFunction
<1> QED
  BY <1>1, <1>2, <1>5, <1>6, SameBoard DEF Others

LEMMA RenamedStays ==
  ASSUME NEW b \in Boards, IsRenamed(b)
  PROVE  Renamed(b) = b
<1>1. PICK z : z = Renamed(b)
  OBVIOUS
<1>2. /\ z \in Boards /\ Others(b, z, {"provs", "specs"})
      /\ z.provs = RenamedRows(b.provs, OldRow(b)) /\ DOMAIN z.specs = DOMAIN b.specs
      /\ \A s \in DOMAIN b.specs :
           /\ z.specs[s].policy = b.specs[s].policy /\ z.specs[s].inline = b.specs[s].inline
           /\ z.specs[s].wants = {NewName(n) : n \in b.specs[s].wants}
  BY <1>1, RenamedIs
<1>3. /\ z.specs \in Partial(Boxes, Specs) /\ b.specs \in Partial(Boxes, Specs)
      /\ z.provs \in Partial(ProviderKeys, Providers) /\ b.provs \in Partial(ProviderKeys, Providers)
  BY <1>2, PartsOf
<1>4. \A s \in DOMAIN b.specs : z.specs[s] = b.specs[s]
  <2> TAKE s \in DOMAIN b.specs
  <2>1. b.specs[s] \in Specs /\ z.specs[s] \in Specs
    BY <1>2, PartsOf
  <2>2. {NewName(n) : n \in b.specs[s].wants} = b.specs[s].wants
    BY DEF IsRenamed, NewName
  <2> QED
    BY <1>2, <2>1, <2>2, SameSpec
<1>5. z.specs = b.specs
  BY <1>2, <1>3, <1>4, SameFunction
<1>6. PICK p : p = b.provs
  OBVIOUS
<1>7. p \in Partial(ProviderKeys, Providers)
  BY <1>3, <1>6
<1>8. /\ RenamedRows(p, FALSE) \in Partial(ProviderKeys, Providers)
      /\ DOMAIN RenamedRows(p, FALSE) = DOMAIN p
      /\ \A n \in DOMAIN p \ {App} : RenamedRows(p, FALSE)[n] = p[n]
      /\ App \in DOMAIN p /\ p[App].type # "github" => RenamedRows(p, FALSE)[App] = p[App]
  <2>1. PICK old \in BOOLEAN : old = FALSE
    OBVIOUS
  <2>2. /\ RenamedRows(p, old) \in Partial(ProviderKeys, Providers)
        /\ DOMAIN RenamedRows(p, old) = IF old THEN (DOMAIN p \ {Legacy}) \cup {App} ELSE DOMAIN p
        /\ \A n \in DOMAIN p \ {App} : ~old \/ n # Legacy => RenamedRows(p, old)[n] = p[n]
        /\ App \in DOMAIN RenamedRows(p, old) =>
             (App \in DOMAIN p /\ p[App].type # "github" => RenamedRows(p, old)[App] = p[App])
    BY <1>7, <2>1, RowsAre
  <2> QED
    BY <2>1, <2>2
<1>9. z.provs = RenamedRows(p, FALSE)
  <2>1. (OldRow(b) <=> FALSE) /\ OldRow(b) \in BOOLEAN
    BY DEF IsRenamed, OldRow
  <2>2. OldRow(b) = FALSE
    BY <2>1
  <2> QED
    BY <1>2, <1>6, <2>2
<1>10. DOMAIN z.provs = DOMAIN b.provs /\ \A n \in DOMAIN b.provs : z.provs[n] = b.provs[n]
  BY <1>6, <1>8, <1>9 DEF IsRenamed
<1>11. z.provs = b.provs
  BY <1>3, <1>10, SameFunction
<1> QED
  BY <1>1, <1>2, <1>5, <1>11, SameBoard DEF Others

LEMMA PrunedStays ==
  ASSUME NEW b \in Boards, IsPruned(b)
  PROVE  Pruned(b) = b
<1>1. PICK z : z = Pruned(b)
  OBVIOUS
<1>2. /\ z \in Boards /\ Others(b, z, {"specs"}) /\ DOMAIN z.specs = DOMAIN b.specs
      /\ \A s \in DOMAIN b.specs :
           /\ z.specs[s].policy = b.specs[s].policy /\ z.specs[s].inline = b.specs[s].inline
           /\ z.specs[s].wants = b.specs[s].wants \cap DOMAIN b.provs
  BY <1>1, PrunedIs
<1>3. z.specs \in Partial(Boxes, Specs) /\ b.specs \in Partial(Boxes, Specs)
  BY <1>2, PartsOf
<1>4. \A s \in DOMAIN b.specs : z.specs[s] = b.specs[s]
  <2> TAKE s \in DOMAIN b.specs
  <2>1. b.specs[s] \in Specs /\ z.specs[s] \in Specs
    BY <1>2, PartsOf
  <2>2. b.specs[s].wants \cap DOMAIN b.provs = b.specs[s].wants
    BY DEF IsPruned
  <2> QED
    BY <1>2, <2>1, <2>2, SameSpec
<1>5. z.specs = b.specs
  BY <1>2, <1>3, <1>4, SameFunction
<1> QED
  BY <1>1, <1>2, <1>5, SameBoard DEF Others

LEMMA SeededStays ==
  ASSUME NEW b \in Boards, NEW seed \in Seeds, seed \in b.seeds
  PROVE  Seeded(seed, b) = b
<1>1. PICK z : z = Seeded(seed, b)
  OBVIOUS
<1>2. z \in Boards /\ Others(b, z, {"seeds"}) /\ z.seeds = b.seeds \cup {seed}
  BY <1>1, SeededIs
<1>3. z.seeds = b.seeds
  BY <1>2
<1> QED
  BY <1>1, <1>2, <1>3, SameBoard DEF Others

-------------------------------------------------------------------------------
(* An upgrade finishes its stage and undoes no stage before it. *)

LEMMA LoadFinishes ==
  ASSUME NEW b \in Boards, Named(b), NEW z, z = Cataloged(Inlined(HealedItems(b)))
  PROVE  /\ z \in Boards /\ Named(z) /\ InCatalog(z)
         /\ z.lines = b.lines /\ DOMAIN z.items = DOMAIN b.items
         /\ \A i \in DOMAIN b.items : z.items[i].pr = b.items[i].pr
<1>1. PICK y : y = HealedItems(b)
  OBVIOUS
<1>2. /\ y \in Boards /\ Others(b, y, {"items"}) /\ DOMAIN y.items = DOMAIN b.items
      /\ \A i \in DOMAIN b.items :
           y.items[i] = [b.items[i] EXCEPT !.title = Retitled(b, i), !.state = Restated(b, i)]
  BY <1>1, HealedIs
<1>3. \A i \in DOMAIN b.items :
        /\ y.items[i].title = Retitled(b, i) /\ y.items[i].state = Restated(b, i)
        /\ y.items[i].parent = b.items[i].parent /\ y.items[i].pr = b.items[i].pr
  <2> TAKE i \in DOMAIN b.items
  <2>1. b.items[i] \in Items
    BY PartsOf
  <2> QED
    BY <1>2, <2>1 DEF Items
<1>4. Titled(y)
  BY <1>2, <1>3 DEF Titled, Retitled, Restated
<1>5. y.specs = b.specs /\ y.policies = b.policies /\ y.lines = b.lines
  BY <1>2 DEF Others
<1>6. PICK x : x = Inlined(y)
  OBVIOUS
<1>7. /\ x \in Boards /\ Others(y, x, {"specs"}) /\ DOMAIN x.specs = DOMAIN y.specs
      /\ \A s \in DOMAIN y.specs :
           /\ x.specs[s].policy = y.specs[s].policy
           /\ x.specs[s].inline = IF y.specs[s].inline \in DOMAIN Host
                                  THEN Host[y.specs[s].inline] ELSE y.specs[s].inline
  BY <1>2, <1>6, InlinedIs
<1>8. x.items = y.items /\ x.policies = y.policies /\ x.lines = y.lines
  BY <1>7 DEF Others
<1>9. \A s \in DOMAIN x.specs : /\ x.specs[s].inline \notin DOMAIN Host
                                /\ x.specs[s].inline # NoText => y.specs[s].inline # NoText
  <2> TAKE s \in DOMAIN x.specs
  <2>1. CASE y.specs[s].inline \in DOMAIN Host
    <3>1. Host[y.specs[s].inline] \in Texts
      BY <2>1, TextsAssumption
    <3> QED
      BY <1>7, <2>1, <3>1, TextsAssumption
  <2>2. CASE y.specs[s].inline \notin DOMAIN Host
    BY <1>7, <2>2
  <2> QED
    BY <2>1, <2>2
<1>10. Named(x)
  BY <1>5, <1>7, <1>8, <1>9 DEF Named
<1>11. z = Cataloged(x)
  BY <1>1, <1>6
<1>12. /\ z \in Boards /\ Others(x, z, {"policies", "specs"}) /\ DOMAIN z.specs = DOMAIN x.specs
       /\ DOMAIN x.policies \subseteq DOMAIN z.policies
       /\ \A s \in DOMAIN x.specs \ Pending(x) : z.specs[s] = x.specs[s]
       /\ \A s \in Pending(x) : /\ s \in DOMAIN x.specs /\ z.specs[s].inline = NoText
                                /\ z.specs[s].policy \in DOMAIN z.policies
                                /\ z.specs[s].policy # NoPolicy
  BY <1>7, <1>10, <1>11, CatalogedIs
<1>13. z.items = y.items /\ z.lines = y.lines
  BY <1>8, <1>12 DEF Others
<1>14. NoText \notin DOMAIN Host
  BY TextsAssumption
<1>15. \A s \in DOMAIN z.specs : /\ z.specs[s].inline \notin DOMAIN Host
                                 /\ z.specs[s].policy = NoPolicy => z.specs[s].inline = NoText
                                 /\ z.specs[s].policy \in DOMAIN z.policies \cup {NoPolicy}
  <2> TAKE s \in DOMAIN z.specs
  <2>1. CASE s \in Pending(x)
    BY <1>12, <1>14, <2>1
  <2>2. CASE s \notin Pending(x)
    <3>1. s \in DOMAIN x.specs /\ z.specs[s] = x.specs[s]
      BY <1>12, <2>2
    <3>2. x.specs[s].policy = NoPolicy => x.specs[s].inline = NoText
      BY <2>2, <3>1 DEF Pending
    <3> QED
      BY <1>9, <1>10, <1>12, <3>1, <3>2 DEF Named
  <2> QED
    BY <2>1, <2>2
<1>16. Named(z) /\ Pending(z) = {} /\ AllRead(z)
  BY <1>15 DEF Named, Pending, AllRead
<1>17. Titled(z)
  BY <1>4, <1>13 DEF Titled
<1> QED
  BY <1>2, <1>3, <1>5, <1>12, <1>13, <1>16, <1>17 DEF InCatalog

(* Everything an upgrade after the first leaves as it was, unless it says so. *)
LEMMA CatalogStays ==
  ASSUME NEW b \in Boards, NEW z \in Boards, InCatalog(b), z.items = b.items,
         \A s \in DOMAIN z.specs :
           \/ z.specs[s].inline = NoText
           \/ s \in DOMAIN b.specs /\ z.specs[s].inline = b.specs[s].inline
              /\ z.specs[s].policy = b.specs[s].policy
  PROVE  InCatalog(z)
<1>1. Titled(z)
  BY DEF InCatalog, Titled
<1>2. NoText \notin DOMAIN Host
  BY TextsAssumption
<1>3. AllRead(z)
  BY <1>2 DEF InCatalog, AllRead
<1>4. Pending(z) = {}
  BY DEF InCatalog, Pending
<1> QED
  BY <1>1, <1>3, <1>4 DEF InCatalog

LEMMA NamedStays ==
  ASSUME NEW b \in Boards, NEW z \in Boards, Named(b), InCatalog(z),
         DOMAIN b.policies \subseteq DOMAIN z.policies,
         \A s \in DOMAIN z.specs :
           \/ z.specs[s].policy \in DOMAIN z.policies \cup {NoPolicy}
           \/ s \in DOMAIN b.specs /\ z.specs[s].policy = b.specs[s].policy
  PROVE  Named(z)
<1>1. \A s \in DOMAIN z.specs : ~(z.specs[s].policy = NoPolicy /\ z.specs[s].inline # NoText)
  BY DEF InCatalog, Pending
<1>2. \A s \in DOMAIN z.specs : z.specs[s].policy \in DOMAIN z.policies \cup {NoPolicy}
  BY DEF Named
<1> QED
  BY <1>1, <1>2 DEF Named

(* What a stage must give for the next to start from. *)
Kept(b, z) ==
  /\ z \in Boards /\ Named(z) /\ z.lines = b.lines /\ DOMAIN z.items = DOMAIN b.items
  /\ \A i \in DOMAIN b.items : z.items[i].pr = b.items[i].pr

LEMMA MinimalFinishes ==
  ASSUME NEW b \in Boards, Named(b), InCatalog(b), NEW z, z = WithMinimal(b)
  PROVE  Kept(b, z) /\ InCatalog(z) /\ HasMinimal(z)
<1>1. /\ z \in Boards /\ Others(b, z, {"policies"}) /\ DOMAIN z.policies = DOMAIN b.policies \cup {Minimal}
  BY MinimalIs
<1>2. z.items = b.items /\ z.specs = b.specs /\ z.lines = b.lines
  BY <1>1 DEF Others
<1>3. InCatalog(z)
  BY <1>1, <1>2, CatalogStays
<1>4. Named(z)
  BY <1>1, <1>2, <1>3, NamedStays
<1> QED
  BY <1>1, <1>2, <1>3, <1>4 DEF Kept, HasMinimal

LEMMA ShippedFinishes ==
  ASSUME NEW b \in Boards, Named(b), InCatalog(b), HasMinimal(b), NEW z, z = WithShipped(b)
  PROVE  Kept(b, z) /\ InCatalog(z) /\ HasMinimal(z) /\ HasShipped(z)
<1>1. /\ z \in Boards /\ Others(b, z, {"policies", "specs"})
      /\ DOMAIN z.policies = DOMAIN b.policies \cup Range(ShippedBoxes)
      /\ DOMAIN z.specs = DOMAIN b.specs \cup DOMAIN ShippedBoxes
      /\ \A s \in DOMAIN b.specs : z.specs[s] = b.specs[s]
      /\ \A s \in DOMAIN ShippedBoxes \ DOMAIN b.specs :
           z.specs[s] = [policy |-> ShippedBoxes[s], inline |-> NoText, wants |-> {}]
  BY ShippedIs
<1>2. z.items = b.items /\ z.lines = b.lines
  BY <1>1 DEF Others
<1>3. \A s \in DOMAIN ShippedBoxes \ DOMAIN b.specs :
        z.specs[s].inline = NoText /\ z.specs[s].policy \in DOMAIN z.policies
  <2> TAKE s \in DOMAIN ShippedBoxes \ DOMAIN b.specs
  <2>1. ShippedBoxes[s] \in Range(ShippedBoxes)
    BY DEF Range
  <2>2. ShippedBoxes[s] \in DOMAIN z.policies
    BY <1>1, <2>1
  <2>3. z.specs[s] = [policy |-> ShippedBoxes[s], inline |-> NoText, wants |-> {}]
    BY <1>1
  <2> QED
    BY <2>2, <2>3
<1>4. InCatalog(z)
  <2>1. \A s \in DOMAIN z.specs :
          \/ z.specs[s].inline = NoText
          \/ s \in DOMAIN b.specs /\ z.specs[s].inline = b.specs[s].inline
             /\ z.specs[s].policy = b.specs[s].policy
    BY <1>1, <1>3
  <2> QED
    BY <1>1, <1>2, <2>1, CatalogStays
<1>5. Named(z)
  <2>1. \A s \in DOMAIN z.specs :
          \/ z.specs[s].policy \in DOMAIN z.policies \cup {NoPolicy}
          \/ s \in DOMAIN b.specs /\ z.specs[s].policy = b.specs[s].policy
    BY <1>1, <1>3
  <2>2. DOMAIN b.policies \subseteq DOMAIN z.policies
    BY <1>1
  <2> QED
    BY <1>1, <1>4, <2>1, <2>2, NamedStays
<1> QED
  BY <1>1, <1>2, <1>4, <1>5 DEF Kept, HasMinimal, HasShipped

(* A board whose policies and specs' texts and policies are those of another. *)
LEMMA SettingsStay ==
  ASSUME NEW b \in Boards, NEW z \in Boards, Named(b), InCatalog(b), HasMinimal(b), HasShipped(b),
         z.items = b.items, z.lines = b.lines, z.policies = b.policies, DOMAIN z.specs = DOMAIN b.specs,
         \A s \in DOMAIN b.specs :
           z.specs[s].policy = b.specs[s].policy /\ z.specs[s].inline = b.specs[s].inline
  PROVE  Kept(b, z) /\ InCatalog(z) /\ HasMinimal(z) /\ HasShipped(z)
<1>1. InCatalog(z)
  BY CatalogStays
<1>2. Named(z)
  BY <1>1, NamedStays
<1> QED
  BY <1>1, <1>2 DEF Kept, HasMinimal, HasShipped

LEMMA RenameFinishes ==
  ASSUME NEW b \in Boards, Named(b), InCatalog(b), HasMinimal(b), HasShipped(b), NEW z, z = Renamed(b)
  PROVE  Kept(b, z) /\ InCatalog(z) /\ HasMinimal(z) /\ HasShipped(z) /\ IsRenamed(z)
<1>1. /\ z \in Boards /\ Others(b, z, {"provs", "specs"})
      /\ z.provs = RenamedRows(b.provs, OldRow(b)) /\ DOMAIN z.specs = DOMAIN b.specs
      /\ \A s \in DOMAIN b.specs :
           /\ z.specs[s].policy = b.specs[s].policy /\ z.specs[s].inline = b.specs[s].inline
           /\ z.specs[s].wants = {NewName(n) : n \in b.specs[s].wants}
  BY RenamedIs
<1>2. z.items = b.items /\ z.lines = b.lines /\ z.policies = b.policies
  BY <1>1 DEF Others
<1>3. Kept(b, z) /\ InCatalog(z) /\ HasMinimal(z) /\ HasShipped(z)
  BY <1>1, <1>2, SettingsStay
<1>4. \A s \in DOMAIN z.specs : Legacy \notin z.specs[s].wants
  BY <1>1, NamesAssumption DEF NewName
<1>5. PICK old \in BOOLEAN : old = OldRow(b)
  BY DEF OldRow
<1>6. PICK p \in Partial(ProviderKeys, Providers) : p = b.provs
  BY PartsOf
<1>7. old => Legacy \in DOMAIN p
  BY <1>5, <1>6 DEF OldRow
<1>8. /\ DOMAIN RenamedRows(p, old) = IF old THEN (DOMAIN p \ {Legacy}) \cup {App} ELSE DOMAIN p
      /\ \A n \in DOMAIN p \ {App} : ~old \/ n # Legacy => RenamedRows(p, old)[n] = p[n]
      /\ App \in DOMAIN RenamedRows(p, old) => RenamedRows(p, old)[App].type # "github"
  BY <1>7, RowsAre
<1>9. z.provs = RenamedRows(p, old)
  BY <1>1, <1>5, <1>6
<1>10. ~OldRow(z)
  <2>1. CASE old
    BY <1>8, <1>9, <2>1, NamesAssumption DEF OldRow
  <2>2. CASE ~old
    BY <1>5, <1>6, <1>8, <1>9, <2>2, NamesAssumption DEF OldRow
  <2> QED
    BY <2>1, <2>2
<1> QED
  BY <1>3, <1>4, <1>8, <1>9, <1>10 DEF IsRenamed

LEMMA UnsealFinishes ==
  ASSUME NEW b \in Boards, Named(b), InCatalog(b), HasMinimal(b), HasShipped(b), IsRenamed(b),
         NEW z, z = Unsealed(b)
  PROVE  /\ Kept(b, z) /\ InCatalog(z) /\ HasMinimal(z) /\ HasShipped(z) /\ IsRenamed(z)
         /\ z.app = {}
<1>1. b.app = {} => z = b
  BY UnsealedIs
<1>2. /\ z \in Boards /\ Others(b, z, {"provs", "app"}) /\ z.app = {}
      /\ DOMAIN z.provs = IF b.app = {} THEN DOMAIN b.provs ELSE DOMAIN b.provs \cup {App}
      /\ \A n \in DOMAIN b.provs \ {App} : z.provs[n] = b.provs[n]
      /\ b.app # {} => z.provs[App].type = "github-app"
  BY UnsealedIs
<1>3. z.items = b.items /\ z.lines = b.lines /\ z.policies = b.policies /\ z.specs = b.specs
  BY <1>2 DEF Others
<1>4. Kept(b, z) /\ InCatalog(z) /\ HasMinimal(z) /\ HasShipped(z)
  BY <1>2, <1>3, SettingsStay
<1>5. IsRenamed(z)
  <2>1. CASE b.app = {}
    BY <1>1, <2>1
  <2>2. CASE b.app # {}
    <3>1. ~OldRow(z)
      BY <1>2, <2>2, NamesAssumption DEF IsRenamed, OldRow
    <3> QED
      BY <1>2, <1>3, <2>2, <3>1 DEF IsRenamed
  <2> QED
    BY <2>1, <2>2
<1> QED
  BY <1>2, <1>4, <1>5

LEMMA PruneFinishes ==
  ASSUME NEW b \in Boards, Named(b), InCatalog(b), HasMinimal(b), HasShipped(b), IsRenamed(b), b.app = {},
         NEW z, z = Pruned(b)
  PROVE  /\ Kept(b, z) /\ InCatalog(z) /\ HasMinimal(z) /\ HasShipped(z) /\ IsRenamed(z)
         /\ z.app = {} /\ IsPruned(z)
<1>1. /\ z \in Boards /\ Others(b, z, {"specs"}) /\ DOMAIN z.specs = DOMAIN b.specs
      /\ \A s \in DOMAIN b.specs :
           /\ z.specs[s].policy = b.specs[s].policy /\ z.specs[s].inline = b.specs[s].inline
           /\ z.specs[s].wants = b.specs[s].wants \cap DOMAIN b.provs
  BY PrunedIs
<1>2. /\ z.items = b.items /\ z.lines = b.lines /\ z.policies = b.policies
      /\ z.provs = b.provs /\ z.app = {}
  BY <1>1 DEF Others
<1>3. Kept(b, z) /\ InCatalog(z) /\ HasMinimal(z) /\ HasShipped(z)
  BY <1>1, <1>2, SettingsStay
<1>4. IsRenamed(z) /\ IsPruned(z)
  BY <1>1, <1>2 DEF IsRenamed, IsPruned, OldRow
<1> QED
  BY <1>2, <1>3, <1>4

LEMMA SeedFinishes ==
  ASSUME NEW b \in Boards, Named(b), InCatalog(b), HasMinimal(b), HasShipped(b), IsRenamed(b), b.app = {},
         IsPruned(b), NEW seed \in Seeds, NEW z, z = Seeded(seed, b)
  PROVE  /\ Kept(b, z) /\ InCatalog(z) /\ HasMinimal(z) /\ HasShipped(z) /\ IsRenamed(z)
         /\ z.app = {} /\ IsPruned(z) /\ z.seeds = b.seeds \cup {seed}
<1>1. z \in Boards /\ Others(b, z, {"seeds"}) /\ z.seeds = b.seeds \cup {seed}
  BY SeededIs
<1>2. /\ z.items = b.items /\ z.lines = b.lines /\ z.policies = b.policies /\ z.specs = b.specs
      /\ z.provs = b.provs /\ z.app = {}
  BY <1>1 DEF Others
<1>3. Kept(b, z) /\ InCatalog(z) /\ HasMinimal(z) /\ HasShipped(z)
  BY <1>1, <1>2, SettingsStay
<1>4. IsRenamed(z) /\ IsPruned(z)
  BY <1>2 DEF IsRenamed, IsPruned, OldRow
<1> QED
  BY <1>1, <1>2, <1>3, <1>4

-------------------------------------------------------------------------------
(* What is left of a start from a stage on; a start from the first that finds *)
(* the stages before done makes the same.                                     *)

Rest(k, b) ==
  CASE k = "load"    -> Whole(b)
    [] k = "minimal" -> Seeded("types", Seeded("runtime", Seeded("forge",
                          Pruned(Unsealed(Renamed(WithShipped(WithMinimal(b))))))))
    [] k = "shipped" -> Seeded("types", Seeded("runtime", Seeded("forge",
                          Pruned(Unsealed(Renamed(WithShipped(b)))))))
    [] k = "rename"  -> Seeded("types", Seeded("runtime", Seeded("forge", Pruned(Unsealed(Renamed(b))))))
    [] k = "unseal"  -> Seeded("types", Seeded("runtime", Seeded("forge", Pruned(Unsealed(b)))))
    [] k = "prune"   -> Seeded("types", Seeded("runtime", Seeded("forge", Pruned(b))))
    [] k = "forge"   -> Seeded("types", Seeded("runtime", Seeded("forge", b)))
    [] k = "runtime" -> Seeded("types", Seeded("runtime", b))
    [] k = "types"   -> Seeded("types", b)
    [] OTHER         -> b

LEMMA StagesAre ==
  /\ Stages = {"load", "minimal", "shipped", "rename", "unseal", "prune", "forge", "runtime", "types"}
  /\ NextStage["load"] = "minimal" /\ NextStage["minimal"] = "shipped"
  /\ NextStage["shipped"] = "rename" /\ NextStage["rename"] = "unseal"
  /\ NextStage["unseal"] = "prune" /\ NextStage["prune"] = "forge"
  /\ NextStage["forge"] = "runtime" /\ NextStage["runtime"] = "types" /\ NextStage["types"] = "up"
  BY DEF Stages, NextStage

LEMMA UpgradesAre ==
  ASSUME NEW b
  PROVE  /\ Upgraded("load", b) = Cataloged(Inlined(HealedItems(b)))
         /\ Upgraded("minimal", b) = WithMinimal(b) /\ Upgraded("shipped", b) = WithShipped(b)
         /\ Upgraded("rename", b) = Renamed(b) /\ Upgraded("unseal", b) = Unsealed(b)
         /\ Upgraded("prune", b) = Pruned(b) /\ Upgraded("forge", b) = Seeded("forge", b)
         /\ Upgraded("runtime", b) = Seeded("runtime", b) /\ Upgraded("types", b) = Seeded("types", b)
  BY DEF Upgraded

LEMMA RestIs ==
  ASSUME NEW b, NEW k \in Stages
  PROVE  Rest(k, b) = Rest(NextStage[k], Upgraded(k, b))
<1>1. CASE k = "load"
  BY <1>1, StagesAre, UpgradesAre DEF Rest, Whole
<1>2. CASE k = "minimal"
  BY <1>2, StagesAre, UpgradesAre DEF Rest
<1>3. CASE k = "shipped"
  BY <1>3, StagesAre, UpgradesAre DEF Rest
<1>4. CASE k = "rename"
  BY <1>4, StagesAre, UpgradesAre DEF Rest
<1>5. CASE k = "unseal"
  BY <1>5, StagesAre, UpgradesAre DEF Rest
<1>6. CASE k = "prune"
  BY <1>6, StagesAre, UpgradesAre DEF Rest
<1>7. CASE k = "forge"
  BY <1>7, StagesAre, UpgradesAre DEF Rest
<1>8. CASE k = "runtime"
  BY <1>8, StagesAre, UpgradesAre DEF Rest
<1>9. CASE k = "types"
  BY <1>9, StagesAre, UpgradesAre DEF Rest
<1> QED
  BY <1>1, <1>2, <1>3, <1>4, <1>5, <1>6, <1>7, <1>8, <1>9, StagesAre

(* Each stage that is finished is a step a start may skip. *)
LEMMA FinishedStays ==
  ASSUME NEW b \in Boards, Named(b), NEW k \in Stages \cup {"up"}, FinishedTo(k, b)
  PROVE  /\ k # "load" => Cataloged(Inlined(HealedItems(b))) = b
         /\ k \notin {"load", "minimal"} => WithMinimal(b) = b
         /\ k \notin {"load", "minimal", "shipped"} => WithShipped(b) = b
         /\ k \notin {"load", "minimal", "shipped", "rename"} => Renamed(b) = b
         /\ k \notin {"load", "minimal", "shipped", "rename", "unseal"} => Unsealed(b) = b
         /\ k \in {"forge", "runtime", "types", "up"} => Pruned(b) = b
         /\ k \in {"runtime", "types", "up"} => Seeded("forge", b) = b
         /\ k \in {"types", "up"} => Seeded("runtime", b) = b
         /\ k = "up" => Seeded("types", b) = b
<1>1. ASSUME k # "load" PROVE Cataloged(Inlined(HealedItems(b))) = b
  <2>1. Titled(b) /\ AllRead(b) /\ Pending(b) = {}
    BY <1>1 DEF FinishedTo, InCatalog
  <2> QED
    BY <2>1, HealedStays, InlinedStays, CatalogedStays
<1>2. k \notin {"load", "minimal"} => WithMinimal(b) = b
  BY MinimalStays DEF FinishedTo
<1>3. k \notin {"load", "minimal", "shipped"} => WithShipped(b) = b
  BY ShippedRemains DEF FinishedTo
<1>4. k \notin {"load", "minimal", "shipped", "rename"} => Renamed(b) = b
  BY RenamedStays DEF FinishedTo
<1>5. k \notin {"load", "minimal", "shipped", "rename", "unseal"} => Unsealed(b) = b
  BY UnsealedIs DEF FinishedTo
<1>6. k \in {"forge", "runtime", "types", "up"} => Pruned(b) = b
  BY PrunedStays DEF FinishedTo
<1>7. k \in {"runtime", "types", "up"} => Seeded("forge", b) = b
  BY SeededStays DEF FinishedTo, Seeds
<1>8. k \in {"types", "up"} => Seeded("runtime", b) = b
  BY SeededStays DEF FinishedTo, Seeds
<1>9. k = "up" => Seeded("types", b) = b
  BY SeededStays DEF FinishedTo, Seeds
<1> QED
  BY <1>1, <1>2, <1>3, <1>4, <1>5, <1>6, <1>7, <1>8, <1>9

LEMMA WholeIsRest ==
  ASSUME NEW b \in Boards, Named(b), NEW k \in Stages \cup {"up"}, FinishedTo(k, b)
  PROVE  Whole(b) = Rest(k, b)
<1>1. /\ k # "load" => Cataloged(Inlined(HealedItems(b))) = b
      /\ k \notin {"load", "minimal"} => WithMinimal(b) = b
      /\ k \notin {"load", "minimal", "shipped"} => WithShipped(b) = b
      /\ k \notin {"load", "minimal", "shipped", "rename"} => Renamed(b) = b
      /\ k \notin {"load", "minimal", "shipped", "rename", "unseal"} => Unsealed(b) = b
      /\ k \in {"forge", "runtime", "types", "up"} => Pruned(b) = b
      /\ k \in {"runtime", "types", "up"} => Seeded("forge", b) = b
      /\ k \in {"types", "up"} => Seeded("runtime", b) = b
      /\ k = "up" => Seeded("types", b) = b
  BY FinishedStays
<1>2. CASE k = "load"
  BY <1>2 DEF Rest
<1>3. CASE k = "minimal"
  BY <1>1, <1>3 DEF Rest, Whole
<1>4. CASE k = "shipped"
  BY <1>1, <1>4 DEF Rest, Whole
<1>5. CASE k = "rename"
  BY <1>1, <1>5 DEF Rest, Whole
<1>6. CASE k = "unseal"
  BY <1>1, <1>6 DEF Rest, Whole
<1>7. CASE k = "prune"
  BY <1>1, <1>7 DEF Rest, Whole
<1>8. CASE k = "forge"
  BY <1>1, <1>8 DEF Rest, Whole
<1>9. CASE k = "runtime"
  BY <1>1, <1>9 DEF Rest, Whole
<1>10. CASE k = "types"
  BY <1>1, <1>10 DEF Rest, Whole
<1>11. CASE k = "up"
  BY <1>1, <1>11 DEF Rest, Whole
<1> QED
  BY <1>2, <1>3, <1>4, <1>5, <1>6, <1>7, <1>8, <1>9, <1>10, <1>11, StagesAre

(* One upgrade: the next stage is due, and the start still ends where it would. *)
LEMMA StageFinishes ==
  ASSUME NEW b \in Boards, Named(b), NEW k \in Stages, FinishedTo(k, b), NEW z, z = Upgraded(k, b)
  PROVE  Kept(b, z) /\ FinishedTo(NextStage[k], z)
<1>1. CASE k = "load"
  <2>1. z = Cataloged(Inlined(HealedItems(b)))
    BY <1>1, UpgradesAre
  <2>2. Kept(b, z) /\ InCatalog(z)
    BY <2>1, LoadFinishes DEF Kept
  <2>3. NextStage[k] = "minimal"
    BY <1>1, StagesAre
  <2> QED
    BY <2>2, <2>3 DEF FinishedTo
<1>2. CASE k = "minimal"
  <2>1. z = WithMinimal(b) /\ NextStage[k] = "shipped" /\ InCatalog(b)
    BY <1>2, UpgradesAre, StagesAre DEF FinishedTo
  <2>2. Kept(b, z) /\ InCatalog(z) /\ HasMinimal(z)
    BY <2>1, MinimalFinishes
  <2> QED
    BY <2>1, <2>2 DEF FinishedTo
<1>3. CASE k = "shipped"
  <2>1. z = WithShipped(b) /\ NextStage[k] = "rename" /\ InCatalog(b) /\ HasMinimal(b)
    BY <1>3, UpgradesAre, StagesAre DEF FinishedTo
  <2>2. Kept(b, z) /\ InCatalog(z) /\ HasMinimal(z) /\ HasShipped(z)
    BY <2>1, ShippedFinishes
  <2> QED
    BY <2>1, <2>2 DEF FinishedTo
<1>4. CASE k = "rename"
  <2>1. /\ z = Renamed(b) /\ NextStage[k] = "unseal"
        /\ InCatalog(b) /\ HasMinimal(b) /\ HasShipped(b)
    BY <1>4, UpgradesAre, StagesAre DEF FinishedTo
  <2>2. Kept(b, z) /\ InCatalog(z) /\ HasMinimal(z) /\ HasShipped(z) /\ IsRenamed(z)
    BY <2>1, RenameFinishes
  <2> QED
    BY <2>1, <2>2 DEF FinishedTo
<1>5. CASE k = "unseal"
  <2>1. /\ z = Unsealed(b) /\ NextStage[k] = "prune"
        /\ InCatalog(b) /\ HasMinimal(b) /\ HasShipped(b) /\ IsRenamed(b)
    BY <1>5, UpgradesAre, StagesAre DEF FinishedTo
  <2>2. /\ Kept(b, z) /\ InCatalog(z) /\ HasMinimal(z) /\ HasShipped(z) /\ IsRenamed(z)
        /\ z.app = {}
    BY <2>1, UnsealFinishes
  <2> QED
    BY <2>1, <2>2 DEF FinishedTo
<1>6. CASE k = "prune"
  <2>1. /\ z = Pruned(b) /\ NextStage[k] = "forge"
        /\ InCatalog(b) /\ HasMinimal(b) /\ HasShipped(b) /\ IsRenamed(b) /\ b.app = {}
    BY <1>6, UpgradesAre, StagesAre DEF FinishedTo
  <2>2. /\ Kept(b, z) /\ InCatalog(z) /\ HasMinimal(z) /\ HasShipped(z) /\ IsRenamed(z)
        /\ z.app = {} /\ IsPruned(z)
    BY <2>1, PruneFinishes
  <2> QED
    BY <2>1, <2>2 DEF FinishedTo
<1>7. CASE k \in {"forge", "runtime", "types"}
  <2>1. /\ z = Seeded(k, b) /\ k \in Seeds
        /\ InCatalog(b) /\ HasMinimal(b) /\ HasShipped(b) /\ IsRenamed(b) /\ b.app = {} /\ IsPruned(b)
    BY <1>7, UpgradesAre DEF FinishedTo, Seeds
  <2>2. /\ Kept(b, z) /\ InCatalog(z) /\ HasMinimal(z) /\ HasShipped(z) /\ IsRenamed(z)
        /\ z.app = {} /\ IsPruned(z) /\ z.seeds = b.seeds \cup {k}
    BY <2>1, SeedFinishes
  <2>3. /\ k = "forge" => NextStage[k] = "runtime"
        /\ k = "runtime" => NextStage[k] = "types" /\ "forge" \in b.seeds
        /\ k = "types" => NextStage[k] = "up" /\ "forge" \in b.seeds /\ "runtime" \in b.seeds
    BY StagesAre DEF FinishedTo
  <2> QED
    BY <1>7, <2>2, <2>3 DEF FinishedTo
<1> QED
  BY <1>1, <1>2, <1>3, <1>4, <1>5, <1>6, <1>7, StagesAre

LEMMA StageArrives ==
  ASSUME NEW b \in Boards, Named(b), NEW k \in Stages, FinishedTo(k, b), NEW z, z = Upgraded(k, b)
  PROVE  /\ Whole(z) = Whole(b) /\ NextStage[k] \in Stages \cup {"up"}
         /\ NextStage[k] = "up" => Whole(z) = z
<1>1. Kept(b, z) /\ FinishedTo(NextStage[k], z)
  BY StageFinishes
<1>2. NextStage[k] \in Stages \cup {"up"}
  BY StagesAre
<1>3. PICK n \in Stages \cup {"up"} : n = NextStage[k]
  BY <1>2
<1>4. Whole(z) = Rest(n, z)
  BY <1>1, <1>3, WholeIsRest DEF Kept
<1>5. Whole(b) = Rest(k, b)
  BY WholeIsRest
<1>6. Rest(k, b) = Rest(n, z)
  BY <1>3, RestIs
<1>7. n = "up" => Rest(n, z) = z
  BY DEF Rest
<1> QED
  BY <1>3, <1>4, <1>5, <1>6, <1>7

-------------------------------------------------------------------------------
(* The invariant: what a process that is down will make of the tables, or one *)
(* that is starting of its board, is what the start that began would have.    *)

Tied(b) == b.lines \subseteq DOMAIN b.items
Columned(b) == \A i \in DOMAIN b.items : b.items[i].pr # "legacy"

(* Whether an import is due of tables and a file, and what a start comes to. *)
DueOf(t, f) == ~t.stamped /\ DOMAIN t.board.items = {} /\ f # NoFile
ArrivalOf(w) == Whole(Loaded([board |-> IF w.from = "file" THEN Saved(w.board) ELSE w.board]))

FileIs == file = NoFile \/ (IsBoard(file) /\ Named(file))
TablesAre == Named(tables.board) /\ Tied(tables.board)
WasIs ==
  /\ Named(was.board)
  /\ was.from = "file" => was.board = file /\ file # NoFile
  /\ was.from = "tables" => Tied(was.board)
DownIs ==
  pc = "down" => IF DueOf(tables, file) THEN was.from = "file" ELSE Whole(Loaded(tables)) = ArrivalOf(was)
ImportIs ==
  /\ pc \in {"imported", "stamped"} => was.from = "file" /\ tables.board = Saved(file)
  /\ pc = "stamped" => tables.stamped
StartsIs ==
  pc \in Stages => /\ Loaded(tables) = board /\ Whole(board) = ArrivalOf(was) /\ FinishedTo(pc, board)
                   /\ Named(board) /\ Tied(board) /\ Columned(board) /\ ~DueOf(tables, file)
UpIs == pc = "up" => Named(board) /\ (touched = 0 => board = ArrivalOf(was))

StartInv == StartTypeOK /\ FileIs /\ TablesAre /\ WasIs /\ DownIs /\ ImportIs /\ StartsIs /\ UpIs

LEMMA NamedOf ==
  ASSUME NEW b, NEW z, Named(b), z.specs = b.specs, z.policies = b.policies
  PROVE  Named(z)
  BY DEF Named

LEMMA LoadedOf ==
  ASSUME NEW t, NEW u, t.board = u.board
  PROVE  Loaded(t) = Loaded(u)
  BY DEF Loaded

LEMMA SavedStands ==
  ASSUME NEW b, IsBoard(b), Named(b)
  PROVE  IsBoard(Saved(b)) /\ Named(Saved(b)) /\ Tied(Saved(b))
<1>1. b \in Boards
  BY BoardIs
<1>2. PICK z : z = Saved(b)
  OBVIOUS
<1>3. /\ z \in Boards /\ Others(b, z, {"items", "lines"})
      /\ z.lines = b.lines \cap DOMAIN b.items /\ DOMAIN z.items = DOMAIN b.items
  BY <1>1, <1>2, SavedIs
<1>4. z.specs = b.specs /\ z.policies = b.policies
  BY <1>3 DEF Others
<1> QED
  BY <1>2, <1>3, <1>4, BoardIs, NamedOf DEF Tied

LEMMA LoadedStands ==
  ASSUME NEW t, IsBoard(t.board), Named(t.board), Tied(t.board)
  PROVE  IsBoard(Loaded(t)) /\ Named(Loaded(t)) /\ Tied(Loaded(t)) /\ Columned(Loaded(t))
<1>1. PICK b \in Boards : b = t.board
  BY BoardIs
<1>2. PICK z : z = Loaded(t)
  OBVIOUS
<1>3. /\ z \in Boards /\ Others(b, z, {"items"}) /\ DOMAIN z.items = DOMAIN b.items
      /\ \A i \in DOMAIN b.items :
           z.items[i] = [b.items[i] EXCEPT !.pr = IF b.items[i].pr = "legacy" THEN "listed"
                                                  ELSE b.items[i].pr]
  <2>1. t.board \in Boards
    BY <1>1
  <2>2. /\ Loaded(t) \in Boards /\ Others(t.board, Loaded(t), {"items"})
        /\ DOMAIN Loaded(t).items = DOMAIN t.board.items
        /\ \A i \in DOMAIN t.board.items :
              Loaded(t).items[i] = [t.board.items[i] EXCEPT !.pr = IF t.board.items[i].pr = "legacy"
                                                                   THEN "listed" ELSE t.board.items[i].pr]
    BY <2>1, LoadedIs
  <2> QED
    BY <1>1, <1>2, <2>2
<1>4. z.specs = b.specs /\ z.policies = b.policies /\ z.lines = b.lines
  BY <1>3 DEF Others
<1>5. Named(z)
  BY <1>1, <1>4, NamedOf
<1>6. Columned(z)
  <2> SUFFICES ASSUME NEW i \in DOMAIN b.items
               PROVE  z.items[i].pr # "legacy"
    BY <1>3 DEF Columned
  <2>1. b.items[i] \in Items
    BY PartsOf
  <2> QED
    BY <1>3, <2>1 DEF Items
<1> QED
  BY <1>1, <1>2, <1>3, <1>4, <1>5, <1>6, BoardIs DEF Tied

(* What is saved of a board whose links are listed is read back. *)
LEMMA RoundTrip ==
  ASSUME NEW b \in Boards, Tied(b), Columned(b), NEW t, t.board = Saved(b)
  PROVE  Loaded(t) = b
<1>1. PICK y : y = Saved(b)
  OBVIOUS
<1>2. /\ y \in Boards /\ Others(b, y, {"items", "lines"})
      /\ y.lines = b.lines \cap DOMAIN b.items /\ DOMAIN y.items = DOMAIN b.items
      /\ \A i \in DOMAIN b.items :
           y.items[i] = [b.items[i] EXCEPT !.pr = IF b.items[i].pr = "legacy" THEN "none"
                                                  ELSE b.items[i].pr]
  BY <1>1, SavedIs
<1>3. \A i \in DOMAIN b.items : y.items[i] = b.items[i]
  <2> TAKE i \in DOMAIN b.items
  <2>1. b.items[i] \in Items /\ b.items[i].pr # "legacy"
    BY PartsOf DEF Columned
  <2> QED
    BY <1>2, <2>1 DEF Items
<1>4. y.items \in Partial(Cards, Items) /\ b.items \in Partial(Cards, Items)
  BY <1>2, PartsOf
<1>5. y.items = b.items /\ y.lines = b.lines
  BY <1>2, <1>3, <1>4, SameFunction DEF Tied
<1>6. y = b
  BY <1>2, <1>5, SameBoard DEF Others
<1>7. t.board \in Boards /\ t.board = b
  BY <1>1, <1>6
<1>8. PICK z : z = Loaded(t)
  OBVIOUS
<1>9. /\ z \in Boards /\ Others(b, z, {"items"}) /\ DOMAIN z.items = DOMAIN b.items
      /\ \A i \in DOMAIN b.items :
           z.items[i] = [b.items[i] EXCEPT !.pr = IF b.items[i].pr = "legacy" THEN "listed"
                                                  ELSE b.items[i].pr]
  <2>1. /\ Loaded(t) \in Boards /\ Others(t.board, Loaded(t), {"items"})
        /\ DOMAIN Loaded(t).items = DOMAIN t.board.items
        /\ \A i \in DOMAIN t.board.items :
              Loaded(t).items[i] = [t.board.items[i] EXCEPT !.pr = IF t.board.items[i].pr = "legacy"
                                                                   THEN "listed" ELSE t.board.items[i].pr]
    BY <1>7, LoadedIs
  <2> QED
    BY <1>7, <1>8, <2>1
<1>10. \A i \in DOMAIN b.items : z.items[i] = b.items[i]
  <2> TAKE i \in DOMAIN b.items
  <2>1. b.items[i] \in Items /\ b.items[i].pr # "legacy"
    BY PartsOf DEF Columned
  <2> QED
    BY <1>9, <2>1 DEF Items
<1>11. z.items = b.items
  <2>1. z.items \in Partial(Cards, Items)
    BY <1>9, PartsOf
  <2> QED
    BY <1>4, <1>9, <1>10, <2>1, SameFunction
<1>12. z = b
  BY <1>9, <1>11, SameBoard DEF Others
<1> QED
  BY <1>8, <1>12

LEMMA EmptyIs == IsBoard(Empty) /\ Named(Empty)
<1>1. DOMAIN <<>> = {}
  OBVIOUS
<1>2. \A S, T : PartialOf(<<>>, S, T)
  BY <1>1 DEF PartialOf
<1>3. /\ Empty.items = <<>> /\ Empty.policies = <<>> /\ Empty.specs = <<>> /\ Empty.provs = <<>>
      /\ Empty \in [items: {Empty.items}, lines: SUBSET Cards, policies: {Empty.policies},
                    specs: {Empty.specs}, provs: {Empty.provs}, app: SUBSET Material, seeds: SUBSET Seeds]
  BY DEF Empty
<1> QED
  BY <1>1, <1>2, <1>3 DEF IsBoard, Named

LEMMA DueIs ==
  /\ \A t : ImportDue(t) <=> DueOf(t, file)
  /\ Arrives = ArrivalOf(was)
  BY DEF ImportDue, DueOf, Arrives, ArrivalOf, BeganWith

(* A start begins with what it finds. *)
LEMMA BeganIs ==
  ASSUME NEW t, NEW f, NEW w, f = NoFile \/ (IsBoard(f) /\ Named(f)),
         IsBoard(t.board), Named(t.board), Tied(t.board),
         w = IF DueOf(t, f) THEN [from |-> "file", board |-> f] ELSE [from |-> "tables", board |-> t.board]
  PROVE  /\ w \in [from: {"file", "tables"}, board: {w.board}]
         /\ IsBoard(w.board) /\ Named(w.board)
         /\ w.from = "file" => w.board = f /\ f # NoFile
         /\ w.from = "tables" => Tied(w.board)
         /\ DueOf(t, f) => w.from = "file"
         /\ ~DueOf(t, f) => Whole(Loaded(t)) = ArrivalOf(w)
<1>1. CASE DueOf(t, f)
  BY <1>1 DEF DueOf
<1>2. CASE ~DueOf(t, f)
  <2>1. w = [from |-> "tables", board |-> t.board]
    BY <1>2
  <2>2. PICK u : u = [board |-> IF w.from = "file" THEN Saved(w.board) ELSE w.board]
    OBVIOUS
  <2>3. u.board = t.board
    BY <2>1, <2>2
  <2>4. Loaded(u) = Loaded(t)
    BY <2>3, LoadedOf
  <2>5. Whole(Loaded(t)) = ArrivalOf(w)
    BY <2>2, <2>4 DEF ArrivalOf
  <2> QED
    BY <1>2, <2>1, <2>5
<1> QED
  BY <1>1, <1>2

-------------------------------------------------------------------------------
LEMMA InitInv == StartInit(Pasts) => StartInv
<1> SUFFICES ASSUME StartInit(Pasts)
             PROVE  StartInv
  OBVIOUS
<1>1. PICK past \in Pasts : file = past.file /\ tables = past.tables
  BY DEF StartInit
<1>2. board = Empty /\ pc = "down" /\ touched = 0 /\ deaths = 0 /\ was = Began(tables)
  BY DEF StartInit
<1>3. /\ tables \in [board: {tables.board}, stamped: BOOLEAN] /\ IsBoard(tables.board)
      /\ FileIs /\ TablesAre
  BY <1>1, PastsAssumption DEF FileIs, TablesAre, Tied
<1>4. was = IF DueOf(tables, file) THEN [from |-> "file", board |-> file]
            ELSE [from |-> "tables", board |-> tables.board]
  BY <1>2, DueIs DEF Began
<1>5. PICK t, f, w : t = tables /\ f = file /\ w = was
  OBVIOUS
<1>6. /\ f = NoFile \/ (IsBoard(f) /\ Named(f))
      /\ IsBoard(t.board) /\ Named(t.board) /\ Tied(t.board)
      /\ w = IF DueOf(t, f) THEN [from |-> "file", board |-> f] ELSE [from |-> "tables", board |-> t.board]
  BY <1>3, <1>4, <1>5 DEF FileIs, TablesAre
<1>7. /\ w \in [from: {"file", "tables"}, board: {w.board}]
      /\ IsBoard(w.board) /\ Named(w.board)
      /\ w.from = "file" => w.board = f /\ f # NoFile
      /\ w.from = "tables" => Tied(w.board)
      /\ DueOf(t, f) => w.from = "file"
      /\ ~DueOf(t, f) => Whole(Loaded(t)) = ArrivalOf(w)
  BY <1>6, BeganIs
<1>8. WasIs /\ DownIs
  BY <1>5, <1>7 DEF WasIs, DownIs
<1>9. StartTypeOK
  BY <1>2, <1>3, <1>5, <1>7, EmptyIs, StartsAssumption DEF StartTypeOK
<1>10. ImportIs /\ StartsIs /\ UpIs
  BY <1>2, StagesAre DEF ImportIs, StartsIs, UpIs
<1> QED
  BY <1>3, <1>8, <1>9, <1>10 DEF StartInv

LEMMA ImportSavesInv ==
  ASSUME StartInv, ImportSaves
  PROVE  StartInv'
<1>1. /\ pc = "down" /\ DueOf(tables, file) /\ pc' = "imported"
      /\ tables' = [tables EXCEPT !.board = Saved(file)]
      /\ board' = board /\ was' = was /\ touched' = touched /\ deaths' = deaths /\ file' = file
  BY DueIs DEF ImportSaves
<1>2. /\ tables \in [board: {tables.board}, stamped: BOOLEAN] /\ StartTypeOK
      /\ was.from = "file" /\ WasIs /\ FileIs
  BY <1>1 DEF StartInv, StartTypeOK, DownIs
<1>3. tables'.board = Saved(file) /\ tables' \in [board: {tables'.board}, stamped: BOOLEAN]
  BY <1>1, <1>2
<1>4. IsBoard(file) /\ Named(file)
  BY <1>2 DEF WasIs, FileIs
<1>5. IsBoard(tables'.board) /\ Named(tables'.board) /\ Tied(tables'.board)
  BY <1>3, <1>4, SavedStands
<1>6. StartTypeOK'
  BY <1>1, <1>2, <1>3, <1>5 DEF StartTypeOK
<1>7. FileIs' /\ WasIs'
  BY <1>1, <1>2 DEF FileIs, WasIs
<1>8. TablesAre' /\ DownIs' /\ ImportIs' /\ StartsIs' /\ UpIs'
  BY <1>1, <1>2, <1>3, <1>5, StagesAre DEF TablesAre, DownIs, ImportIs, StartsIs, UpIs
<1> QED
  BY <1>6, <1>7, <1>8 DEF StartInv

LEMMA StampsInv ==
  ASSUME StartInv, Stamps
  PROVE  StartInv'
<1>1. /\ pc = "imported" /\ pc' = "stamped" /\ tables' = [tables EXCEPT !.stamped = TRUE]
      /\ board' = board /\ was' = was /\ touched' = touched /\ deaths' = deaths /\ file' = file
  BY DEF Stamps
<1>2. /\ tables \in [board: {tables.board}, stamped: BOOLEAN] /\ StartTypeOK
      /\ was.from = "file" /\ tables.board = Saved(file) /\ WasIs /\ FileIs /\ TablesAre
  BY <1>1 DEF StartInv, StartTypeOK, ImportIs
<1>3. /\ tables'.board = tables.board /\ tables'.stamped
      /\ tables' \in [board: {tables'.board}, stamped: BOOLEAN]
  BY <1>1, <1>2
<1>4. StartTypeOK'
  BY <1>1, <1>2, <1>3 DEF StartTypeOK
<1>5. FileIs' /\ WasIs' /\ TablesAre'
  BY <1>1, <1>2, <1>3 DEF FileIs, WasIs, TablesAre
<1>6. DownIs' /\ ImportIs' /\ StartsIs' /\ UpIs'
  BY <1>1, <1>2, <1>3, StagesAre DEF DownIs, ImportIs, StartsIs, UpIs
<1> QED
  BY <1>4, <1>5, <1>6 DEF StartInv

LEMMA LoadsInv ==
  ASSUME StartInv, Loads
  PROVE  StartInv'
<1>1. /\ (pc = "stamped" \/ (pc = "down" /\ ~DueOf(tables, file))) /\ pc' = "load" /\ board' = Loaded(tables)
      /\ tables' = tables /\ was' = was /\ touched' = touched /\ deaths' = deaths /\ file' = file
  BY DueIs DEF Loads
<1>2. /\ StartTypeOK /\ FileIs /\ TablesAre /\ WasIs /\ IsBoard(tables.board)
  BY DEF StartInv, StartTypeOK
<1>3. IsBoard(board') /\ Named(board') /\ Tied(board') /\ Columned(board')
  BY <1>1, <1>2, LoadedStands DEF TablesAre
<1>4. ~DueOf(tables, file) /\ Whole(Loaded(tables)) = ArrivalOf(was)
  <2>1. CASE pc = "down"
    BY <1>1, <2>1 DEF StartInv, DownIs
  <2>2. CASE pc = "stamped"
    <3>1. was.from = "file" /\ tables.board = Saved(file) /\ tables.stamped /\ was.board = file
      BY <2>2 DEF StartInv, ImportIs, WasIs
    <3>2. PICK u : u = [board |-> IF was.from = "file" THEN Saved(was.board) ELSE was.board]
      OBVIOUS
    <3>3. u.board = tables.board
      BY <3>1, <3>2
    <3>4. Loaded(u) = Loaded(tables)
      BY <3>3, LoadedOf
    <3> QED
      BY <3>1, <3>2, <3>4 DEF ArrivalOf, DueOf
  <2> QED
    BY <1>1, <2>1, <2>2
<1>5. StartTypeOK'
  BY <1>1, <1>2, <1>3, StagesAre DEF StartTypeOK
<1>6. FileIs' /\ WasIs' /\ TablesAre'
  BY <1>1, <1>2 DEF FileIs, WasIs, TablesAre
<1>7. FinishedTo("load", board')
  BY DEF FinishedTo
<1>8. StartsIs'
  BY <1>1, <1>3, <1>4, <1>7 DEF StartsIs
<1>9. DownIs' /\ ImportIs' /\ UpIs'
  BY <1>1 DEF DownIs, ImportIs, UpIs
<1> QED
  BY <1>5, <1>6, <1>8, <1>9 DEF StartInv

LEMMA UpgradesInv ==
  ASSUME StartInv, Upgrades
  PROVE  StartInv'
<1>1. /\ pc \in Stages /\ board' = Upgraded(pc, board) /\ pc' = NextStage[pc]
      /\ tables' = IF board' # board THEN [tables EXCEPT !.board = Saved(board')] ELSE tables
      /\ was' = was /\ touched' = touched /\ deaths' = deaths /\ file' = file
  BY DEF Upgrades
<1>2. /\ StartTypeOK /\ FileIs /\ TablesAre /\ WasIs /\ IsBoard(board)
      /\ tables \in [board: {tables.board}, stamped: BOOLEAN] /\ IsBoard(tables.board)
      /\ Loaded(tables) = board /\ Whole(board) = ArrivalOf(was) /\ FinishedTo(pc, board)
      /\ Named(board) /\ Tied(board) /\ Columned(board) /\ ~DueOf(tables, file)
  BY <1>1 DEF StartInv, StartTypeOK, StartsIs
<1>3. PICK b, z, k : b = board /\ z = board' /\ k = pc
  OBVIOUS
<1>4. b \in Boards /\ Named(b) /\ k \in Stages /\ FinishedTo(k, b) /\ z = Upgraded(k, b)
  BY <1>1, <1>2, <1>3, BoardIs
<1>5. Kept(b, z) /\ FinishedTo(NextStage[k], z)
  BY <1>4, StageFinishes
<1>6. Whole(z) = Whole(b) /\ NextStage[k] \in Stages \cup {"up"} /\ (NextStage[k] = "up" => Whole(z) = z)
  BY <1>4, StageArrives
<1>7. Tied(z) /\ Columned(z) /\ Named(z) /\ IsBoard(z) /\ z \in Boards
  BY <1>2, <1>3, <1>5, BoardIs DEF Kept, Tied, Columned
<1>8. /\ tables' \in [board: {tables'.board}, stamped: BOOLEAN] /\ IsBoard(tables'.board)
      /\ Named(tables'.board) /\ Tied(tables'.board) /\ tables'.stamped = tables.stamped
      /\ Loaded(tables') = z /\ ~DueOf(tables', file)
  <2>1. CASE board' = board
    BY <1>1, <1>2, <1>3, <2>1 DEF TablesAre
  <2>2. CASE board' # board
    <3>1. /\ tables' = [tables EXCEPT !.board = Saved(z)] /\ tables'.board = Saved(z)
          /\ tables' \in [board: {tables'.board}, stamped: BOOLEAN] /\ tables'.stamped = tables.stamped
      BY <1>1, <1>2, <1>3, <2>2
    <3>2. IsBoard(tables'.board) /\ Named(tables'.board) /\ Tied(tables'.board)
      BY <1>7, <3>1, SavedStands
    <3>3. PICK t : t = tables'
      OBVIOUS
    <3>4. Loaded(t) = z
      BY <1>7, <3>1, <3>3, RoundTrip
    <3>5. DOMAIN tables'.board.items = DOMAIN z.items
      BY <1>7, <3>1, SavedIs
    <3>6. DOMAIN z.items = DOMAIN b.items
      BY <1>5 DEF Kept
    <3>7. DOMAIN b.items = DOMAIN tables.board.items
      <4>1. tables.board \in Boards
        BY <1>2, BoardIs
      <4> QED
        BY <1>2, <1>3, <4>1, LoadedIs
    <3> QED
      BY <1>2, <3>1, <3>2, <3>3, <3>4, <3>5, <3>6, <3>7 DEF DueOf
  <2> QED
    BY <2>1, <2>2
<1>9. pc' \in Stages \cup {"up"} /\ pc' \notin {"down", "imported", "stamped"} /\ pc' = NextStage[k]
  BY <1>1, <1>3, <1>6, StagesAre
<1>10. StartTypeOK'
  BY <1>1, <1>2, <1>3, <1>7, <1>8, <1>9 DEF StartTypeOK
<1>11. FileIs' /\ WasIs' /\ TablesAre'
  BY <1>1, <1>2, <1>8 DEF FileIs, WasIs, TablesAre
<1>12. DownIs' /\ ImportIs'
  BY <1>9 DEF DownIs, ImportIs
<1>13. StartsIs'
  BY <1>1, <1>2, <1>3, <1>5, <1>6, <1>7, <1>8, <1>9 DEF StartsIs
<1>14. UpIs'
  BY <1>1, <1>2, <1>3, <1>6, <1>7, <1>9 DEF UpIs
<1> QED
  BY <1>10, <1>11, <1>12, <1>13, <1>14 DEF StartInv

(* Tables that hold an imported file bring up what the import began with. *)
LEMMA ImportArrives ==
  ASSUME NEW t, NEW w, w.from = "file", t.board = Saved(w.board)
  PROVE  Whole(Loaded(t)) = ArrivalOf(w)
<1>1. PICK u : u = [board |-> IF w.from = "file" THEN Saved(w.board) ELSE w.board]
  OBVIOUS
<1>2. u.board = t.board
  BY <1>1
<1>3. Loaded(u) = Loaded(t)
  BY <1>2, LoadedOf
<1> QED
  BY <1>1, <1>3 DEF ArrivalOf

LEMMA DiesInv ==
  ASSUME StartInv, NEW flushed \in BOOLEAN, Dies(flushed)
  PROVE  StartInv'
<1>1. /\ pc # "down" /\ deaths < MaxDeaths /\ deaths' = deaths + 1
      /\ flushed => pc = "up"
      /\ tables' = IF flushed THEN [tables EXCEPT !.board = Saved(board)] ELSE tables
      /\ was' = IF pc = "up" THEN Began(tables') ELSE was
      /\ board' = Empty /\ pc' = "down" /\ touched' = 0 /\ file' = file
  BY DEF Dies
<1>2. /\ StartTypeOK /\ FileIs /\ TablesAre /\ WasIs /\ IsBoard(board) /\ IsBoard(tables.board)
      /\ tables \in [board: {tables.board}, stamped: BOOLEAN] /\ deaths \in 0..MaxDeaths
      /\ pc \in {"down", "imported", "stamped", "up"} \cup Stages
      /\ was \in [from: {"file", "tables"}, board: {was.board}] /\ IsBoard(was.board)
  BY DEF StartInv, StartTypeOK
<1>3. /\ tables' \in [board: {tables'.board}, stamped: BOOLEAN] /\ IsBoard(tables'.board)
      /\ Named(tables'.board) /\ Tied(tables'.board)
  <2>1. CASE flushed
    <3>1. Named(board)
      BY <1>1, <2>1 DEF StartInv, UpIs
    <3>2. tables' = [tables EXCEPT !.board = Saved(board)] /\ tables'.board = Saved(board)
          /\ tables' \in [board: {tables'.board}, stamped: BOOLEAN]
      BY <1>1, <1>2, <2>1
    <3> QED
      BY <1>2, <3>1, <3>2, SavedStands
  <2>2. CASE ~flushed
    BY <1>1, <1>2, <2>2 DEF TablesAre
  <2> QED
    BY <2>1, <2>2
<1>4. /\ was' \in [from: {"file", "tables"}, board: {was'.board}]
      /\ IsBoard(was'.board) /\ Named(was'.board)
      /\ was'.from = "file" => was'.board = file /\ file # NoFile
      /\ was'.from = "tables" => Tied(was'.board)
      /\ DueOf(tables', file) => was'.from = "file"
      /\ ~DueOf(tables', file) => Whole(Loaded(tables')) = ArrivalOf(was')
  <2>1. CASE pc = "up"
    <3>1. was' = IF DueOf(tables', file) THEN [from |-> "file", board |-> file]
                 ELSE [from |-> "tables", board |-> tables'.board]
      BY <1>1, <2>1 DEF Began, ImportDue, DueOf
    <3>2. PICK t, f, w : t = tables' /\ f = file /\ w = was'
      OBVIOUS
    <3>3. /\ f = NoFile \/ (IsBoard(f) /\ Named(f))
          /\ IsBoard(t.board) /\ Named(t.board) /\ Tied(t.board)
          /\ w = IF DueOf(t, f) THEN [from |-> "file", board |-> f]
                 ELSE [from |-> "tables", board |-> t.board]
      BY <1>2, <1>3, <3>1, <3>2 DEF FileIs
    <3>4. /\ w \in [from: {"file", "tables"}, board: {w.board}]
          /\ IsBoard(w.board) /\ Named(w.board)
          /\ w.from = "file" => w.board = f /\ f # NoFile
          /\ w.from = "tables" => Tied(w.board)
          /\ DueOf(t, f) => w.from = "file"
          /\ ~DueOf(t, f) => Whole(Loaded(t)) = ArrivalOf(w)
      BY <3>3, BeganIs
    <3> QED
      BY <3>2, <3>4
  <2>2. CASE pc # "up"
    <3>1. was' = was /\ tables' = tables
      BY <1>1, <2>2
    <3>2. DueOf(tables, file) => was.from = "file"
      BY <1>1, <1>2, <2>2 DEF StartInv, ImportIs, StartsIs
    <3>3. ~DueOf(tables, file) => Whole(Loaded(tables)) = ArrivalOf(was)
      <4>1. CASE pc \in Stages
        BY <4>1 DEF StartInv, StartsIs
      <4>2. CASE pc \in {"imported", "stamped"}
        <5>1. was.from = "file" /\ tables.board = Saved(was.board)
          BY <4>2 DEF StartInv, ImportIs, WasIs
        <5> QED
          BY <5>1, ImportArrives
      <4> QED
        BY <1>1, <1>2, <2>2, <4>1, <4>2
    <3> QED
      BY <1>2, <3>1, <3>2, <3>3 DEF WasIs
  <2> QED
    BY <2>1, <2>2
<1>5. StartTypeOK'
  <2>1. deaths' \in 0..MaxDeaths /\ touched' \in 0..MaxEdits
    BY <1>1, <1>2, StartsAssumption
  <2> QED
    BY <1>1, <1>3, <1>4, <2>1, EmptyIs DEF StartTypeOK
<1>6. FileIs' /\ TablesAre' /\ WasIs'
  BY <1>1, <1>2, <1>3, <1>4 DEF FileIs, TablesAre, WasIs
<1>7. DownIs'
  BY <1>1, <1>4 DEF DownIs
<1>8. ImportIs' /\ StartsIs' /\ UpIs'
  BY <1>1, StagesAre DEF ImportIs, StartsIs, UpIs
<1> QED
  BY <1>5, <1>6, <1>7, <1>8 DEF StartInv

(* An edit leaves a board, and the names its specs use. *)
LEMMA EditedInv ==
  ASSUME StartInv, NEW b, Edited(b), IsBoard(b), Named(b)
  PROVE  StartInv'
<1>1. /\ pc = "up" /\ touched < MaxEdits /\ board' = b /\ touched' = touched + 1
      /\ tables' = tables /\ pc' = pc /\ was' = was /\ deaths' = deaths /\ file' = file
  BY DEF Edited
<1>2. /\ StartTypeOK /\ FileIs /\ TablesAre /\ WasIs /\ touched \in 0..MaxEdits
  BY DEF StartInv, StartTypeOK
<1>3. touched' \in 0..MaxEdits /\ touched' # 0
  BY <1>1, <1>2, StartsAssumption
<1>4. StartTypeOK'
  BY <1>1, <1>2, <1>3 DEF StartTypeOK
<1>5. FileIs' /\ TablesAre' /\ WasIs'
  BY <1>1, <1>2 DEF FileIs, TablesAre, WasIs
<1>6. DownIs' /\ ImportIs' /\ StartsIs' /\ UpIs'
  BY <1>1, <1>3, StagesAre DEF DownIs, ImportIs, StartsIs, UpIs
<1> QED
  BY <1>4, <1>5, <1>6 DEF StartInv

LEMMA NewCardInv ==
  ASSUME StartInv, NEW i \in Cards, NEW p \in Cards, NewCard(i, p)
  PROVE  StartInv'
<1>1. IsBoard(board) /\ Named(board)
  BY DEF StartInv, StartTypeOK, UpIs, NewCard, Edited
<1>2. PICK v : v = [parent |-> p, title |-> "task", state |-> "backlog", needs |-> CardsBelow(p),
                    pr |-> "none"]
  OBVIOUS
<1>3. PICK b \in Boards : b = board
  BY <1>1, BoardIs
<1>4. CardsBelow(p) \subseteq Cards
  BY <1>3, PartsOf DEF CardsBelow
<1>5. v \in Items
  BY <1>2, <1>4 DEF Items
<1>6. PICK items : items = b.items
  OBVIOUS
<1>7. items \in Partial(Cards, Items)
  BY <1>6, PartsOf
<1>8. Admits(Entered(items, i, v), items, i, v, Cards, Items)
  BY <1>5, <1>7, EnteredIs
<1>9. PICK z : z = [b EXCEPT !.items = Entered(items, i, v)]
  OBVIOUS
<1>10. z \in Boards /\ z.specs = b.specs /\ z.policies = b.policies
  BY <1>8, <1>9 DEF Admits, Boards
<1>11. Edited(z)
  BY <1>2, <1>3, <1>6, <1>9 DEF NewCard
<1>12. IsBoard(z) /\ Named(z)
  BY <1>1, <1>3, <1>10, BoardIs, NamedOf
<1> QED
  BY <1>11, <1>12, EditedInv

LEMMA DeleteProjectInv ==
  ASSUME StartInv, NEW i \in Cards, DeleteProject(i)
  PROVE  StartInv'
<1>1. IsBoard(board) /\ Named(board)
  BY DEF StartInv, StartTypeOK, UpIs, DeleteProject, Edited
<1>2. PICK b \in Boards : b = board
  BY <1>1, BoardIs
<1>3. PICK gone : gone = {i} \cup CardsBelow(i)
  OBVIOUS
<1>4. PICK f : f = [j \in DOMAIN b.items \ gone |-> [b.items[j] EXCEPT !.needs = @ \ gone]]
  OBVIOUS
<1>5. \A j \in DOMAIN b.items \ gone : f[j] \in Items
  <2> TAKE j \in DOMAIN b.items \ gone
  <2>1. b.items[j] \in Items /\ f[j] = [b.items[j] EXCEPT !.needs = b.items[j].needs \ gone]
    BY <1>4, PartsOf
  <2> QED
    BY <2>1 DEF Items
<1>6. f \in [DOMAIN b.items \ gone -> Items] /\ DOMAIN b.items \ gone \in SUBSET Cards
  BY <1>4, <1>5, PartsOf
<1>7. f \in Partial(Cards, Items)
  BY <1>6, IntoPartial
<1>8. PICK z : z = [b EXCEPT !.items = f]
  OBVIOUS
<1>9. z \in Boards /\ z.specs = b.specs /\ z.policies = b.policies
  BY <1>7, <1>8 DEF Boards
<1>10. Edited(z)
  BY <1>2, <1>3, <1>4, <1>8 DEF DeleteProject
<1>11. IsBoard(z) /\ Named(z)
  BY <1>1, <1>2, <1>9, BoardIs, NamedOf
<1> QED
  BY <1>10, <1>11, EditedInv

LEMMA StoreProviderInv ==
  ASSUME StartInv, NEW n \in ProviderKeys, NEW t \in Kinds, StoreProvider(n, t)
  PROVE  StartInv'
<1>1. IsBoard(board) /\ Named(board)
  BY DEF StartInv, StartTypeOK, UpIs, StoreProvider, Edited
<1>2. PICK b \in Boards : b = board
  BY <1>1, BoardIs
<1>3. PICK v \in Providers : v = [type |-> t, creds |-> {"key"}]
  BY DEF Providers, Material
<1>4. PICK provs : provs = b.provs
  OBVIOUS
<1>5. provs \in Partial(ProviderKeys, Providers)
  BY <1>4, PartsOf
<1>6. Admits(Entered(provs, n, v), provs, n, v, ProviderKeys, Providers)
  BY <1>5, EnteredIs
<1>7. PICK z : z = [b EXCEPT !.provs = Entered(provs, n, v)]
  OBVIOUS
<1>8. z \in Boards /\ z.specs = b.specs /\ z.policies = b.policies
  BY <1>6, <1>7 DEF Admits, Boards
<1>9. Edited(z)
  BY <1>2, <1>3, <1>4, <1>7 DEF StoreProvider
<1>10. IsBoard(z) /\ Named(z)
  BY <1>1, <1>2, <1>8, BoardIs, NamedOf
<1> QED
  BY <1>9, <1>10, EditedInv

LEMMA DropProviderInv ==
  ASSUME StartInv, NEW n \in ProviderKeys, DropProvider(n)
  PROVE  StartInv'
<1>1. IsBoard(board) /\ Named(board)
  BY DEF StartInv, StartTypeOK, UpIs, DropProvider, Edited
<1>2. PICK b \in Boards : b = board
  BY <1>1, BoardIs
<1>3. PICK provs, D : provs = b.provs /\ D = {n}
  OBVIOUS
<1>4. provs \in Partial(ProviderKeys, Providers)
  BY <1>3, PartsOf
<1>5. Drops(Less(provs, D), provs, D, ProviderKeys, Providers)
  BY <1>4, LessIs
<1>6. PICK z : z = [b EXCEPT !.provs = Less(provs, D)]
  OBVIOUS
<1>7. z \in Boards /\ z.specs = b.specs /\ z.policies = b.policies
  BY <1>5, <1>6 DEF Drops, Boards
<1>8. Edited(z)
  BY <1>2, <1>3, <1>6 DEF DropProvider
<1>9. IsBoard(z) /\ Named(z)
  BY <1>1, <1>2, <1>7, BoardIs, NamedOf
<1> QED
  BY <1>8, <1>9, EditedInv

LEMMA AttachProviderInv ==
  ASSUME StartInv, NEW s \in Boxes, NEW n \in ProviderKeys, AttachProvider(s, n)
  PROVE  StartInv'
<1>1. IsBoard(board) /\ Named(board)
  BY DEF StartInv, StartTypeOK, UpIs, AttachProvider, Edited
<1>2. PICK b \in Boards : b = board
  BY <1>1, BoardIs
<1>3. PICK f : f = [b.specs EXCEPT ![s] = [b.specs[s] EXCEPT !.wants = b.specs[s].wants \cup {n}]]
  OBVIOUS
<1>4. s \in DOMAIN b.specs /\ b.specs \in [DOMAIN b.specs -> Specs] /\ DOMAIN b.specs \in SUBSET Boxes
  BY <1>2, PartsOf DEF AttachProvider
<1>5. PICK v : v = [b.specs[s] EXCEPT !.wants = b.specs[s].wants \cup {n}]
  OBVIOUS
<1>6. b.specs[s] \in Specs
  BY <1>4
<1>7. v \in Specs /\ v.policy = b.specs[s].policy /\ v.inline = b.specs[s].inline
  BY <1>5, <1>6 DEF Specs
<1>8. /\ f \in [DOMAIN b.specs -> Specs] /\ DOMAIN f = DOMAIN b.specs
      /\ \A x \in DOMAIN b.specs : f[x] = IF x = s THEN v ELSE b.specs[x]
  BY <1>3, <1>4, <1>5, <1>7
<1>9. f \in Partial(Boxes, Specs)
  BY <1>4, <1>8, IntoPartial
<1>10. PICK z : z = [b EXCEPT !.specs = f]
  OBVIOUS
<1>11. z \in Boards /\ z.specs = f /\ z.policies = b.policies
  BY <1>9, <1>10 DEF Boards
<1>12. z = [b EXCEPT !.specs[s].wants = b.specs[s].wants \cup {n}]
  BY <1>3, <1>10
<1>13. Edited(z)
  BY <1>2, <1>12 DEF AttachProvider
<1>14. \A x \in DOMAIN z.specs : /\ x \in DOMAIN b.specs /\ z.specs[x].policy = b.specs[x].policy
                                 /\ z.specs[x].inline = b.specs[x].inline
  BY <1>7, <1>8, <1>11
<1>15. IsBoard(z) /\ Named(z)
  BY <1>1, <1>2, <1>11, <1>14, BoardIs DEF Named
<1> QED
  BY <1>13, <1>15, EditedInv

LEMMA DeleteBoxInv ==
  ASSUME StartInv, NEW s \in Boxes, DeleteBox(s)
  PROVE  StartInv'
<1>1. IsBoard(board) /\ Named(board)
  BY DEF StartInv, StartTypeOK, UpIs, DeleteBox, Edited
<1>2. PICK b \in Boards : b = board
  BY <1>1, BoardIs
<1>3. PICK boxes, D : boxes = b.specs /\ D = {s}
  OBVIOUS
<1>4. boxes \in Partial(Boxes, Specs)
  BY <1>3, PartsOf
<1>5. Drops(Less(boxes, D), boxes, D, Boxes, Specs)
  BY <1>4, LessIs
<1>6. PICK z : z = [b EXCEPT !.specs = Less(boxes, D)]
  OBVIOUS
<1>7. z \in Boards /\ z.specs = Less(boxes, D) /\ z.policies = b.policies
  BY <1>5, <1>6 DEF Drops, Boards
<1>8. Edited(z)
  BY <1>2, <1>3, <1>6 DEF DeleteBox
<1>9. \A x \in DOMAIN z.specs : x \in DOMAIN b.specs /\ z.specs[x] = b.specs[x]
  BY <1>3, <1>5, <1>7 DEF Drops
<1>10. IsBoard(z) /\ Named(z)
  BY <1>1, <1>2, <1>7, <1>9, BoardIs DEF Named
<1> QED
  BY <1>8, <1>10, EditedInv

LEMMA NextInv == StartInv /\ [StartNext]_startVars => StartInv'
<1> SUFFICES ASSUME StartInv, [StartNext]_startVars
             PROVE  StartInv'
  OBVIOUS
<1>1. CASE ImportSaves
  BY <1>1, ImportSavesInv
<1>2. CASE Stamps
  BY <1>2, StampsInv
<1>3. CASE Loads
  BY <1>3, LoadsInv
<1>4. CASE Upgrades
  BY <1>4, UpgradesInv
<1>5. CASE Dies(FALSE) \/ Dies(TRUE)
  BY <1>5, DiesInv
<1>6. CASE \E i, p \in Cards : NewCard(i, p)
  BY <1>6, NewCardInv
<1>7. CASE \E i \in Cards : DeleteProject(i)
  BY <1>7, DeleteProjectInv
<1>8. CASE \E n \in ProviderKeys, t \in Kinds : StoreProvider(n, t)
  BY <1>8, StoreProviderInv
<1>9. CASE \E n \in ProviderKeys : DropProvider(n)
  BY <1>9, DropProviderInv
<1>10. CASE \E s \in Boxes, n \in ProviderKeys : AttachProvider(s, n)
  BY <1>10, AttachProviderInv
<1>11. CASE \E s \in Boxes : DeleteBox(s)
  BY <1>11, DeleteBoxInv
<1>12. CASE UNCHANGED startVars
  BY <1>12 DEF startVars, StartInv, StartTypeOK, FileIs, TablesAre, WasIs, DownIs, ImportIs, StartsIs, UpIs
<1> QED
  BY <1>1, <1>2, <1>3, <1>4, <1>5, <1>6, <1>7, <1>8, <1>9, <1>10, <1>11, <1>12 DEF StartNext

-------------------------------------------------------------------------------
(* What a start keeps of the board it is given. *)

(* The text a spec runs under follows its policy through any upgrade that moves neither. *)
LEMMA TextStays ==
  ASSUME NEW b, NEW z, Named(b), NEW s \in DOMAIN b.specs,
         z.specs[s].policy = b.specs[s].policy, z.specs[s].inline = b.specs[s].inline,
         \A p \in DOMAIN b.policies : z.policies[p] = b.policies[p]
  PROVE  TextOf(z, s) = TextOf(b, s)
  BY DEF TextOf, Named

(* The first stage: cards are retitled, and texts move into the catalog. *)
LEMMA LoadKeeps ==
  ASSUME NEW b \in Boards, Named(b), NEW z, z = Cataloged(Inlined(HealedItems(b)))
  PROVE  /\ \A i \in DOMAIN b.items :
              /\ z.items[i].parent = b.items[i].parent /\ z.items[i].needs = b.items[i].needs
              /\ z.items[i].state = b.items[i].state \/ b.items[i].title \in {"legacy", "plan"}
         /\ DOMAIN z.specs = DOMAIN b.specs /\ z.provs = b.provs /\ z.app = b.app
         /\ \A s \in DOMAIN b.specs : z.specs[s].wants = b.specs[s].wants
         /\ DOMAIN b.policies \subseteq DOMAIN z.policies
         /\ \A p \in DOMAIN b.policies : z.policies[p] = b.policies[p]
         /\ \A s \in DOMAIN b.specs : TextOf(z, s) = TextOf(b, s)
<1>1. PICK y : y = HealedItems(b)
  OBVIOUS
<1>2. /\ y \in Boards /\ Others(b, y, {"items"}) /\ DOMAIN y.items = DOMAIN b.items
      /\ \A i \in DOMAIN b.items :
           y.items[i] = [b.items[i] EXCEPT !.title = Retitled(b, i), !.state = Restated(b, i)]
  BY <1>1, HealedIs
<1>3. \A i \in DOMAIN b.items :
        /\ y.items[i].parent = b.items[i].parent /\ y.items[i].needs = b.items[i].needs
        /\ y.items[i].state = b.items[i].state \/ b.items[i].title \in {"legacy", "plan"}
  <2> TAKE i \in DOMAIN b.items
  <2>1. b.items[i] \in Items
    BY PartsOf
  <2>2. y.items[i].state = Restated(b, i) /\ y.items[i].parent = b.items[i].parent
        /\ y.items[i].needs = b.items[i].needs
    BY <1>2, <2>1 DEF Items
  <2>3. Restated(b, i) = b.items[i].state \/ b.items[i].title \in {"legacy", "plan"}
    BY DEF Restated, Retitled
  <2> QED
    BY <2>2, <2>3
<1>4. y.specs = b.specs /\ y.policies = b.policies /\ y.provs = b.provs /\ y.app = b.app
  BY <1>2 DEF Others
<1>5. PICK x : x = Inlined(y)
  OBVIOUS
<1>6. /\ x \in Boards /\ Others(y, x, {"specs"}) /\ DOMAIN x.specs = DOMAIN y.specs
      /\ \A s \in DOMAIN y.specs :
           /\ x.specs[s].policy = y.specs[s].policy /\ x.specs[s].wants = y.specs[s].wants
           /\ x.specs[s].inline = IF y.specs[s].inline \in DOMAIN Host
                                  THEN Host[y.specs[s].inline] ELSE y.specs[s].inline
  BY <1>2, <1>5, InlinedIs
<1>7. x.items = y.items /\ x.policies = y.policies /\ x.provs = y.provs /\ x.app = y.app
  BY <1>6 DEF Others
<1>8. \A s \in DOMAIN x.specs : /\ x.specs[s].inline \notin DOMAIN Host
                                /\ x.specs[s].inline # NoText => y.specs[s].inline # NoText
  <2> TAKE s \in DOMAIN x.specs
  <2>1. CASE y.specs[s].inline \in DOMAIN Host
    <3>1. Host[y.specs[s].inline] \in Texts
      BY <2>1, TextsAssumption
    <3> QED
      BY <1>6, <2>1, <3>1, TextsAssumption
  <2>2. CASE y.specs[s].inline \notin DOMAIN Host
    BY <1>6, <2>2
  <2> QED
    BY <2>1, <2>2
<1>9. Named(x)
  BY <1>4, <1>6, <1>7, <1>8 DEF Named
<1>10. \A s \in DOMAIN b.specs : TextOf(x, s) = TextOf(b, s)
  BY <1>4, <1>6, <1>7, <1>8 DEF TextOf
<1>11. z = Cataloged(x)
  BY <1>1, <1>5
<1>12. /\ z \in Boards /\ Others(x, z, {"policies", "specs"}) /\ DOMAIN z.specs = DOMAIN x.specs
       /\ DOMAIN x.policies \subseteq DOMAIN z.policies
       /\ \A p \in DOMAIN x.policies : z.policies[p] = x.policies[p]
       /\ \A s \in DOMAIN x.specs : z.specs[s].wants = x.specs[s].wants
       /\ \A s \in DOMAIN x.specs \ Pending(x) : z.specs[s] = x.specs[s]
       /\ \A s \in Pending(x) : /\ s \in DOMAIN x.specs /\ z.specs[s].policy # NoPolicy
                                /\ z.policies[z.specs[s].policy] = x.specs[s].inline
  <2>1. /\ Cataloged(x) \in Boards /\ Others(x, Cataloged(x), {"policies", "specs"})
        /\ DOMAIN Cataloged(x).specs = DOMAIN x.specs
        /\ DOMAIN x.policies \subseteq DOMAIN Cataloged(x).policies
        /\ \A p \in DOMAIN x.policies : Cataloged(x).policies[p] = x.policies[p]
        /\ \A s \in DOMAIN x.specs : Cataloged(x).specs[s].wants = x.specs[s].wants
        /\ \A s \in DOMAIN x.specs \ Pending(x) : Cataloged(x).specs[s] = x.specs[s]
        /\ \A s \in Pending(x) :
             /\ s \in DOMAIN x.specs /\ Cataloged(x).specs[s].policy # NoPolicy
             /\ Cataloged(x).policies[Cataloged(x).specs[s].policy] = x.specs[s].inline
    BY <1>6, <1>9, CatalogedIs
  <2> QED
    BY <1>11, <2>1
<1>13. \A s \in DOMAIN x.specs : TextOf(z, s) = TextOf(x, s)
  <2> TAKE s \in DOMAIN x.specs
  <2>1. CASE s \in Pending(x)
    <3>1. TextOf(x, s) = x.specs[s].inline
      BY <1>8, <2>1 DEF TextOf, Pending
    <3> QED
      BY <1>12, <2>1, <3>1 DEF TextOf
  <2>2. CASE s \notin Pending(x)
    <3>1. z.specs[s] = x.specs[s]
      BY <1>12, <2>2
    <3> QED
      BY <1>9, <1>12, <3>1, TextStays
  <2> QED
    BY <2>1, <2>2
<1>14. z.items = x.items /\ z.provs = x.provs /\ z.app = x.app
  BY <1>12 DEF Others
<1> QED
  BY <1>3, <1>4, <1>6, <1>7, <1>10, <1>12, <1>13, <1>14

(* The rest of them touches no card, and of the App's row only adds. *)
LEMMA WholeKeeps ==
  ASSUME NEW b \in Boards, Named(b), NEW z, z = Whole(b)
  PROVE  /\ DOMAIN z.items = DOMAIN b.items /\ z.lines = b.lines
         /\ \A i \in DOMAIN b.items :
              /\ z.items[i].parent = b.items[i].parent /\ z.items[i].needs = b.items[i].needs
              /\ z.items[i].state = b.items[i].state \/ b.items[i].title \in {"legacy", "plan"}
              /\ z.items[i].pr = b.items[i].pr
         /\ KeepsSettings(b, z)
<1>1. PICK c : c = Cataloged(Inlined(HealedItems(b)))
  OBVIOUS
<1>2. /\ c \in Boards /\ Named(c) /\ InCatalog(c) /\ c.lines = b.lines /\ DOMAIN c.items = DOMAIN b.items
      /\ \A i \in DOMAIN b.items : c.items[i].pr = b.items[i].pr
  BY <1>1, LoadFinishes
<1>3. /\ \A i \in DOMAIN b.items :
           /\ c.items[i].parent = b.items[i].parent /\ c.items[i].needs = b.items[i].needs
           /\ c.items[i].state = b.items[i].state \/ b.items[i].title \in {"legacy", "plan"}
      /\ DOMAIN c.specs = DOMAIN b.specs /\ c.provs = b.provs /\ c.app = b.app
      /\ \A s \in DOMAIN b.specs : c.specs[s].wants = b.specs[s].wants
      /\ DOMAIN b.policies \subseteq DOMAIN c.policies
      /\ \A p \in DOMAIN b.policies : c.policies[p] = b.policies[p]
      /\ \A s \in DOMAIN b.specs : TextOf(c, s) = TextOf(b, s)
  BY <1>1, LoadKeeps
<1>4. PICK d : d = WithMinimal(c)
  OBVIOUS
<1>5. Kept(c, d) /\ InCatalog(d) /\ HasMinimal(d)
  BY <1>2, <1>4, MinimalFinishes
<1>6. /\ d \in Boards /\ Others(c, d, {"policies"}) /\ DOMAIN c.policies \subseteq DOMAIN d.policies
      /\ \A p \in DOMAIN c.policies : d.policies[p] = c.policies[p]
  BY <1>2, <1>4, MinimalIs
<1>7. d.items = c.items /\ d.lines = c.lines /\ d.specs = c.specs /\ d.provs = c.provs /\ d.app = c.app
  BY <1>6 DEF Others
<1>8. PICK e : e = WithShipped(d)
  OBVIOUS
<1>9. Kept(d, e) /\ InCatalog(e) /\ HasMinimal(e) /\ HasShipped(e)
  BY <1>5, <1>8, ShippedFinishes DEF Kept
<1>10. /\ e \in Boards /\ Others(d, e, {"policies", "specs"}) /\ DOMAIN d.policies \subseteq DOMAIN e.policies
       /\ \A p \in DOMAIN d.policies : e.policies[p] = d.policies[p]
       /\ DOMAIN d.specs \subseteq DOMAIN e.specs /\ \A s \in DOMAIN d.specs : e.specs[s] = d.specs[s]
  BY <1>6, <1>8, ShippedIs
<1>11. e.items = d.items /\ e.lines = d.lines /\ e.provs = d.provs /\ e.app = d.app
  BY <1>10 DEF Others
<1>12. PICK f : f = Renamed(e)
  OBVIOUS
<1>13. Kept(e, f) /\ InCatalog(f) /\ HasMinimal(f) /\ HasShipped(f) /\ IsRenamed(f)
  BY <1>9, <1>12, RenameFinishes DEF Kept
<1>14. /\ f \in Boards /\ Others(e, f, {"provs", "specs"})
       /\ f.provs = RenamedRows(e.provs, OldRow(e)) /\ DOMAIN f.specs = DOMAIN e.specs
       /\ \A s \in DOMAIN e.specs :
            /\ f.specs[s].policy = e.specs[s].policy /\ f.specs[s].inline = e.specs[s].inline
            /\ f.specs[s].wants = {NewName(n) : n \in e.specs[s].wants}
  BY <1>10, <1>12, RenamedIs
<1>15. f.items = e.items /\ f.lines = e.lines /\ f.policies = e.policies /\ f.app = e.app
  BY <1>14 DEF Others
<1>16. PICK g : g = Unsealed(f)
  OBVIOUS
<1>17. /\ Kept(f, g) /\ InCatalog(g) /\ HasMinimal(g) /\ HasShipped(g) /\ IsRenamed(g) /\ g.app = {}
  BY <1>13, <1>14, <1>16, UnsealFinishes DEF Kept
<1>18. /\ g \in Boards /\ Others(f, g, {"provs", "app"})
       /\ DOMAIN g.provs = IF f.app = {} THEN DOMAIN f.provs ELSE DOMAIN f.provs \cup {App}
       /\ \A n \in DOMAIN f.provs \ {App} : g.provs[n] = f.provs[n]
       /\ f.app # {} => f.app \subseteq g.provs[App].creds
       /\ App \in DOMAIN f.provs => f.provs[App].creds \subseteq g.provs[App].creds
  <2>1. /\ Unsealed(f) \in Boards /\ Others(f, Unsealed(f), {"provs", "app"})
        /\ DOMAIN Unsealed(f).provs = IF f.app = {} THEN DOMAIN f.provs ELSE DOMAIN f.provs \cup {App}
        /\ \A n \in DOMAIN f.provs \ {App} : Unsealed(f).provs[n] = f.provs[n]
        /\ f.app # {} => f.app \subseteq Unsealed(f).provs[App].creds
        /\ App \in DOMAIN f.provs => f.provs[App].creds \subseteq Unsealed(f).provs[App].creds
    BY <1>14, UnsealedIs
  <2> QED
    BY <1>16, <2>1
<1>19. g.items = f.items /\ g.lines = f.lines /\ g.policies = f.policies /\ g.specs = f.specs
  BY <1>18 DEF Others
<1>20. PICK h : h = Pruned(g)
  OBVIOUS
<1>21. /\ h \in Boards /\ Others(g, h, {"specs"}) /\ DOMAIN h.specs = DOMAIN g.specs
       /\ \A s \in DOMAIN g.specs :
            /\ h.specs[s].policy = g.specs[s].policy /\ h.specs[s].inline = g.specs[s].inline
            /\ h.specs[s].wants = g.specs[s].wants \cap DOMAIN g.provs
  BY <1>18, <1>20, PrunedIs
<1>22. h.items = g.items /\ h.lines = g.lines /\ h.policies = g.policies /\ h.provs = g.provs
  BY <1>21 DEF Others
<1>23. z = Seeded("types", Seeded("runtime", Seeded("forge", h)))
  BY <1>1, <1>4, <1>8, <1>12, <1>16, <1>20 DEF Whole
<1>24. /\ z.items = h.items /\ z.lines = h.lines /\ z.policies = h.policies /\ z.specs = h.specs
       /\ z.provs = h.provs
  <2>1. PICK u : u = Seeded("forge", h)
    OBVIOUS
  <2>2. u \in Boards /\ Others(h, u, {"seeds"})
    BY <1>21, <2>1, SeededIs DEF Seeds
  <2>3. PICK v : v = Seeded("runtime", u)
    OBVIOUS
  <2>4. v \in Boards /\ Others(u, v, {"seeds"})
    BY <2>2, <2>3, SeededIs DEF Seeds
  <2>5. z = Seeded("types", v)
    BY <1>23, <2>1, <2>3
  <2>6. Others(v, z, {"seeds"})
    BY <2>4, <2>5, SeededIs DEF Seeds
  <2> QED
    BY <2>2, <2>4, <2>6 DEF Others
<1>25. /\ DOMAIN z.items = DOMAIN b.items /\ z.lines = b.lines
       /\ \A i \in DOMAIN b.items :
            /\ z.items[i].parent = b.items[i].parent /\ z.items[i].needs = b.items[i].needs
            /\ z.items[i].state = b.items[i].state \/ b.items[i].title \in {"legacy", "plan"}
            /\ z.items[i].pr = b.items[i].pr
  BY <1>2, <1>3, <1>7, <1>11, <1>15, <1>19, <1>22, <1>24
<1>26. \A p \in DOMAIN b.policies : z.policies[p] = b.policies[p]
  BY <1>3, <1>6, <1>10, <1>15, <1>19, <1>22, <1>24
<1>27. \A s \in DOMAIN b.specs : TextOf(z, s) = TextOf(b, s)
  <2> TAKE s \in DOMAIN b.specs
  <2>1. s \in DOMAIN c.specs /\ s \in DOMAIN e.specs /\ TextOf(c, s) = TextOf(b, s)
    BY <1>3, <1>7, <1>10
  <2>2. z.specs[s].policy = c.specs[s].policy /\ z.specs[s].inline = c.specs[s].inline
    BY <1>7, <1>10, <1>14, <1>19, <1>21, <1>24, <2>1
  <2>3. \A p \in DOMAIN c.policies : z.policies[p] = c.policies[p]
    BY <1>6, <1>10, <1>15, <1>19, <1>22, <1>24
  <2>4. TextOf(z, s) = TextOf(c, s)
    BY <1>2, <2>1, <2>2, <2>3, TextStays
  <2> QED
    BY <2>1, <2>4
<1>28. e.provs = b.provs /\ e.app = b.app /\ f.app = b.app
  BY <1>3, <1>7, <1>11, <1>15
<1>29. OldRow(e) = OldRow(b)
  BY <1>28 DEF OldRow
<1>30. PICK old \in BOOLEAN : old = OldRow(b)
  BY DEF OldRow
<1>31. PICK p \in Partial(ProviderKeys, Providers) : p = b.provs
  BY PartsOf
<1>32. (old => Legacy \in DOMAIN p) /\ f.provs = RenamedRows(p, old)
  <2>1. old => Legacy \in DOMAIN p
    BY <1>30, <1>31 DEF OldRow
  <2>2. f.provs = RenamedRows(p, old)
    BY <1>14, <1>28, <1>29, <1>30, <1>31
  <2> QED
    BY <2>1, <2>2
<1>33. /\ DOMAIN f.provs = IF old THEN (DOMAIN p \ {Legacy}) \cup {App} ELSE DOMAIN p
       /\ \A n \in DOMAIN p \ {Legacy} : f.provs[n].creds = p[n].creds
       /\ old /\ App \notin DOMAIN p => f.provs[App].creds = p[Legacy].creds
  <2>1. /\ DOMAIN RenamedRows(p, old) = IF old THEN (DOMAIN p \ {Legacy}) \cup {App} ELSE DOMAIN p
        /\ \A n \in DOMAIN p \ {Legacy} : RenamedRows(p, old)[n].creds = p[n].creds
        /\ old /\ App \notin DOMAIN p => RenamedRows(p, old)[App].creds = p[Legacy].creds
    BY <1>32, RowsAre
  <2> QED
    BY <1>32, <2>1
<1>34. DOMAIN f.provs \subseteq DOMAIN g.provs /\ z.provs = g.provs
  BY <1>18, <1>22, <1>24
<1>35. \A n \in DOMAIN f.provs : f.provs[n].creds \subseteq z.provs[n].creds
  BY <1>18, <1>34
<1>36. \A n \in DOMAIN b.provs \ {Legacy} : b.provs[n].creds \subseteq z.provs[n].creds
  BY <1>31, <1>33, <1>35
<1>37. OldRow(b) /\ App \notin DOMAIN b.provs => b.provs[Legacy].creds \subseteq z.provs[App].creds
  BY <1>30, <1>31, <1>33, <1>35
<1>38. b.app # {} => b.app \subseteq z.provs[App].creds
  BY <1>18, <1>28, <1>34
<1>39. ASSUME NEW s \in DOMAIN b.specs, NEW n \in DOMAIN b.provs, n \in b.specs[s].wants,
              n = Legacy => OldRow(b)
       PROVE  NewName(n) \in z.specs[s].wants
  <2>1. s \in DOMAIN e.specs /\ e.specs[s].wants = b.specs[s].wants
    BY <1>3, <1>7, <1>10
  <2>2. z.specs[s].wants = {NewName(m) : m \in b.specs[s].wants} \cap DOMAIN g.provs
    BY <1>14, <1>19, <1>21, <1>24, <2>1
  <2>3. NewName(n) \in DOMAIN f.provs
    <3>1. CASE n = Legacy
      BY <1>30, <1>33, <1>39, <3>1 DEF NewName
    <3>2. CASE n # Legacy
      BY <1>31, <1>33, <3>2 DEF NewName
    <3> QED
      BY <3>1, <3>2
  <2> QED
    BY <1>34, <1>39, <2>2, <2>3
<1>40. KeepsSettings(b, z)
  BY <1>26, <1>27, <1>36, <1>37, <1>38, <1>39 DEF KeepsSettings
<1> QED
  BY <1>25, <1>40

-------------------------------------------------------------------------------
(* The invariant holds at every step of a start, a death or an edit. *)
LEMMA StartHolds == StartSpec => []StartInv
<1>1. StartInit(Pasts) => StartInv
  BY InitInv
<1>2. StartInv /\ [StartNext]_startVars => StartInv'
  BY NextInv
<1> QED
  BY <1>1, <1>2, PTL DEF StartSpec

(* The tables, the Board in memory and what a start began from are boards, and  *)
(* a start is at one of its stages: store.rs load_with_store, db/sqlite.rs.      *)
THEOREM StartTypes == StartSpec => []StartTypeOK
<1>1. StartInv => StartTypeOK
  BY DEF StartInv
<1> QED
  BY <1>1, StartHolds, PTL

(* A start cut short at any transaction, any number of times, and repeated ends *)
(* with the Board of a start that was not: no upgrade of load_with_store leaves  *)
(* a half that another start takes for done.                                     *)
THEOREM StartsConverge == StartSpec => []BootConverges
<1>1. StartInv => BootConverges
  BY DueIs DEF StartInv, UpIs, BootConverges
<1> QED
  BY <1>1, StartHolds, PTL

(* What is read of the tables a start began with keeps their cards. *)
LEMMA ArrivalKeeps ==
  ASSUME StartInv, NEW z, z = ArrivalOf(was)
  PROVE  KeepsCards(was.board, z) /\ KeepsSettings(was.board, z)
<1>1. /\ IsBoard(was.board) /\ Named(was.board) /\ was.from \in {"file", "tables"}
      /\ was.from = "tables" => Tied(was.board)
  BY DEF StartInv, StartTypeOK, WasIs
<1>2. PICK a \in Boards : a = was.board
  BY <1>1, BoardIs
<1>3. PICK y : y = IF was.from = "file" THEN Saved(a) ELSE a
  OBVIOUS
<1>4. /\ y \in Boards /\ Others(a, y, {"items", "lines"}) /\ DOMAIN y.items = DOMAIN a.items
      /\ y.lines = a.lines \cap DOMAIN a.items
      /\ \A i \in DOMAIN a.items :
           y.items[i] = IF was.from = "file"
                        THEN [a.items[i] EXCEPT !.pr = IF a.items[i].pr = "legacy" THEN "none"
                                                       ELSE a.items[i].pr]
                        ELSE a.items[i]
  <2>1. CASE was.from = "file"
    <3>1. y = Saved(a)
      BY <1>3, <2>1
    <3>2. /\ Saved(a) \in Boards /\ Others(a, Saved(a), {"items", "lines"})
          /\ Saved(a).lines = a.lines \cap DOMAIN a.items /\ DOMAIN Saved(a).items = DOMAIN a.items
          /\ \A i \in DOMAIN a.items :
               Saved(a).items[i] = [a.items[i] EXCEPT !.pr = IF a.items[i].pr = "legacy" THEN "none"
                                                              ELSE a.items[i].pr]
      BY SavedIs
    <3> QED
      BY <2>1, <3>1, <3>2
  <2>2. CASE was.from # "file"
    <3>1. y = a /\ Tied(a)
      BY <1>1, <1>2, <1>3, <2>2
    <3> QED
      BY <2>2, <3>1 DEF Tied, Others
  <2> QED
    BY <2>1, <2>2
<1>5. Named(y)
  BY <1>1, <1>2, <1>4, NamedOf DEF Others
<1>6. PICK t : t = [board |-> y]
  OBVIOUS
<1>7. t.board = y /\ t.board \in Boards
  BY <1>4, <1>6
<1>8. PICK x : x = Loaded(t)
  OBVIOUS
<1>9. /\ x \in Boards /\ Others(y, x, {"items"}) /\ DOMAIN x.items = DOMAIN y.items
      /\ \A i \in DOMAIN y.items :
           x.items[i] = [y.items[i] EXCEPT !.pr = IF y.items[i].pr = "legacy" THEN "listed"
                                                  ELSE y.items[i].pr]
  <2>1. /\ Loaded(t) \in Boards /\ Others(t.board, Loaded(t), {"items"})
        /\ DOMAIN Loaded(t).items = DOMAIN t.board.items
        /\ \A i \in DOMAIN t.board.items :
              Loaded(t).items[i] = [t.board.items[i] EXCEPT !.pr = IF t.board.items[i].pr = "legacy"
                                                                   THEN "listed" ELSE t.board.items[i].pr]
    BY <1>7, LoadedIs
  <2> QED
    BY <1>7, <1>8, <2>1
<1>10. Named(x)
  BY <1>5, <1>9, NamedOf DEF Others
<1>11. z = Whole(x)
  <2>1. t = [board |-> IF was.from = "file" THEN Saved(was.board) ELSE was.board]
    BY <1>2, <1>3, <1>6
  <2> QED
    BY <1>8, <2>1 DEF ArrivalOf
<1>12. /\ DOMAIN z.items = DOMAIN x.items /\ z.lines = x.lines
       /\ \A i \in DOMAIN x.items :
            /\ z.items[i].parent = x.items[i].parent /\ z.items[i].needs = x.items[i].needs
            /\ z.items[i].state = x.items[i].state \/ x.items[i].title \in {"legacy", "plan"}
            /\ z.items[i].pr = x.items[i].pr
       /\ KeepsSettings(x, z)
  BY <1>9, <1>10, <1>11, WholeKeeps
<1>13. /\ x.lines = y.lines /\ x.policies = a.policies /\ x.specs = a.specs /\ x.provs = a.provs
       /\ x.app = a.app
  BY <1>4, <1>9 DEF Others
<1>14. \A i \in DOMAIN a.items :
         /\ x.items[i].parent = a.items[i].parent /\ x.items[i].needs = a.items[i].needs
         /\ x.items[i].state = a.items[i].state /\ x.items[i].title = a.items[i].title
         /\ was.from = "tables" => (a.items[i].pr # "none") = (x.items[i].pr = "listed")
  <2> TAKE i \in DOMAIN a.items
  <2>1. a.items[i] \in Items
    BY PartsOf
  <2>2. y.items[i] \in Items /\ i \in DOMAIN y.items
    BY <1>4, PartsOf
  <2>3. PICK u, v, w : u = a.items[i] /\ v = y.items[i] /\ w = x.items[i]
    OBVIOUS
  <2>4. /\ u \in Items /\ v \in Items
        /\ v = IF was.from = "file" THEN [u EXCEPT !.pr = IF u.pr = "legacy" THEN "none" ELSE u.pr]
               ELSE u
        /\ w = [v EXCEPT !.pr = IF v.pr = "legacy" THEN "listed" ELSE v.pr]
    BY <1>4, <1>9, <2>1, <2>2, <2>3
  <2>5. /\ w.parent = v.parent /\ w.needs = v.needs /\ w.state = v.state /\ w.title = v.title
        /\ w.pr = IF v.pr = "legacy" THEN "listed" ELSE v.pr
    BY <2>4 DEF Items
  <2>6. /\ v.parent = u.parent /\ v.needs = u.needs /\ v.state = u.state /\ v.title = u.title
        /\ was.from = "tables" => v = u
    BY <2>4 DEF Items
  <2>7. was.from = "tables" => (u.pr # "none") = (w.pr = "listed")
    <3>1. u.pr \in {"none", "legacy", "listed"}
      BY <2>4 DEF Items
    <3> QED
      BY <2>5, <2>6, <3>1
  <2> QED
    BY <2>3, <2>5, <2>6, <2>7
<1>15. KeepsCards(a, z)
  BY <1>4, <1>9, <1>12, <1>13, <1>14 DEF KeepsCards
<1>16. KeepsSettings(a, z)
  <2>1. \A s : TextOf(x, s) = TextOf(a, s)
    BY <1>13 DEF TextOf
  <2>2. OldRow(x) = OldRow(a)
    BY <1>13 DEF OldRow
  <2>3. /\ \A p \in DOMAIN a.policies : z.policies[p] = a.policies[p]
        /\ \A n \in DOMAIN a.provs \ {Legacy} : a.provs[n].creds \subseteq z.provs[n].creds
        /\ a.app # {} => a.app \subseteq z.provs[App].creds
    BY <1>12, <1>13 DEF KeepsSettings
  <2>4. \A s \in DOMAIN a.specs : TextOf(a, s) # NoText => TextOf(z, s) = TextOf(a, s)
    BY <1>12, <1>13, <2>1 DEF KeepsSettings
  <2>5. OldRow(a) /\ App \notin DOMAIN a.provs => a.provs[Legacy].creds \subseteq z.provs[App].creds
    BY <1>12, <1>13, <2>2 DEF KeepsSettings
  <2>6. \A s \in DOMAIN a.specs, n \in DOMAIN a.provs :
          n \in a.specs[s].wants /\ (n = Legacy => OldRow(a)) => NewName(n) \in z.specs[s].wants
    BY <1>12, <1>13, <2>2 DEF KeepsSettings
  <2> QED
    BY <2>3, <2>4, <2>5, <2>6 DEF KeepsSettings
<1> QED
  BY <1>2, <1>15, <1>16

(* No start loses what an operator had, wherever it or those before it were cut *)
(* short: cards, blockers, stories, the text of every policy a spec ran under,   *)
(* the App's credentials and each attach of a provider that is there             *)
(* (load_with_store and the upgrades it calls).                                  *)
THEOREM UpgradesKeep == StartSpec => []UpgradeKeeps
<1>1. StartInv => UpgradeKeeps
  <2> SUFFICES ASSUME StartInv, pc = "up", touched = 0
               PROVE  KeepsCards(was.board, board) /\ KeepsSettings(was.board, board)
    BY DEF UpgradeKeeps
  <2>1. board = ArrivalOf(was)
    BY DEF StartInv, UpIs
  <2>2. PICK z : z = board
    OBVIOUS
  <2>3. KeepsCards(was.board, z) /\ KeepsSettings(was.board, z)
    BY <2>1, <2>2, ArrivalKeeps
  <2> QED
    BY <2>2, <2>3
<1> QED
  BY <1>1, StartHolds, PTL
================================================================================
