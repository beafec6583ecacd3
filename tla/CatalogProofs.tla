----------------------------- MODULE CatalogProofs -----------------------------
(***************************************************************************)
(* Proofs about Catalog, for every number of products, setups, seeders and *)
(* walks, whatever the limits sent and wherever a page is cut.             *)
(***************************************************************************)
EXTENDS Catalog, FiniteSetTheorems, TLAPS

(***************************************************************************)
(* A query of the partition: the order of its items, and where it stops.   *)
(***************************************************************************)

\* A product's place is that of no other, and a later product has a later one.
LEMMA PlacesAscend ==
  ASSUME NEW S \in SUBSET Nat, IsFiniteSet(S)
  PROVE  /\ \A p \in S : p \in Nat /\ Place(p, S) \in 1 .. Cardinality(S)
         /\ \A p, q \in S : p < q => Place(p, S) < Place(q, S)
<1> DEFINE Upto(p) == {q \in S : q <= p}
<1>1. \A p \in S : Place(p, S) = Cardinality(Upto(p))
  BY DEF Place
<1>2. \A p \in S : Upto(p) \in SUBSET S /\ p \in Upto(p)
  OBVIOUS
<1>3. ASSUME NEW p \in S, NEW q \in S, p < q
      PROVE  Upto(p) \in SUBSET Upto(q) /\ q \notin Upto(p)
  <2>1. p \in Nat /\ q \in Nat
    OBVIOUS
  <2>2. q \notin Upto(p)
    BY <2>1, <1>3
  <2>3. ASSUME NEW r \in Upto(p) PROVE r \in Upto(q)
    <3>1. r \in Nat /\ r \in S /\ r <= p
      OBVIOUS
    <3> QED
      BY <3>1, <2>1, <1>3
  <2> QED
    BY <2>2, <2>3
<1> HIDE DEF Upto
<1>4. ASSUME NEW p \in S
      PROVE  /\ IsFiniteSet(Upto(p)) /\ Cardinality(Upto(p)) \in Nat
             /\ Cardinality(Upto(p)) <= Cardinality(S)
             /\ Cardinality(Upto(p)) # 0
  <2>1. IsFiniteSet(Upto(p)) /\ Cardinality(Upto(p)) <= Cardinality(S)
    BY <1>2, FS_Subset
  <2>2. Upto(p) # {}
    BY <1>2
  <2> QED
    BY <2>1, <2>2, FS_CardinalityType, FS_EmptySet
<1>5. ASSUME NEW p \in S, NEW q \in S, p < q
      PROVE  Cardinality(Upto(p)) < Cardinality(Upto(q))
  <2>1. /\ Cardinality(Upto(p)) <= Cardinality(Upto(q))
        /\ Cardinality(Upto(p)) # Cardinality(Upto(q))
    BY <1>2, <1>3, <1>4, <1>5, FS_Subset
  <2> QED
    BY <1>4, <2>1
<1>6. Cardinality(S) \in Nat
  BY FS_CardinalityType
<1> QED
  BY <1>1, <1>4, <1>5, <1>6

\* Every place is taken: as many places as products, and no two share one.
LEMMA EveryPlaceIsTaken ==
  ASSUME NEW S \in SUBSET Nat, IsFiniteSet(S), NEW n \in 1 .. Cardinality(S)
  PROVE  \E p \in S : Place(p, S) = n
<1> DEFINE f == [p \in S |-> Place(p, S)]
           T == 1 .. Cardinality(S)
<1>1. Cardinality(S) \in Nat /\ IsFiniteSet(T) /\ Cardinality(T) = Cardinality(S)
  <2>1. Cardinality(S) \in Nat
    BY FS_CardinalityType
  <2> QED
    BY <2>1, FS_Interval
<1>2. f \in [S -> T]
  BY PlacesAscend
<1>3. ASSUME NEW p \in S, NEW q \in S, p # q PROVE f[p] # f[q]
  <2>1. p < q \/ q < p
    BY <1>3
  <2> QED
    BY <2>1, <1>1, PlacesAscend
<1>4. f \in Injection(S, T)
  BY <1>2, <1>3 DEF Injection, IsInjective
<1>5. f \in Surjection(S, T)
  BY <1>1, <1>4, FS_Injection
<1> QED
  BY <1>5 DEF Surjection

\* A page holds the items it was made of, each once, in the order of their ids.
LEMMA PagesAreInOrder ==
  ASSUME NEW S \in SUBSET Nat, IsFiniteSet(S)
  PROVE  LET page == InOrder(S) IN
         /\ page \in Seq(S) /\ Len(page) = Cardinality(S)
         /\ \A m, n \in 1 .. Len(page) : m < n => page[m] < page[n]
         /\ \A p \in S : \E n \in 1 .. Len(page) : page[n] = p
<1> DEFINE page == InOrder(S)
           c == Cardinality(S)
<1>1. /\ c \in Nat
      /\ \A p \in S : p \in Nat /\ Place(p, S) \in 1 .. c
      /\ \A p, q \in S : p < q => Place(p, S) < Place(q, S)
  BY PlacesAscend, FS_CardinalityType
<1>2. \A n \in 1 .. c : page[n] \in S /\ Place(page[n], S) = n
  BY EveryPlaceIsTaken DEF InOrder
<1>3. page \in [1 .. c -> S]
  BY <1>2 DEF InOrder
<1>4. page \in Seq(S) /\ Len(page) = c
  BY <1>1, <1>3
<1> HIDE DEF page, c
<1>5. ASSUME NEW m \in 1 .. c, NEW n \in 1 .. c, m < n PROVE page[m] < page[n]
  <2>1. /\ page[m] \in S /\ Place(page[m], S) = m
        /\ page[n] \in S /\ Place(page[n], S) = n
    BY <1>2
  <2>2. page[m] \in Nat /\ page[n] \in Nat
    BY <1>1, <2>1
  <2>3. m \in Nat /\ n \in Nat
    BY <1>1
  <2>4. page[n] < page[m] => n < m
    BY <1>1, <2>1
  <2>5. page[n] = page[m] => n = m
    BY <2>1
  <2> QED
    BY <1>5, <2>2, <2>3, <2>4, <2>5
<1>6. ASSUME NEW p \in S PROVE \E n \in 1 .. c : page[n] = p
  <2> DEFINE n == Place(p, S)
  <2>1. n \in 1 .. c /\ n \in Nat /\ p \in Nat
    BY <1>1
  <2>2. page[n] \in S /\ Place(page[n], S) = n /\ page[n] \in Nat
    BY <1>1, <1>2, <2>1
  <2>3. ~ (page[n] < p) /\ ~ (p < page[n])
    BY <1>1, <2>1, <2>2
  <2>4. page[n] = p
    BY <2>1, <2>2, <2>3
  <2> QED
    BY <2>1, <2>4
<1> QED
  BY <1>4, <1>5, <1>6 DEF page, c

\* A query that stops early has read the first items of what it was to read,
\* and at least one of them.
LEMMA QueriesReadFromTheStart ==
  ASSUME NEW S \in SUBSET Nat, IsFiniteSet(S), NEW n \in Nat \ {0}
  PROVE  LET read == Least(n, S) IN
         /\ read \in SUBSET S /\ IsFiniteSet(read)
         /\ \A p \in read, q \in S : q <= p => q \in read
         /\ S # {} => read # {}
<1> DEFINE read == Least(n, S)
<1>1. read \in SUBSET S
  BY DEF Least
<1>2. IsFiniteSet(read)
  BY <1>1, FS_Subset
<1>3. ASSUME NEW p \in read, NEW q \in S, q <= p PROVE q \in read
  <2>1. /\ p \in S /\ p \in Nat /\ q \in Nat
        /\ Place(p, S) \in Nat /\ Place(q, S) \in Nat /\ Place(p, S) <= n
    BY PlacesAscend, FS_CardinalityType DEF Least
  <2>2. q = p \/ Place(q, S) < Place(p, S)
    BY <1>3, <2>1, PlacesAscend
  <2> QED
    BY <2>1, <2>2 DEF Least
<1>4. ASSUME S # {} PROVE read # {}
  <2>1. Cardinality(S) \in Nat /\ Cardinality(S) # 0
    BY <1>4, FS_CardinalityType, FS_EmptySet
  <2>2. PICK p \in S : Place(p, S) = 1
    BY <2>1, EveryPlaceIsTaken
  <2> QED
    BY <2>2 DEF Least
<1> QED
  BY <1>1, <1>2, <1>3, <1>4

-----------------------------------------------------------------------------
(* The catalog's table, and who sets it up.                                *)

SetupStage == {"creating", "describing", "updating", "ready", "killed"}

SetupInv ==
  /\ table \in BOOLEAN /\ ttl \in BOOLEAN
  /\ ttl => table
  /\ setup \in [Setups -> SetupStage]
  /\ \A s \in Setups :
       /\ setup[s] \in {"describing", "updating", "ready"} => table
       /\ setup[s] = "ready" => ttl

LEMMA SetupInitially == Init => SetupInv
  BY DEF Init, SetupInv, SetupStage

LEMMA SetupStaysSafe == SetupInv /\ [Next]_vars => SetupInv'
<1> SUFFICES ASSUME SetupInv, [Next]_vars PROVE SetupInv'
  OBVIOUS
<1> USE DEF SetupInv, SetupStage
<1>1. ASSUME NEW s \in Setups, EnsureTableExists(s) PROVE SetupInv'
  <2>1. CASE CreateTableIfMissing(s)
    BY <2>1 DEF CreateTableIfMissing, Step
  <2>2. CASE DescribeTtl(s)
    BY <2>2 DEF DescribeTtl, Step, IsTtlAlreadyEnabled
  <2>3. CASE EnableTtl(s)
    BY <2>3 DEF EnableTtl, Step, AfterSecondEnable
  <2>4. CASE KillSetup(s)
    BY <2>4 DEF KillSetup
  <2>5. CASE RunSetupAgain(s)
    BY <2>5 DEF RunSetupAgain
  <2> QED
    BY <1>1, <2>1, <2>2, <2>3, <2>4, <2>5 DEF EnsureTableExists
<1>2. CASE UNCHANGED <<table, ttl, setup>>
  BY <1>2
<1>3. \/ \E s \in Setups : EnsureTableExists(s)
      \/ UNCHANGED <<table, ttl, setup>>
  BY DEF Next, vars, SeedCatalog, BuildCatalogSeedProducts, WriteProduct, SeedingFails,
         RemoveProduct, Request, RefusePage, ListPage, QueryFails
<1> QED
  BY <1>1, <1>2, <1>3

LEMMA SetupInvariant == Spec => []SetupInv
  BY SetupInitially, SetupStaysSafe, PTL DEF Spec

\* ensureTableExists may be run by any number of processes, at any time and
\* again after any of them died: none fails because of the others, and where
\* one is through, the table is there and its items expire.
THEOREM SetupMayBeRepeated == Spec => []SetupIsSafeToRepeat
<1>1. SetupInv => SetupIsSafeToRepeat
  BY DEF SetupInv, SetupStage, SetupIsSafeToRepeat
<1> QED
  BY <1>1, SetupInvariant, PTL

-----------------------------------------------------------------------------
(* The walks of clients.                                                   *)

Cursors == {EncodeCatalogCursor(p) : p \in ProductIds}

Walk == [state  : {"before", "under way", "ended", "refused", "unavailable"},
         cursor : Cursors \cup {NoCursor},
         seen   : Seq(ProductIds \ Malformed),
         stayed : SUBSET ProductIds]

Ascending(ids) == \A m, n \in 1 .. Len(ids) : m < n => ids[m] < ids[n]

Shows(ids, p) == \E n \in 1 .. Len(ids) : ids[n] = p

\* The cursor a walk was given bounds what it was shown, and it has not passed
\* over a product that is below it.
WalkRight(state, cursor, seen, stayed) ==
  /\ Ascending(seen)
  /\ state = "before" => cursor = NoCursor /\ seen = <<>>
  /\ state = "under way" =>
       /\ cursor # NoCursor
       /\ \A n \in 1 .. Len(seen) : seen[n] <= DecodeCatalogCursor(cursor)
       /\ \A p \in stayed : p <= DecodeCatalogCursor(cursor) => Shows(seen, p)
  /\ state = "ended" => \A p \in stayed : Shows(seen, p)

CatalogInv ==
  /\ products \in SUBSET ProductIds /\ IsFiniteSet(products)
  /\ products # {} => table
  /\ unwritten \in [Seeders -> Seq(ProductIds)]
  /\ walk \in [Walks -> Walk]
  /\ \A w \in Walks :
       /\ walk[w].stayed \subseteq products
       /\ WalkRight(walk[w].state, walk[w].cursor, walk[w].seen, walk[w].stayed)

\* A query finds the products beyond a cursor, and more than it reads of them
\* only where it reads some.
LEMMA QueriesGoForward ==
  ASSUME CatalogInv, NEW cursor \in Cursors \cup {NoCursor}, NEW n \in Nat \ {0}
  PROVE  LET rest == After(cursor)
             read == Least(n, rest)
             page == InOrder(read)
         IN  /\ rest \in SUBSET products /\ read \in SUBSET rest
             /\ \A p \in read, q \in rest : q <= p => q \in read
             /\ page \in Seq(read) /\ Ascending(page)
             /\ \A p \in read : Shows(page, p)
             /\ read # rest => page # <<>>
<1> DEFINE rest == After(cursor)
           read == Least(n, rest)
           page == InOrder(read)
<1>1. rest \in SUBSET products
  BY DEF After
<1>2. rest \in SUBSET Nat /\ IsFiniteSet(rest)
  <2>1. products \in SUBSET ProductIds /\ IsFiniteSet(products)
    BY DEF CatalogInv
  <2>2. IsFiniteSet(rest)
    BY <1>1, <2>1, FS_Subset
  <2>3. rest \in SUBSET Nat
    BY <1>1, <2>1, CatalogAssumption
  <2> QED
    BY <2>2, <2>3
<1> HIDE DEF rest
<1>3. /\ read \in SUBSET rest /\ IsFiniteSet(read)
      /\ \A p \in read, q \in rest : q <= p => q \in read
      /\ rest # {} => read # {}
  BY <1>2, QueriesReadFromTheStart
<1> HIDE DEF read
<1>4. read \in SUBSET Nat
  BY <1>2, <1>3
<1>5. /\ page \in Seq(read) /\ Len(page) = Cardinality(read)
      /\ \A k, m \in 1 .. Len(page) : k < m => page[k] < page[m]
      /\ \A p \in read : \E m \in 1 .. Len(page) : page[m] = p
  BY <1>3, <1>4, PagesAreInOrder
<1>6. ASSUME read # rest PROVE page # <<>>
  <2>1. PICK p \in read : TRUE
    BY <1>3, <1>6
  <2>2. PICK m \in 1 .. Len(page) : page[m] = p
    BY <1>5, <2>1
  <2> QED
    BY <2>2, <1>5
<1> QED
  BY <1>1, <1>3, <1>5, <1>6 DEF rest, read, Ascending, Shows

\* The cursor of a page names its last product, and there is none only where
\* the query came to the end of the partition.
LEMMA CursorsNameTheLast ==
  ASSUME NEW cursor, NEW items, NEW page \in Seq(items), NEW limit \in Nat \ {0},
         NEW more \in BOOLEAN, more => page # <<>>,
         NEW next \in NextCursors(cursor, page, limit, more)
  PROVE  \/ next = NoCursor /\ ~more
         \/ page # <<>> /\ next = EncodeCatalogCursor(page[Len(page)])
<1>1. CASE more
  BY <1>1 DEF NextCursors, CursorAfter
<1>2. CASE ~more /\ Len(page) = limit
  BY <1>2 DEF NextCursors, CursorAfter
<1>3. CASE ~more /\ Len(page) # limit
  BY <1>3 DEF NextCursors
<1> QED
  BY <1>1, <1>2, <1>3

\* The limit of a request that is not refused.
LEMMA LimitsArePositive ==
  ASSUME NEW raw \in RawLimits, LimitIsValid(raw)
  PROVE  LimitOf(raw) \in Nat \ {0}
  BY CatalogAssumption DEF LimitIsValid, LimitOf, DefaultLimit, MaxLimit

LEMMA IdsAreNumbers == ProductIds \subseteq Nat /\ \A p \in ProductIds : p \in Nat
  BY CatalogAssumption

LEMMA WiderSequence ==
  ASSUME NEW S, NEW T, S \subseteq T, NEW s \in Seq(S)
  PROVE  s \in Seq(T) /\ Len(s) \in Nat /\ \A n \in 1 .. Len(s) : s[n] \in S /\ s[n] \in T
<1>1. Len(s) \in Nat /\ s \in [1 .. Len(s) -> S]
  OBVIOUS
<1>2. s \in [1 .. Len(s) -> T]
  BY <1>1
<1> QED
  BY <1>1, <1>2

LEMMA LastIsShown ==
  ASSUME NEW S, NEW s \in Seq(S), s # <<>>
  PROVE  Len(s) \in 1 .. Len(s) /\ s[Len(s)] \in S
  OBVIOUS

LEMMA Concatenated ==
  ASSUME NEW S, NEW a \in Seq(S), NEW b \in Seq(S)
  PROVE  a \o b \in Seq(S)
  OBVIOUS

LEMMA AscendingConcat ==
  ASSUME NEW a \in Seq(Nat), NEW b \in Seq(Nat), Ascending(a), Ascending(b),
         \A m \in 1 .. Len(a), n \in 1 .. Len(b) : a[m] < b[n]
  PROVE  /\ Ascending(a \o b)
         /\ \A p : Shows(a, p) \/ Shows(b, p) => Shows(a \o b, p)
<1> DEFINE c == a \o b
<1>1. /\ Len(a) \in Nat /\ Len(b) \in Nat /\ Len(c) = Len(a) + Len(b)
      /\ \A n \in 1 .. Len(a) : c[n] = a[n] /\ a[n] \in Nat
      /\ \A n \in 1 .. Len(b) : c[Len(a) + n] = b[n] /\ b[n] \in Nat
  OBVIOUS
<1> HIDE DEF c
<1>2. ASSUME NEW n \in 1 .. Len(c), n > Len(a)
      PROVE  n - Len(a) \in 1 .. Len(b) /\ c[n] = b[n - Len(a)]
  <2>1. n - Len(a) \in 1 .. Len(b) /\ Len(a) + (n - Len(a)) = n
    BY <1>1, <1>2
  <2> QED
    BY <1>1, <2>1
<1>3. ASSUME NEW m \in 1 .. Len(c), NEW n \in 1 .. Len(c), m < n PROVE c[m] < c[n]
  <2>1. CASE n <= Len(a)
    <3>1. m \in 1 .. Len(a) /\ n \in 1 .. Len(a)
      BY <1>1, <1>3, <2>1
    <3> QED
      BY <1>1, <1>3, <3>1 DEF Ascending
  <2>2. CASE m <= Len(a) /\ n > Len(a)
    <3>1. m \in 1 .. Len(a)
      BY <1>1, <2>2
    <3> QED
      BY <1>1, <1>2, <2>2, <3>1
  <2>3. CASE m > Len(a)
    <3>1. m \in Nat /\ n \in Nat /\ n > Len(a) /\ m - Len(a) < n - Len(a)
      BY <1>1, <1>3, <2>3
    <3> QED
      BY <1>2, <2>3, <3>1 DEF Ascending
  <2> QED
    BY <1>1, <1>3, <2>1, <2>2, <2>3
<1>4. ASSUME NEW p, Shows(a, p) \/ Shows(b, p) PROVE Shows(c, p)
  <2>1. CASE Shows(a, p)
    BY <1>1, <2>1 DEF Shows
  <2>2. CASE Shows(b, p)
    <3>1. PICK n \in 1 .. Len(b) : b[n] = p
      BY <2>2 DEF Shows
    <3>2. Len(a) + n \in 1 .. Len(c) /\ c[Len(a) + n] = p
      BY <1>1, <3>1
    <3> QED
      BY <3>2 DEF Shows
  <2> QED
    BY <1>4, <2>1, <2>2
<1> QED
  BY <1>3, <1>4 DEF Ascending, c

\* A page, shown after what was shown before: everything beyond the cursor is
\* above everything shown, and what has been there is one or the other.
PageFollows(rest, read, page, seen, stayed) ==
  /\ rest \in SUBSET Nat /\ read \in SUBSET rest
  /\ \A p \in read, q \in rest : q <= p => q \in read
  /\ page \in Seq(read) /\ Ascending(page) /\ \A p \in read : Shows(page, p)
  /\ seen \in Seq(Nat) /\ Ascending(seen)
  /\ \A k \in 1 .. Len(seen), p \in rest : seen[k] < p
  /\ stayed \in SUBSET Nat
  /\ \A p \in stayed : Shows(seen, p) \/ p \in rest

LEMMA PageGoesOn ==
  ASSUME NEW rest, NEW read, NEW page, NEW seen, NEW stayed,
         PageFollows(rest, read, page, seen, stayed)
  PROVE  /\ Ascending(seen \o page)
         /\ read = rest => \A p \in stayed : Shows(seen \o page, p)
         /\ page # <<>> =>
              /\ \A k \in 1 .. Len(seen \o page) : (seen \o page)[k] <= page[Len(page)]
              /\ \A p \in stayed : p <= page[Len(page)] => Shows(seen \o page, p)
<1> USE DEF PageFollows
<1> DEFINE shown == seen \o page
<1>1. page \in Seq(Nat) /\ \A m \in 1 .. Len(page) : page[m] \in read /\ page[m] \in rest
  BY WiderSequence
<1>2. \A k \in 1 .. Len(seen), m \in 1 .. Len(page) : seen[k] < page[m]
  BY <1>1
<1>3. Ascending(shown) /\ \A p : Shows(seen, p) \/ Shows(page, p) => Shows(shown, p)
  BY <1>1, <1>2, AscendingConcat
<1>4. shown \in Seq(Nat) /\ Len(shown) = Len(seen) + Len(page)
      /\ \A m \in 1 .. Len(page) : shown[Len(seen) + m] = page[m]
      /\ Len(seen) \in Nat /\ Len(page) \in Nat
  BY <1>1
<1> HIDE DEF shown
<1>5. ASSUME read = rest, NEW p \in stayed PROVE Shows(shown, p)
  BY <1>3, <1>5
<1>6. ASSUME page # <<>>
      PROVE  /\ \A k \in 1 .. Len(shown) : shown[k] <= page[Len(page)]
             /\ \A p \in stayed : p <= page[Len(page)] => Shows(shown, p)
  <2>1. Len(page) \in 1 .. Len(page) /\ shown[Len(shown)] = page[Len(page)]
    BY <1>1, <1>4, <1>6
  <2>2. ASSUME NEW k \in 1 .. Len(shown) PROVE shown[k] <= page[Len(page)]
    <3>1. /\ k \in Nat /\ Len(shown) \in 1 .. Len(shown) /\ shown[k] \in Nat
          /\ k = Len(shown) \/ k < Len(shown)
      BY <1>4
    <3>2. shown[Len(shown)] \in Nat
      BY <1>4, <3>1
    <3> QED
      BY <1>3, <2>1, <3>1, <3>2 DEF Ascending
  <2>3. ASSUME NEW p \in stayed, p <= page[Len(page)] PROVE Shows(shown, p)
    <3>1. p \in rest => p \in read
      BY <1>1, <2>1, <2>3
    <3> QED
      BY <1>3, <3>1
  <2> QED
    BY <2>2, <2>3
<1> QED
  BY <1>3, <1>5, <1>6 DEF shown

\* A cursor decodes to the product it was made of.
LEMMA CursorsDecode ==
  ASSUME NEW cursor \in Cursors
  PROVE  DecodeCatalogCursor(cursor) \in ProductIds /\ DecodeCatalogCursor(cursor) \in Nat
<1>1. PICK p \in ProductIds : cursor = EncodeCatalogCursor(p)
  BY DEF Cursors
<1>2. DecodeCatalogCursor(cursor) = p
  BY <1>1 DEF EncodeCatalogCursor, DecodeCatalogCursor
<1> QED
  BY <1>2, IdsAreNumbers

LEMMA NothingShown ==
  ASSUME NEW seen, seen = <<>>
  PROVE  \A k \in 1 .. Len(seen) : FALSE
  OBVIOUS

LEMMA NothingIsASequence == \A S : <<>> \in Seq(S)
  OBVIOUS

LEMMA NothingAscends == Ascending(<<>>)
  BY NothingShown DEF Ascending

LEMMA BoundDivides ==
  ASSUME NEW there \in SUBSET Nat, NEW c \in Nat,
         NEW seen \in Seq(Nat), \A k \in 1 .. Len(seen) : seen[k] <= c,
         NEW stayed \in SUBSET there, \A p \in stayed : p <= c => Shows(seen, p)
  PROVE  /\ \A k \in 1 .. Len(seen), p \in {q \in there : q > c} : seen[k] < p
         /\ \A p \in stayed : Shows(seen, p) \/ p \in {q \in there : q > c}
  OBVIOUS

\* What a walk was shown lies before its cursor, and what has been there all
\* the while it was shown, or lies after it.
LEMMA CursorDivides ==
  ASSUME CatalogInv, NEW state \in {"before", "under way"},
         NEW cursor \in Cursors \cup {NoCursor}, NEW seen \in Seq(Nat),
         NEW stayed \in SUBSET products, WalkRight(state, cursor, seen, stayed)
  PROVE  /\ \A k \in 1 .. Len(seen), p \in After(cursor) : seen[k] < p
         /\ \A p \in stayed : Shows(seen, p) \/ p \in After(cursor)
<1>1. products \in SUBSET Nat
  BY IdsAreNumbers DEF CatalogInv
<1>2. CASE state = "before"
  <2>1. cursor = NoCursor /\ seen = <<>>
    BY <1>2 DEF WalkRight
  <2>2. After(cursor) = products
    BY <2>1 DEF After
  <2>3. \A k \in 1 .. Len(seen) : FALSE
    BY <2>1, NothingShown
  <2>4. \A p \in stayed : p \in After(cursor)
    BY <2>2
  <2> QED
    BY <2>3, <2>4
<1>3. CASE state = "under way"
  <2>1. /\ cursor # NoCursor
        /\ \A k \in 1 .. Len(seen) : seen[k] <= DecodeCatalogCursor(cursor)
        /\ \A p \in stayed : p <= DecodeCatalogCursor(cursor) => Shows(seen, p)
    BY <1>3 DEF WalkRight
  <2>2. PICK c \in Nat : c = DecodeCatalogCursor(cursor)
    BY <2>1, CursorsDecode
  <2>3. After(cursor) = {p \in products : p > c}
    BY <2>1, <2>2 DEF After
  <2>4. /\ \A k \in 1 .. Len(seen) : seen[k] <= c
        /\ \A p \in stayed : p <= c => Shows(seen, p)
    BY <2>1, <2>2
  <2>5. /\ \A k \in 1 .. Len(seen), p \in {q \in products : q > c} : seen[k] < p
        /\ \A p \in stayed : Shows(seen, p) \/ p \in {q \in products : q > c}
    BY <1>1, <2>4, BoundDivides
  <2> QED
    BY <2>3, <2>5
<1> QED
  BY <1>2, <1>3

\* What a page does to a walk: it shows what its query read, in order, and goes
\* on from the last of that.
Goes(state, cursor, seen, stayed) ==
  /\ state \in {"before", "under way"} /\ cursor \in Cursors \cup {NoCursor}
  /\ seen \in Seq(ProductIds \ Malformed) /\ stayed \in SUBSET products
  /\ WalkRight(state, cursor, seen, stayed)

Answered(n, cursor, rest, read, page) ==
  /\ n \in Nat \ {0}
  /\ rest = After(cursor) /\ read = Least(n, rest) /\ page = InOrder(read)
  /\ Readable(read)

GoesOnFrom(next, rest, read, page) ==
  \/ next = NoCursor /\ read = rest
  \/ page # <<>> /\ next = EncodeCatalogCursor(page[Len(page)])

LEMMA PageKeepsWalkRight ==
  ASSUME CatalogInv, NEW state, NEW cursor, NEW seen, NEW stayed, NEW n, NEW rest,
         NEW read, NEW page, NEW next, Goes(state, cursor, seen, stayed),
         Answered(n, cursor, rest, read, page), GoesOnFrom(next, rest, read, page)
  PROVE  /\ next \in Cursors \cup {NoCursor}
         /\ seen \o page \in Seq(ProductIds \ Malformed)
         /\ next = NoCursor => WalkRight("ended", next, seen \o page, stayed)
         /\ next # NoCursor => WalkRight("under way", next, seen \o page, stayed)
<1> USE DEF Goes, Answered, GoesOnFrom
<1> DEFINE Shown == ProductIds \ Malformed
<1>1. /\ rest \in SUBSET products /\ read \in SUBSET rest
      /\ \A p \in read, q \in rest : q <= p => q \in read
      /\ page \in Seq(read) /\ Ascending(page)
      /\ \A p \in read : Shows(page, p)
  BY QueriesGoForward
<1>2. products \in SUBSET ProductIds /\ ProductIds \in SUBSET Nat
  BY IdsAreNumbers DEF CatalogInv
<1>3. rest \in SUBSET Nat /\ read \subseteq Shown /\ Shown \subseteq Nat /\ stayed \in SUBSET Nat
  BY <1>1, <1>2 DEF Readable
<1> HIDE DEF Shown
<1>4. page \in Seq(Shown) /\ seen \in Seq(Shown) /\ seen \in Seq(Nat)
  <2>1. page \in Seq(Shown)
    BY <1>1, <1>3, WiderSequence
  <2>2. seen \in Seq(Shown)
    BY DEF Shown
  <2>3. seen \in Seq(Nat)
    BY <1>3, <2>2, WiderSequence
  <2> QED
    BY <2>1, <2>2, <2>3
<1>5. seen \o page \in Seq(Shown)
  BY <1>4, Concatenated
<1>6. /\ \A k \in 1 .. Len(seen), p \in rest : seen[k] < p
      /\ \A p \in stayed : Shows(seen, p) \/ p \in rest
  BY <1>4, CursorDivides
<1>7. Ascending(seen)
  BY DEF WalkRight
<1>8. /\ Ascending(seen \o page)
      /\ read = rest => \A p \in stayed : Shows(seen \o page, p)
      /\ page # <<>> =>
           /\ \A k \in 1 .. Len(seen \o page) : (seen \o page)[k] <= page[Len(page)]
           /\ \A p \in stayed : p <= page[Len(page)] => Shows(seen \o page, p)
  <2>1. PageFollows(rest, read, page, seen, stayed)
    BY <1>1, <1>3, <1>4, <1>6, <1>7 DEF PageFollows
  <2> QED
    BY <2>1, PageGoesOn
<1>9. page # <<>> => page[Len(page)] \in ProductIds
  <2>1. page # <<>> => page[Len(page)] \in read
    BY <1>1, LastIsShown
  <2> QED
    BY <1>1, <1>2, <2>1
<1>10. CASE next = NoCursor
  <2>1. read = rest
    BY <1>9, <1>10, CatalogAssumption
  <2> QED
    BY <1>5, <1>8, <1>10, <2>1 DEF WalkRight, Shown
<1>11. CASE next # NoCursor
  <2>1. page # <<>> /\ next = EncodeCatalogCursor(page[Len(page)])
    BY <1>11
  <2>2. next \in Cursors /\ DecodeCatalogCursor(next) = page[Len(page)]
    BY <1>9, <2>1 DEF Cursors, EncodeCatalogCursor, DecodeCatalogCursor
  <2> QED
    BY <1>5, <1>8, <1>11, <2>1, <2>2 DEF WalkRight, Shown
<1> QED
  BY <1>10, <1>11

-----------------------------------------------------------------------------
(* Every step keeps the walks right.                                       *)

\* What a walk holds, field by field.
LEMMA WalkFields ==
  ASSUME CatalogInv, NEW w \in Walks
  PROVE  /\ walk[w] \in Walk
         /\ walk[w].state \in {"before", "under way", "ended", "refused", "unavailable"}
         /\ walk[w].cursor \in Cursors \cup {NoCursor}
         /\ walk[w].seen \in Seq(ProductIds \ Malformed)
         /\ walk[w].stayed \in SUBSET products
         /\ WalkRight(walk[w].state, walk[w].cursor, walk[w].seen, walk[w].stayed)
  BY DEF CatalogInv, Walk

\* Where one walk moves, and there is what there was.
LEMMA OneWalkMoves ==
  ASSUME CatalogInv, UNCHANGED <<products, table, unwritten>>,
         NEW w \in Walks, NEW r \in Walk, walk' = [walk EXCEPT ![w] = r],
         r.stayed \subseteq products, WalkRight(r.state, r.cursor, r.seen, r.stayed)
  PROVE  CatalogInv'
<1>1. walk' \in [Walks -> Walk]
  BY DEF CatalogInv
<1>2. ASSUME NEW v \in Walks
      PROVE  /\ walk'[v].stayed \subseteq products
             /\ WalkRight(walk'[v].state, walk'[v].cursor, walk'[v].seen, walk'[v].stayed)
  <2>1. CASE v = w
    <3>1. walk'[v] = r
      BY <2>1 DEF CatalogInv
    <3> QED
      BY <3>1
  <2>2. CASE v # w
    <3>1. walk'[v] = walk[v]
      BY <2>2 DEF CatalogInv
    <3> QED
      BY <3>1 DEF CatalogInv
  <2> QED
    BY <2>1, <2>2
<1> QED
  BY <1>1, <1>2 DEF CatalogInv, WalkRight

LEMMA StopsKeepWalks ==
  ASSUME CatalogInv, UNCHANGED <<products, table, unwritten>>, NEW w \in Walks,
         NEW state \in {"refused", "unavailable"}, EndsAs(w, state)
  PROVE  CatalogInv'
<1> DEFINE r == [walk[w] EXCEPT !.state = state]
<1>1. /\ r \in Walk /\ r.state = state /\ r.cursor = walk[w].cursor
      /\ r.seen = walk[w].seen /\ r.stayed = walk[w].stayed
  BY WalkFields DEF Walk
<1>2. WalkRight(r.state, r.cursor, r.seen, r.stayed) /\ r.stayed \subseteq products
  BY <1>1, WalkFields DEF WalkRight
<1>3. walk' = [walk EXCEPT ![w] = r]
  BY DEF EndsAs
<1> HIDE DEF r
<1> QED
  BY <1>1, <1>2, <1>3, OneWalkMoves

LEMMA PagesKeepWalks ==
  ASSUME CatalogInv, NEW w \in Walks, walk[w].state \in {"before", "under way"},
         NEW raw \in RawLimits, ListPage(w, raw)
  PROVE  CatalogInv'
<1> DEFINE begun == Begun(w)
           limit == LimitOf(raw)
           n == IF limit < Chunk THEN limit ELSE Chunk
           rest == After(begun.cursor)
           read == Least(n, rest)
           page == InOrder(read)
<1>1. UNCHANGED <<products, table, unwritten>>
  BY DEF ListPage
<1>2. /\ begun \in Walk /\ begun.state \in {"before", "under way"}
      /\ begun.cursor \in Cursors \cup {NoCursor}
      /\ begun.seen \in Seq(ProductIds \ Malformed) /\ begun.stayed \in SUBSET products
      /\ WalkRight(begun.state, begun.cursor, begun.seen, begun.stayed)
  <2>1. CASE walk[w].state = "before"
    <3>1. begun = [NotBegun EXCEPT !.stayed = products]
      BY <2>1 DEF Begun
    <3>2. /\ begun.state = "before" /\ begun.cursor = NoCursor /\ begun.seen = <<>>
          /\ begun.stayed = products
      BY <3>1 DEF NotBegun
    <3>3. begun = [state |-> "before", cursor |-> NoCursor, seen |-> <<>>, stayed |-> products]
      BY <3>1 DEF NotBegun
    <3>4. <<>> \in Seq(ProductIds \ Malformed) /\ products \in SUBSET ProductIds
      BY NothingIsASequence DEF CatalogInv
    <3> HIDE DEF begun
    <3>5. begun \in Walk
      BY <3>3, <3>4 DEF Walk
    <3>6. WalkRight(begun.state, begun.cursor, begun.seen, begun.stayed)
      BY <3>2, NothingAscends DEF WalkRight
    <3> QED
      BY <3>2, <3>4, <3>5, <3>6
  <2>2. CASE walk[w].state = "under way"
    BY <2>2, WalkFields DEF Begun
  <2> QED
    BY <2>1, <2>2
<1>3. limit \in Nat \ {0} /\ n \in Nat \ {0}
  BY LimitsArePositive, CatalogAssumption DEF ListPage
<1>4. CASE ~Readable(read)
  <2>1. EndsAs(w, "unavailable")
    BY <1>4 DEF ListPage
  <2> QED
    BY <1>1, <2>1, StopsKeepWalks
<1>5. CASE Readable(read)
  <2>1. PICK next \in NextCursors(begun.cursor, page, limit, read # rest) :
          walk' = [walk EXCEPT ![w] =
            [begun EXCEPT !.state = IF next = NoCursor THEN "ended" ELSE "under way",
                          !.cursor = next, !.seen = @ \o page]]
    BY <1>5 DEF ListPage
  <2> DEFINE r == [begun EXCEPT !.state = IF next = NoCursor THEN "ended" ELSE "under way",
                                !.cursor = next, !.seen = @ \o page]
  <2>2. page \in Seq(read) /\ (read # rest => page # <<>>)
    BY <1>2, <1>3, QueriesGoForward
  <2> HIDE DEF begun, limit, n, rest, read, page
  <2>3. \/ next = NoCursor /\ read = rest
        \/ page # <<>> /\ next = EncodeCatalogCursor(page[Len(page)])
    BY <1>3, <2>2, CursorsNameTheLast
  <2>4. /\ next \in Cursors \cup {NoCursor}
        /\ begun.seen \o page \in Seq(ProductIds \ Malformed)
        /\ next = NoCursor => WalkRight("ended", next, begun.seen \o page, begun.stayed)
        /\ next # NoCursor => WalkRight("under way", next, begun.seen \o page, begun.stayed)
    <3>1. Answered(n, begun.cursor, rest, read, page)
      BY <1>3, <1>5 DEF rest, read, page, Answered
    <3>2. Goes(begun.state, begun.cursor, begun.seen, begun.stayed)
      BY <1>2 DEF Goes
    <3>3. GoesOnFrom(next, rest, read, page)
      BY <2>3 DEF GoesOnFrom
    <3> QED
      BY <3>1, <3>2, <3>3, PageKeepsWalkRight
  <2>5. /\ r \in Walk /\ r.state = IF next = NoCursor THEN "ended" ELSE "under way"
        /\ r.cursor = next /\ r.seen = begun.seen \o page /\ r.stayed = begun.stayed
    BY <1>2, <2>4 DEF Walk
  <2> HIDE DEF r
  <2>6. walk' = [walk EXCEPT ![w] = r]
    BY <2>1 DEF r
  <2> QED
    BY <1>1, <1>2, <2>4, <2>5, <2>6, OneWalkMoves
<1> QED
  BY <1>4, <1>5

LEMMA RequestKeepsWalks ==
  ASSUME CatalogInv, NEW w \in Walks, Request(w)
  PROVE  CatalogInv'
<1>1. walk[w].state \in {"before", "under way"}
  BY DEF Request
<1>2. PICK raw \in RawLimits :
        \/ \E cursor \in {walk[w].cursor, Garbled} : RefusePage(w, raw, cursor)
        \/ ListPage(w, raw)
        \/ LimitIsValid(raw) /\ QueryFails(w)
  BY DEF Request
<1>3. CASE \E cursor \in {walk[w].cursor, Garbled} : RefusePage(w, raw, cursor)
  BY <1>3, StopsKeepWalks DEF RefusePage
<1>4. CASE ListPage(w, raw)
  BY <1>1, <1>4, PagesKeepWalks
<1>5. CASE QueryFails(w)
  BY <1>5, StopsKeepWalks DEF QueryFails
<1> QED
  BY <1>2, <1>3, <1>4, <1>5

LEMMA SeedingKeepsWalks ==
  ASSUME CatalogInv, NEW s \in Seeders, SeedCatalog(s)
  PROVE  CatalogInv'
<1> USE DEF CatalogInv
<1>1. CASE BuildCatalogSeedProducts(s)
  <2>1. PICK batch \in Batches : unwritten' = [unwritten EXCEPT ![s] = batch]
    BY <1>1 DEF BuildCatalogSeedProducts
  <2>2. batch \in Seq(ProductIds)
    <3>1. batch \in [1 .. SeedCount -> ProductIds] /\ SeedCount \in Nat
      BY CatalogAssumption DEF Batches
    <3> QED
      BY <3>1
  <2>3. unwritten' \in [Seeders -> Seq(ProductIds)]
    BY <2>1, <2>2
  <2>4. UNCHANGED <<products, table, walk>>
    BY <1>1 DEF BuildCatalogSeedProducts
  <2> QED
    BY <2>3, <2>4 DEF WalkRight
<1>2. CASE WriteProduct(s)
  <2> DEFINE p == Head(unwritten[s])
  <2>1. unwritten[s] \in Seq(ProductIds) /\ unwritten[s] # <<>>
    BY <1>2 DEF WriteProduct
  <2>2. p \in ProductIds /\ Tail(unwritten[s]) \in Seq(ProductIds)
    BY <2>1
  <2> HIDE DEF p
  <2>3. products' = products \cup {p} /\ table /\ UNCHANGED <<table, walk>>
    BY <1>2 DEF WriteProduct, p
  <2>4. products' \in SUBSET ProductIds /\ IsFiniteSet(products')
    BY <2>2, <2>3, FS_AddElement
  <2>5. unwritten' \in [Seeders -> Seq(ProductIds)]
    BY <1>2, <2>2 DEF WriteProduct
  <2> QED
    BY <2>3, <2>4, <2>5 DEF WalkRight
<1>3. CASE SeedingFails(s)
  <2>1. unwritten' \in [Seeders -> Seq(ProductIds)]
    BY <1>3, NothingIsASequence DEF SeedingFails
  <2> QED
    BY <1>3, <2>1 DEF SeedingFails, WalkRight
<1> QED
  BY <1>1, <1>2, <1>3 DEF SeedCatalog

\* A product that is removed is no longer one that has been there throughout.
LEMMA RemovalKeepsWalks ==
  ASSUME CatalogInv, NEW p \in ProductIds, RemoveProduct(p)
  PROVE  CatalogInv'
<1>1. /\ products' = products \ {p} /\ UNCHANGED <<table, unwritten>>
      /\ walk' = [w \in Walks |-> [walk[w] EXCEPT !.stayed = @ \ {p}]]
  BY DEF RemoveProduct
<1>2. products' \in SUBSET ProductIds /\ IsFiniteSet(products') /\ (products' # {} => table)
  BY <1>1, FS_RemoveElement DEF CatalogInv
<1>3. ASSUME NEW w \in Walks
      PROVE  /\ walk'[w] \in Walk
             /\ walk'[w].stayed \subseteq products'
             /\ WalkRight(walk'[w].state, walk'[w].cursor, walk'[w].seen, walk'[w].stayed)
  <2> DEFINE r == [walk[w] EXCEPT !.stayed = @ \ {p}]
  <2>1. walk'[w] = r
    BY <1>1
  <2>2. /\ r \in Walk /\ r.state = walk[w].state /\ r.cursor = walk[w].cursor
        /\ r.seen = walk[w].seen /\ r.stayed = walk[w].stayed \ {p}
    BY WalkFields DEF Walk
  <2> HIDE DEF r
  <2>3. WalkRight(r.state, r.cursor, r.seen, r.stayed) /\ r.stayed \subseteq products'
    BY <1>1, <2>2, WalkFields DEF WalkRight
  <2> QED
    BY <2>1, <2>2, <2>3
<1>4. walk' \in [Walks -> Walk]
  BY <1>1, <1>3
<1> QED
  BY <1>1, <1>2, <1>3, <1>4 DEF CatalogInv, WalkRight

LEMMA SetupKeepsWalks ==
  ASSUME CatalogInv, NEW s \in Setups, EnsureTableExists(s)
  PROVE  CatalogInv'
<1>1. UNCHANGED <<unwritten, products, walk>> /\ (table' = TRUE \/ table' = table)
  BY DEF EnsureTableExists, CreateTableIfMissing, DescribeTtl, EnableTtl, KillSetup,
         RunSetupAgain
<1> QED
  BY <1>1 DEF CatalogInv, WalkRight

LEMMA WalksRightInitially == Init => CatalogInv
<1> SUFFICES ASSUME Init PROVE CatalogInv
  OBVIOUS
<1>1. NotBegun \in Walk
  BY NothingIsASequence DEF NotBegun, Walk
<1>2. WalkRight("before", NoCursor, <<>>, {})
  BY NothingAscends DEF WalkRight
<1>3. /\ NotBegun.state = "before" /\ NotBegun.cursor = NoCursor
      /\ NotBegun.seen = <<>> /\ NotBegun.stayed = {}
  BY DEF NotBegun
<1>4. walk = [w \in Walks |-> NotBegun] /\ products = {}
  BY DEF Init
<1>5. walk \in [Walks -> Walk] /\ \A w \in Walks : walk[w] = NotBegun
  BY <1>1, <1>4
<1>6. unwritten \in [Seeders -> Seq(ProductIds)]
  BY NothingIsASequence DEF Init
<1> QED
  BY <1>2, <1>3, <1>4, <1>5, <1>6, FS_EmptySet DEF CatalogInv

LEMMA WalksStayRight == CatalogInv /\ [Next]_vars => CatalogInv'
<1> SUFFICES ASSUME CatalogInv, [Next]_vars PROVE CatalogInv'
  OBVIOUS
<1>1. CASE Next
  BY <1>1, SetupKeepsWalks, SeedingKeepsWalks, RemovalKeepsWalks, RequestKeepsWalks DEF Next
<1>2. CASE UNCHANGED vars
  BY <1>2 DEF vars, CatalogInv, WalkRight
<1> QED
  BY <1>1, <1>2

\* The strengthened invariant of the catalog: where a walk stands, its cursor
\* separates what it was shown from what it has still to see.
THEOREM CatalogInvariant == Spec => [](SetupInv /\ CatalogInv)
<1>1. Spec => []CatalogInv
  BY WalksRightInitially, WalksStayRight, PTL DEF Spec
<1> QED
  BY <1>1, SetupInvariant, PTL

\* Every variable of the catalog keeps its type, and no item that is not a
\* product is ever shown.
THEOREM CatalogTypeCorrect == Spec => []TypeOK
<1>1. SetupInv /\ CatalogInv => TypeOK
  <2> SUFFICES ASSUME SetupInv, CatalogInv PROVE TypeOK
    OBVIOUS
  <2>1. /\ table \in BOOLEAN /\ ttl \in BOOLEAN /\ (ttl \/ products # {} => table)
        /\ setup \in [Setups ->
             {"creating", "describing", "updating", "ready", "failed", "killed"}]
    BY DEF SetupInv, SetupStage, CatalogInv
  <2>2. /\ \A s \in Seeders : unwritten[s] \in Seq(ProductIds)
        /\ products \subseteq ProductIds
    BY DEF CatalogInv
  <2>3. ASSUME NEW w \in Walks
        PROVE  /\ walk[w].state \in {"before", "under way", "ended", "refused", "unavailable"}
               /\ walk[w].cursor \in {EncodeCatalogCursor(p) : p \in ProductIds} \cup {NoCursor}
               /\ walk[w].seen \in Seq(ProductIds \ Malformed)
               /\ walk[w].stayed \subseteq products
    BY WalkFields DEF Cursors
  <2> QED
    BY <2>1, <2>2, <2>3 DEF TypeOK
<1> QED
  BY <1>1, CatalogInvariant, PTL

\* Whatever is written and removed meanwhile, however its pages are cut and
\* whatever limits it asks with, a walk shows products in the order of their
\* ids, none twice, and passes over none that has been there since it began.
THEOREM WalksAreExact == Spec => []WalkIsExact
<1>1. CatalogInv => WalkIsExact
  <2> SUFFICES ASSUME CatalogInv, NEW w \in Walks, NEW seen, seen = walk[w].seen
               PROVE  /\ \A m, n \in DOMAIN seen : m < n => seen[m] < seen[n]
                      /\ walk[w].state \in {"under way", "ended"} =>
                           \A p \in walk[w].stayed :
                             walk[w].state = "ended" \/ p <= DecodeCatalogCursor(walk[w].cursor)
                               => p \in ToSet(seen)
    BY DEF WalkIsExact
  <2>1. /\ seen \in Seq(ProductIds \ Malformed)
        /\ WalkRight(walk[w].state, walk[w].cursor, seen, walk[w].stayed)
    BY WalkFields
  <2>2. DOMAIN seen = 1 .. Len(seen)
    BY <2>1
  <2>3. \A p : Shows(seen, p) => p \in ToSet(seen)
    BY <2>2 DEF Shows, ToSet
  <2> QED
    BY <2>1, <2>2, <2>3 DEF WalkRight, Ascending
<1> QED
  BY <1>1, CatalogInvariant, PTL
=============================================================================
