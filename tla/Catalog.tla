------------------------------- MODULE Catalog -------------------------------
(***************************************************************************)
(* The catalog: the scripts that create its table and write products to    *)
(* it, and the walks of clients through the pages that GET /products       *)
(* returns, while products are written and removed.                        *)
(*                                                                         *)
(* A product is its id, and ids are numbers: a UUIDv7 in a sort key        *)
(* compares as its text.  A walk follows the cursors it is given, with a   *)
(* limit of its own choice each time.  A query reads one state of the      *)
(* partition, so a request is one step.  Products are removed by hand      *)
(* (FR10a), and nothing here removes a table.                              *)
(***************************************************************************)
EXTENDS Naturals, Sequences, FiniteSets, SequencesExt

CONSTANTS
  ProductIds,  \* bound: the ids that may be generated
  Malformed,   \* those whose item was damaged outside the program
  Setups,      \* processes that run create-table, or call ensureTableExists
  Seeders,     \* runs of seed-catalog
  SeedCount,   \* its argument
  Walks,       \* of clients through the catalog
  RawLimits,   \* the values of the parameter limit that are sent
  Chunk,       \* products in one megabyte, where DynamoDB ends a page
  NoCursor,    \* null, or no parameter cursor
  Garbled      \* a text that is no cursor of the program

\* A cursor is opaque to clients, and names the product that was shown last.
EncodeCatalogCursor(productId) == [product |-> productId]
DecodeCatalogCursor(cursor) == cursor.product

ASSUME CatalogAssumption ==
  /\ ProductIds \subseteq Nat \ {0}
  /\ Malformed \subseteq ProductIds
  /\ SeedCount \in Nat \ {0}
  /\ RawLimits \subseteq [kind : {"unset", "digits", "other"}, number : Nat]
  /\ Chunk \in Nat \ {0}
  /\ NoCursor # Garbled
  /\ \A p \in ProductIds : EncodeCatalogCursor(p) \notin {NoCursor, Garbled}

VARIABLES
  table,     \* whether the table exists
  ttl,       \* whether its items expire
  setup,     \* setup -> where ensureTableExists is
  unwritten, \* seeder -> the products it has still to write, or "idle", ...
  products,  \* the partition of the catalog
  walk       \* walk -> the cursor it was given, what it was shown and how it stands

vars == <<table, ttl, setup, unwritten, products, walk>>

NotBegun == [state |-> "before", cursor |-> NoCursor, seen |-> <<>>, stayed |-> {}]

TypeOK ==
  /\ table \in BOOLEAN
  /\ ttl \in BOOLEAN
  /\ ttl \/ products # {} => table
  /\ setup \in [Setups -> {"creating", "describing", "updating", "ready", "failed", "killed"}]
  /\ \A s \in Seeders : unwritten[s] \in Seq(ProductIds)
  /\ products \subseteq ProductIds
  /\ \A w \in Walks :
       /\ walk[w].state \in {"before", "under way", "ended", "refused", "unavailable"}
       /\ walk[w].cursor \in {EncodeCatalogCursor(p) : p \in ProductIds} \cup {NoCursor}
       /\ walk[w].seen \in Seq(ProductIds \ Malformed)
       /\ walk[w].stayed \subseteq products  \* history: there since it began

Init ==
  /\ table = FALSE
  /\ ttl = FALSE
  /\ setup = [s \in Setups |-> "creating"]
  /\ unwritten = [s \in Seeders |-> <<>>]
  /\ products = {}
  /\ walk = [w \in Walks |-> NotBegun]

-----------------------------------------------------------------------------
(* ensureTableExists                                                       *)

Step(s, from, to) == setup[s] = from /\ setup' = [setup EXCEPT ![s] = to]

\* createTableIfMissing: that it exists already is what was wanted.
CreateTableIfMissing(s) ==
  /\ Step(s, "creating", "describing")
  /\ table' = TRUE
  /\ UNCHANGED <<ttl, unwritten, products, walk>>

IsTtlAlreadyEnabled == ttl

DescribeTtl(s) ==
  /\ Step(s, "describing", IF IsTtlAlreadyEnabled THEN "ready" ELSE "updating")
  /\ UNCHANGED <<table, ttl, unwritten, products, walk>>

\* Mutant: the error of the caller that comes second is thrown.
AfterSecondEnable_Thrown == "failed"

\* isConcurrentTtlEnableRace: someone else enabled it since it was described.
AfterSecondEnable == "ready"

EnableTtl(s) ==
  /\ Step(s, "updating", IF ttl THEN AfterSecondEnable ELSE "ready")
  /\ ttl' = TRUE
  /\ UNCHANGED <<table, unwritten, products, walk>>

\* An outage, or the process ends; and it is run again, whatever came of it.
KillSetup(s) ==
  /\ setup[s] \in {"creating", "describing", "updating"}
  /\ setup' = [setup EXCEPT ![s] = "killed"]
  /\ UNCHANGED <<table, ttl, unwritten, products, walk>>

RunSetupAgain(s) ==
  /\ setup[s] \in {"ready", "killed"}
  /\ setup' = [setup EXCEPT ![s] = "creating"]
  /\ UNCHANGED <<table, ttl, unwritten, products, walk>>

-----------------------------------------------------------------------------
(* seed-catalog                                                            *)

Generated == products \cup UNION {ToSet(unwritten[s]) : s \in Seeders}

Batches ==
  {batch \in [1 .. SeedCount -> ProductIds] :
     \A m, n \in 1 .. SeedCount : m # n => batch[m] # batch[n]}

\* buildCatalogSeedProducts: every id is made before the first is written,
\* and within a millisecond, or on two machines, they are in no order.  It
\* may be run again, and then writes other products.  Bound: an id that is
\* in use, or was shown, is not made again.
BuildCatalogSeedProducts(s) ==
  /\ unwritten[s] = <<>>
  /\ \E batch \in Batches :
       /\ ToSet(batch) \cap Generated = {}
       /\ \A w \in Walks : ToSet(batch) \cap ToSet(walk[w].seen) = {}
       /\ unwritten' = [unwritten EXCEPT ![s] = batch]
  /\ UNCHANGED <<table, ttl, setup, products, walk>>

\* writeCatalogSeedProducts: one put after another.
WriteProduct(s) ==
  /\ unwritten[s] # <<>>
  /\ table
  /\ products' = products \cup {Head(unwritten[s])}
  /\ unwritten' = [unwritten EXCEPT ![s] = Tail(@)]
  /\ UNCHANGED <<table, ttl, setup, walk>>

\* A put that fails, as it does while there is no table, ends the script.
SeedingFails(s) ==
  /\ unwritten[s] # <<>>
  /\ unwritten' = [unwritten EXCEPT ![s] = <<>>]
  /\ UNCHANGED <<table, ttl, setup, products, walk>>

\* A product is taken off by hand.
RemoveProduct(p) ==
  /\ p \in products
  /\ products' = products \ {p}
  /\ walk' = [w \in Walks |-> [walk[w] EXCEPT !.stayed = @ \ {p}]]
  /\ UNCHANGED <<table, ttl, setup, unwritten>>

-----------------------------------------------------------------------------
(* GET /products                                                           *)

DefaultLimit == 25
MaxLimit == 100

\* parseLimit
LimitIsValid(raw) ==
  raw.kind = "unset" \/ (raw.kind = "digits" /\ raw.number \in 1 .. MaxLimit)

LimitOf(raw) == IF raw.kind = "unset" THEN DefaultLimit ELSE raw.number

\* exclusiveStartKey: the product of a cursor need not be there any more.
After(cursor) ==
  IF cursor = NoCursor THEN products
  ELSE {p \in products : p > DecodeCatalogCursor(cursor)}

\* The place of a product in the order of the sort key.
Place(p, among) == Cardinality({q \in among : q <= p})

Least(n, candidates) == {p \in candidates : Place(p, candidates) <= n}

InOrder(items) ==
  [n \in 1 .. Cardinality(items) |-> CHOOSE p \in items : Place(p, items) = n]

\* Mutant: an item is shown as it is.
Readable_Anything(items) == TRUE

\* readProductItem throws for an item that is not a product.
Readable(items) == items \cap Malformed = {}

CursorAfter(page) == EncodeCatalogCursor(page[Len(page)])

\* Mutant: a page that is not full is the last.
NextCursors_FullPagesOnly(cursor, page, limit, more) ==
  {IF Len(page) = limit THEN CursorAfter(page) ELSE NoCursor}

\* Mutant: every page has a cursor, an empty one that it was asked with.
NextCursors_NeverNull(cursor, page, limit, more) ==
  {IF page = <<>> THEN cursor ELSE CursorAfter(page)}

\* LastEvaluatedKey: the last key read, if the query stopped before the end
\* of the partition.  One that ends there with its limit may say either.
NextCursors(cursor, page, limit, more) ==
  IF more THEN {CursorAfter(page)}
  ELSE IF Len(page) = limit THEN {CursorAfter(page), NoCursor}
  ELSE {NoCursor}

EndsAs(w, state) == walk' = [walk EXCEPT ![w].state = state]

\* The first request of a walk finds it where it has not begun.
Begun(w) == IF walk[w].state = "before" THEN [NotBegun EXCEPT !.stayed = products] ELSE walk[w]

\* parseListCatalogQuery and execute: what is not a limit, or not a cursor,
\* is refused before anything is read.
RefusePage(w, raw, cursor) ==
  /\ ~LimitIsValid(raw) \/ cursor = Garbled
  /\ EndsAs(w, "refused")
  /\ UNCHANGED <<table, ttl, setup, unwritten, products>>

\* ListCatalog over DynamoProductRepository.list: one query, all of whose
\* items are read, or none is shown.
ListPage(w, raw) ==
  /\ LimitIsValid(raw)
  /\ table
  /\ LET begun == Begun(w)
         limit == LimitOf(raw)
         rest == After(begun.cursor)
         read == Least(IF limit < Chunk THEN limit ELSE Chunk, rest)
         page == InOrder(read)
     IN  IF ~Readable(read) THEN EndsAs(w, "unavailable")
         ELSE \E next \in NextCursors(begun.cursor, page, limit, read # rest) :
                walk' = [walk EXCEPT ![w] =
                  [begun EXCEPT !.state = IF next = NoCursor THEN "ended" ELSE "under way",
                                !.cursor = next,
                                !.seen = @ \o page]]
  /\ UNCHANGED <<table, ttl, setup, unwritten, products>>

\* CatalogQueryFailedError, as always while there is no table.
QueryFails(w) ==
  /\ EndsAs(w, "unavailable")
  /\ UNCHANGED <<table, ttl, setup, unwritten, products>>

Request(w) ==
  /\ walk[w].state \in {"before", "under way"}
  /\ \E raw \in RawLimits :
       \/ \E cursor \in {walk[w].cursor, Garbled} : RefusePage(w, raw, cursor)
       \/ ListPage(w, raw)
       \/ LimitIsValid(raw) /\ QueryFails(w)

-----------------------------------------------------------------------------

EnsureTableExists(s) ==
  \/ CreateTableIfMissing(s) \/ DescribeTtl(s) \/ EnableTtl(s)
  \/ KillSetup(s) \/ RunSetupAgain(s)

SeedCatalog(s) == BuildCatalogSeedProducts(s) \/ WriteProduct(s) \/ SeedingFails(s)

Next ==
  \/ \E s \in Setups : EnsureTableExists(s)
  \/ \E s \in Seeders : SeedCatalog(s)
  \/ \E p \in ProductIds : RemoveProduct(p)
  \/ \E w \in Walks : Request(w)

\* A client that has begun a walk goes on with it, as long as it is served.
Spec ==
  /\ Init /\ [][Next]_vars
  /\ \A w \in Walks :
       WF_vars(walk[w].state = "under way" /\ \E raw \in RawLimits : ListPage(w, raw))

-----------------------------------------------------------------------------
(* Properties                                                              *)

(* Whatever is written and removed meanwhile, a walk shows products in the *)
(* order of their ids, none twice, and when it has passed an id, or has    *)
(* ended, it has shown every product up to there that has been in the      *)
(* catalog since it began (list, ListCatalog.execute).                     *)
WalkIsExact ==
  \A w \in Walks : LET seen == walk[w].seen IN
    /\ \A m, n \in DOMAIN seen : m < n => seen[m] < seen[n]
    /\ walk[w].state \in {"under way", "ended"} =>
         \A p \in walk[w].stayed :
           walk[w].state = "ended" \/ p <= DecodeCatalogCursor(walk[w].cursor)
             => p \in ToSet(seen)

(* ensureTableExists may be run by any number of processes, at any time    *)
(* and again after any of them died: none fails because of the others, and *)
(* where one is through, the table is there and its items expire.          *)
SetupIsSafeToRepeat ==
  \A s \in Setups : setup[s] # "failed" /\ (setup[s] = "ready" => table /\ ttl)

(* A client that follows its cursors comes to an end, also while products  *)
(* are added, since no page leads back (readNextCursor).                   *)
WalksEnd ==
  \A w \in Walks : walk[w].state = "under way" ~> walk[w].state # "under way"

=============================================================================
