--------------------------- MODULE RefreshTokenStore ---------------------------
(***************************************************************************)
(* The part of the single DynamoDB table that refresh tokens live in, as   *)
(* DynamoRefreshTokenRepository reads and writes it: one item per token,   *)
(* keyed by account and token id, and the account item's revocation        *)
(* generation.  Every operator below is one call of the repository; a call *)
(* is atomic, because each is a single item operation or one               *)
(* TransactWriteItems, and every read is a ConsistentRead.                 *)
(*                                                                         *)
(* What the model abstracts: the digest is only "written or not written",  *)
(* token ids are numbers handed out in order (UUIDv7 ids never repeat),    *)
(* and rotated_at / replaced_by, which one Update sets together, are the   *)
(* single field successor.                                                 *)
(***************************************************************************)
EXTENDS Naturals

CONSTANTS
  Accounts,       \* registered accounts; none is ever deleted
  MaxTokens,      \* bound: token ids the generator can hand out
  CollectionLag,  \* least time between an item's ttl and its collection
  None            \* no item, no session, no call

VARIABLES
  items,       \* token id -> stored item, or None
  generation,  \* account -> token_generation of the account item
  nextId,      \* the id generator: ids below it have been handed out
  session      \* history: token id -> the sign-in it descends from, or None

storeVars == <<items, generation, nextId, session>>

TokenIds == 1..MaxTokens
NoToken == 0

Item == [account    : Accounts,
         digest     : BOOLEAN,
         generation : Nat,
         startedAt  : Nat,
         expiresAt  : Nat,
         successor  : TokenIds \cup {NoToken}]

Session == [root : TokenIds, account : Accounts, openedAt : Nat]

ASSUME StoreAssumption ==
  /\ MaxTokens \in Nat
  /\ CollectionLag \in Nat
  /\ None \notin Item
  /\ None \notin Session

StoreTypeOK ==
  /\ items \in [TokenIds -> Item \cup {None}]
  /\ generation \in [Accounts -> Nat]
  /\ nextId \in 1..(MaxTokens + 1)
  /\ session \in [TokenIds -> Session \cup {None}]

StoreInit ==
  /\ items = [t \in TokenIds |-> None]
  /\ generation = [a \in Accounts |-> 0]
  /\ nextId = 1
  /\ session = [t \in TokenIds |-> None]

-----------------------------------------------------------------------------

IsRetired(item) == item.successor # NoToken

\* Mutant: the token id alone finds the item, under any account.
FindByIds_AnyAccount(a, t) == items[t]

\* findByIds: the composite key finds an item only under its own account.
FindByIds(a, t) ==
  IF items[t] # None /\ items[t].account = a THEN items[t] ELSE None

\* issue: an unconditional Put, which opens a session.
Issue(t, item) ==
  /\ items' = [items EXCEPT ![t] = item]
  /\ session' = [session EXCEPT ![t] =
                   [root |-> t, account |-> item.account, openedAt |-> item.startedAt]]

\* Mutant: the transaction no longer asks that the token be unretired.
RotateConditionsHold_NoRetiredCheck(t, presented) ==
  generation[presented.account] = presented.generation

\* Mutant: the transaction no longer asks for the account's generation.
RotateConditionsHold_NoGeneration(t, presented) ==
  items[t] # None => ~IsRetired(items[t])

\* The two conditions of the rotate transaction.  attribute_not_exists holds
\* of an item that is not there at all as well as of an unretired one.
RotateConditionsHold(t, presented) ==
  /\ generation[presented.account] = presented.generation
  /\ items[t] # None => ~IsRetired(items[t])

\* What the transaction's Update leaves under the presented token's key: the
\* item with its successor set or, when the item has been collected in the
\* meantime, a new item that holds nothing but rotated_at and replaced_by.
Retire(t, presented, successor) ==
  IF items[t] # None
    THEN [items[t] EXCEPT !.successor = successor]
    ELSE [presented EXCEPT !.successor = successor, !.digest = FALSE]

\* The committed transaction: the presented token is retired and its
\* successor put, all or nothing.
Rotate(t, presented, s, successor) ==
  /\ RotateConditionsHold(t, presented)
  /\ items' = [items EXCEPT ![t] = Retire(t, presented, s), ![s] = successor]
  /\ session' = [session EXCEPT ![s] = session[t]]

\* Mutant: SET token_generation = :one, without the addition.
IncrementGeneration_SetsOne(a) == generation' = [generation EXCEPT ![a] = 1]

\* revokeAll: one atomic increment on the account item.
IncrementGeneration(a) == generation' = [generation EXCEPT ![a] = @ + 1]

\* DynamoDB's ttl deletion: at some time after expiry, in no particular order,
\* or never.  An item without a ttl attribute is never collected.
Collect(t, now) ==
  /\ items[t] # None
  /\ items[t].digest
  /\ now >= items[t].expiresAt + CollectionLag
  /\ items' = [items EXCEPT ![t] = None]

=============================================================================
