--------------------------- MODULE CoinsViewCache ---------------------------
(***************************************************************************)
(* The layers of coins views (coins.h, coins.cpp): the database db, the    *)
(* cache CoinsTip() over it, and over that the view in which a block is    *)
(* connected (a CoinsViewOverlay, which does not fill the cache below it   *)
(* on a miss) or disconnected (a plain CCoinsViewCache, which does).       *)
(*                                                                         *)
(* A cache is cacheCoins with the flags of its entries as sets of keys: an *)
(* entry o has coin[o], NoCoin when it is spent, and is DIRTY or FRESH     *)
(* when o is in dirty or fresh.  cs_main is held while a block is worked   *)
(* on, so CoinsTip() is used directly only when no view is open.           *)
(***************************************************************************)
EXTENDS Integers, FiniteSets

CONSTANTS OutPoint, Coin, NoCoin

ASSUME CoinAssumption == NoCoin \notin Coin
ASSUME OutPointAssumption == IsFiniteSet(OutPoint)

VARIABLES
    db,         \* the coins in the database, NoCoin where there is none
    cacheCoins, \* of CoinsTip()
    view,       \* cacheCoins of the view over CoinsTip()
    viewKind,   \* "none", "overlay" or "cache"
    m_dirty_count,    \* of CoinsTip()
    viewDirtyCount    \* m_dirty_count of the view

vars == <<db, cacheCoins, view, viewKind, m_dirty_count, viewDirtyCount>>

Utxos == [OutPoint -> Coin \cup {NoCoin}]

Caches == [key : SUBSET OutPoint, coin : Utxos,
           dirty : SUBSET OutPoint, fresh : SUBSET OutPoint]

EmptyCache == [key |-> {}, coin |-> [o \in OutPoint |-> NoCoin],
               dirty |-> {}, fresh |-> {}]

(* What a cache c over the coins below answers, without filling it.        *)
PeekCoin(c, below, o) == IF o \in c.key THEN c.coin[o] ELSE below[o]

TipCoins  == [o \in OutPoint |-> PeekCoin(cacheCoins, db, o)]
ViewCoins == [o \in OutPoint |-> PeekCoin(view, TipCoins, o)]

-----------------------------------------------------------------------------
(* CCoinsViewCache, as operators on one cache c.                           *)

(* A coin found below is copied into the cache, with no flag.              *)
FetchCoin(c, below, o) ==
    IF o \in c.key \/ below[o] = NoCoin THEN c
    ELSE [c EXCEPT !.key = @ \cup {o}, !.coin[o] = below[o]]

(* Deviation: a coin spent in this cache is added back as FRESH.           *)
AddCoin_FreshAgain(c, o, coin, possible_overwrite) ==
    [c EXCEPT !.key = @ \cup {o}, !.coin[o] = coin, !.dirty = @ \cup {o},
              !.fresh = IF ~possible_overwrite THEN @ \cup {o} ELSE @]

(* FRESH only when nothing of the coin can be below: its spentness may not *)
(* have been flushed yet when the entry is DIRTY.                          *)
AddCoin(c, o, coin, possible_overwrite) ==
    [c EXCEPT !.key = @ \cup {o}, !.coin[o] = coin, !.dirty = @ \cup {o},
              !.fresh = IF ~possible_overwrite /\ o \notin c.dirty
                        THEN @ \cup {o} ELSE @]

Erase(c, S) ==
    [c EXCEPT !.key = @ \ S, !.dirty = @ \ S, !.fresh = @ \ S,
              !.coin = [o \in OutPoint |-> IF o \in S THEN NoCoin ELSE @[o]]]

(* A FRESH coin vanishes, any other leaves a spent entry.                  *)
SpendCoin(c, below, o) ==
    LET f == FetchCoin(c, below, o) IN
    IF o \notin f.key THEN f
    ELSE IF o \in f.fresh THEN Erase(f, {o})
    ELSE [f EXCEPT !.coin[o] = NoCoin, !.dirty = @ \cup {o}]

(* Deviation: the entry left behind by a spend is not counted.             *)
DirtyCountAfterSpend_NotCounted(c, below, o, count) ==
    IF o \notin c.key /\ below[o] = NoCoin THEN count
    ELSE count - (IF o \in c.dirty THEN 1 ELSE 0)

DirtyCountAfterSpend(c, below, o, count) ==
    IF o \notin c.key /\ below[o] = NoCoin THEN count
    ELSE count - (IF o \in c.dirty THEN 1 ELSE 0)
               + (IF o \in c.fresh THEN 0 ELSE 1)

(* The entries of the child that BatchWrite does not put into the parent:  *)
(* the ones the grandparent never saw.                                     *)
DroppedByBatchWrite(child, parent) ==
    {o \in child.dirty : /\ child.coin[o] = NoCoin
                         /\ o \in IF o \in parent.key THEN parent.fresh
                                                      ELSE child.fresh}

(* Deviation: the flag FRESH is carried over to an entry that exists.      *)
BatchWrite_KeepsFresh(child, parent) ==
    LET gone    == DroppedByBatchWrite(child, parent)
        written == child.dirty \ gone
        p       == Erase(parent, gone)
    IN  [key   |-> p.key \cup written,
         coin  |-> [o \in OutPoint |-> IF o \in written THEN child.coin[o]
                                                        ELSE p.coin[o]],
         dirty |-> p.dirty \cup written,
         fresh |-> p.fresh \cup (written \cap child.fresh)]

(* BatchWrite into a parent cache.  FRESH goes up with a new entry only.   *)
BatchWrite(child, parent) ==
    LET gone    == DroppedByBatchWrite(child, parent)
        written == child.dirty \ gone
        p       == Erase(parent, gone)
    IN  [key   |-> p.key \cup written,
         coin  |-> [o \in OutPoint |-> IF o \in written THEN child.coin[o]
                                                        ELSE p.coin[o]],
         dirty |-> p.dirty \cup written,
         fresh |-> p.fresh \cup ((written \cap child.fresh) \ parent.key)]

(* Deviation: an erased entry of the parent still counts.                  *)
DirtyCountAfterBatchWrite_ErasedCounts(child, parent, count) ==
    LET gone == DroppedByBatchWrite(child, parent)
    IN  count + Cardinality((child.dirty \ gone) \ parent.dirty)

(* The parent's m_dirty_count after it.                                    *)
DirtyCountAfterBatchWrite(child, parent, count) ==
    LET gone == DroppedByBatchWrite(child, parent)
    IN  count + Cardinality((child.dirty \ gone) \ parent.dirty)
              - Cardinality(gone \cap parent.dirty)

(* BatchWrite into the database: spent coins are erased there.             *)
DbBatchWrite(c) ==
    [o \in OutPoint |-> IF o \in c.dirty THEN c.coin[o] ELSE db[o]]

(* NextAndMaybeErase without will_erase: spent entries go, the others lose *)
(* their flags.                                                            *)
Synced(c) ==
    [Erase(c, {o \in c.dirty : c.coin[o] = NoCoin})
        EXCEPT !.dirty = {}, !.fresh = {}]

-----------------------------------------------------------------------------

Init ==
    /\ db \in Utxos
    /\ cacheCoins = EmptyCache
    /\ view = EmptyCache
    /\ viewKind = "none"
    /\ m_dirty_count = 0
    /\ viewDirtyCount = 0

(* ConnectTip resets its overlay and DisconnectTip makes a new cache.      *)
OpenView(kind) ==
    /\ viewKind = "none"
    /\ viewKind' = kind
    /\ UNCHANGED <<db, cacheCoins, view, m_dirty_count, viewDirtyCount>>

(* The cache below the view, after a lookup of o from the view: the        *)
(* overlay asks with PeekCoin, a plain cache with GetCoin.                 *)
BelowAfterFetch(o) ==
    IF viewKind = "cache" /\ o \notin view.key
    THEN FetchCoin(cacheCoins, db, o) ELSE cacheCoins

(* HaveCoin, GetCoin and AccessCoin fill the view and nothing else.        *)
ViewHaveCoin(o) ==
    /\ viewKind # "none"
    /\ cacheCoins' = BelowAfterFetch(o)
    /\ view' = FetchCoin(view, TipCoins, o)
    /\ UNCHANGED <<db, viewKind, m_dirty_count, viewDirtyCount>>

(* AddCoins and ApplyTxInUndo pass possible_overwrite unless the coin is   *)
(* known not to be in the view: ConnectBlock has refused a block that      *)
(* overwrites, RollforwardBlock and ApplyTxInUndo ask HaveCoin.            *)
ViewAddCoin(o, coin, possible_overwrite) ==
    /\ viewKind # "none"
    /\ possible_overwrite \/ ViewCoins[o] = NoCoin
    /\ view' = AddCoin(view, o, coin, possible_overwrite)
    /\ viewDirtyCount' = viewDirtyCount + (IF o \in view.dirty THEN 0 ELSE 1)
    /\ UNCHANGED <<db, cacheCoins, viewKind, m_dirty_count>>

(* UpdateCoins and DisconnectBlock spend in the view.                      *)
ViewSpendCoin(o) ==
    /\ viewKind # "none"
    /\ cacheCoins' = BelowAfterFetch(o)
    /\ view' = SpendCoin(view, TipCoins, o)
    /\ viewDirtyCount' = DirtyCountAfterSpend(view, TipCoins, o, viewDirtyCount)
    /\ UNCHANGED <<db, viewKind, m_dirty_count>>

(* view.Flush(): the block's changes reach CoinsTip().                     *)
ViewFlush ==
    /\ viewKind # "none"
    /\ cacheCoins' = BatchWrite(view, cacheCoins)
    /\ m_dirty_count' =
           DirtyCountAfterBatchWrite(view, cacheCoins, m_dirty_count)
    /\ view' = EmptyCache
    /\ viewDirtyCount' = viewDirtyCount - Cardinality(view.dirty)
    /\ viewKind' = "none"
    /\ UNCHANGED db

(* A block that fails: ResetGuard, or the view goes out of scope.          *)
ViewReset ==
    /\ viewKind # "none"
    /\ view' = EmptyCache
    /\ viewDirtyCount' = 0
    /\ viewKind' = "none"
    /\ UNCHANGED <<db, cacheCoins, m_dirty_count>>

(* The mempool reads a coin through CoinsTip().                            *)
TipFetchCoin(o) ==
    /\ viewKind = "none"
    /\ cacheCoins' = FetchCoin(cacheCoins, db, o)
    /\ UNCHANGED <<db, view, viewKind, m_dirty_count, viewDirtyCount>>

(* Uncache: ... and drops what a rejected transaction made it read.        *)
TipUncache(o) ==
    /\ viewKind = "none"
    /\ o \in cacheCoins.key \ cacheCoins.dirty
    /\ cacheCoins' = Erase(cacheCoins, {o})
    /\ UNCHANGED <<db, view, viewKind, m_dirty_count, viewDirtyCount>>

(* FlushStateToDisk writes CoinsTip() to the database, keeping the unspent *)
(* entries (Sync) or none (Flush).                                         *)
TipWrite(empty_cache) ==
    /\ viewKind = "none"
    /\ db' = DbBatchWrite(cacheCoins)
    /\ cacheCoins' = IF empty_cache THEN EmptyCache ELSE Synced(cacheCoins)
    /\ m_dirty_count' = m_dirty_count - Cardinality(cacheCoins.dirty)
    /\ UNCHANGED <<view, viewKind, viewDirtyCount>>

(* The process ends and starts again with empty caches.                    *)
CrashCoins ==
    /\ cacheCoins' = EmptyCache
    /\ view' = EmptyCache
    /\ viewKind' = "none"
    /\ m_dirty_count' = 0
    /\ viewDirtyCount' = 0
    /\ UNCHANGED db

Next ==
    \/ \E kind \in {"overlay", "cache"} : OpenView(kind)
    \/ \E o \in OutPoint : ViewHaveCoin(o)
    \/ \E o \in OutPoint, coin \in Coin, possible_overwrite \in BOOLEAN :
           ViewAddCoin(o, coin, possible_overwrite)
    \/ \E o \in OutPoint : ViewSpendCoin(o)
    \/ ViewFlush
    \/ ViewReset
    \/ \E o \in OutPoint : TipFetchCoin(o)
    \/ \E o \in OutPoint : TipUncache(o)
    \/ \E empty_cache \in BOOLEAN : TipWrite(empty_cache)
    \/ CrashCoins

Spec == Init /\ [][Next]_vars

-----------------------------------------------------------------------------
(* Properties.                                                             *)

(* The caches are maps with flags.  The counters never pass below zero: no *)
(* "Assume(TrySub(m_dirty_count, ...))" of AddCoin, SpendCoin, BatchWrite  *)
(* or the cursor fails.                                                    *)
TypeOK ==
    /\ db \in Utxos
    /\ cacheCoins \in Caches
    /\ view \in Caches
    /\ viewKind \in {"none", "overlay", "cache"}
    /\ m_dirty_count \in Nat
    /\ viewDirtyCount \in Nat

(* The four legal combinations of coins.h: a spent entry is DIRTY and not  *)
(* FRESH, and an entry that is not DIRTY is not FRESH.                     *)
FlagsLegal(c) ==
    /\ c.fresh \subseteq c.dirty
    /\ c.dirty \subseteq c.key
    /\ \A o \in OutPoint :
         /\ o \in c.key /\ c.coin[o] = NoCoin => o \in c.dirty \ c.fresh
         /\ o \notin c.key => c.coin[o] = NoCoin

(* DIRTY marks every entry that differs from the level below, and FRESH    *)
(* only entries of which the level below has no unspent coin.              *)
FlagsTrue(c, below) ==
    /\ \A o \in c.key \ c.dirty : c.coin[o] = below[o]
    /\ \A o \in c.fresh : below[o] = NoCoin

(* A missing DIRTY or a misapplied FRESH flag would make a flush drop a    *)
(* coin's creation or its spend: "will cause a consensus failure".  No     *)
(* sequence of block views, mempool reads, writes and crashes leads there, *)
(* so neither logic_error (AddCoin, BatchWrite) is ever thrown.            *)
FlagsConsistent ==
    /\ FlagsLegal(cacheCoins) /\ FlagsTrue(cacheCoins, db)
    /\ FlagsLegal(view) /\ FlagsTrue(view, TipCoins)

(* SanityCheck: m_dirty_count is the number of DIRTY entries, so that it   *)
(* is 0 again after a write ("Assume(m_dirty_count == 0)").                *)
DirtyCountExact ==
    /\ m_dirty_count = Cardinality(cacheCoins.dirty)
    /\ viewDirtyCount = Cardinality(view.dirty)

(* The stack behaves as three plain maps: whatever is cached, dropped,     *)
(* written or lost, a lookup sees exactly the committed coins.             *)
Utxo == INSTANCE UtxoView WITH
            disk <- db, committed <- TipCoins, pending <- ViewCoins
ImplementsUtxoView == Utxo!Spec

=============================================================================
