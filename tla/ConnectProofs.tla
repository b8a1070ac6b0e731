--------------------------- MODULE ConnectProofs ---------------------------
(***************************************************************************)
(* What ConnectBlock relies on: the caches of the coins and the queue of   *)
(* the script checks.                                                      *)
(*                                                                         *)
(* The flags of the coins caches stay true for any set of outpoints and    *)
(* coins, and the stack of views implements plain maps (UtxoView).         *)
(*                                                                         *)
(* CCheckQueue: Complete returns only when no check of the block is left,  *)
(* and returns the error of one of its checks exactly when one fails, for  *)
(* any number of workers, checks and blocks and any interleaving; and no   *)
(* thread sleeps when nobody is left to wake it.  The critical section of  *)
(* Loop first cleans up after the last batch and then returns, waits or    *)
(* takes another one.  The invariant is therefore stated of values rather  *)
(* than of variables: it holds of the values that the clean-up leaves, and *)
(* the rest of the section starts from them.                               *)
(***************************************************************************)
EXTENDS CoinsViewCache, CheckQueue, FiniteSetTheorems, TLAPS

(* Zenon proves what needs no arithmetic; the other steps name SMT.        *)
USE ZenonT(30)

-----------------------------------------------------------------------------
(* The caches of the coins.                                                *)

(* A cache that is well formed over the coins below it.                    *)
Good(c, below) == c \in Caches /\ FlagsLegal(c) /\ FlagsTrue(c, below)

(* What a cache answers for every outpoint.                                *)
Coins(c, below) == [o \in OutPoint |-> PeekCoin(c, below, o)]

-----------------------------------------------------------------------------
(* One lemma per operation: it keeps the cache well formed, and what it    *)
(* does to the answers.                                                    *)

(* A cache answers with coins.                                             *)
LEMMA CoinsType ==
    ASSUME NEW c \in Caches, NEW below \in Utxos
    PROVE  Coins(c, below) \in Utxos
BY DEF Coins, PeekCoin, Caches, Utxos

(* An empty cache is well formed and answers what is below.                *)
LEMMA EmptyCacheIsGood ==
    ASSUME NEW below \in Utxos
    PROVE  Good(EmptyCache, below) /\ Coins(EmptyCache, below) = below
BY DEF Good, Coins, EmptyCache, PeekCoin, FlagsLegal, FlagsTrue, Caches, Utxos

(* FetchCoin fills the cache and changes no answer.                        *)
LEMMA FetchCoinIsGood ==
    ASSUME NEW below \in Utxos, NEW c, Good(c, below), NEW o \in OutPoint
    PROVE  /\ Good(FetchCoin(c, below, o), below)
           /\ Coins(FetchCoin(c, below, o), below) = Coins(c, below)
<1> DEFINE f == [c EXCEPT !.key = @ \cup {o}, !.coin[o] = below[o]]
<1>1. CASE o \in c.key \/ below[o] = NoCoin
  BY <1>1 DEF FetchCoin
<1>2. CASE ~(o \in c.key \/ below[o] = NoCoin)
  <2>1. FetchCoin(c, below, o) = f
    BY <1>2 DEF FetchCoin
  <2>2. f \in Caches
    BY DEF Good, Caches, Utxos
  <2>3. Good(f, below)
    BY <1>2, <2>2 DEF Good, Caches, Utxos, FlagsLegal, FlagsTrue
  <2>4. \A x \in OutPoint : PeekCoin(f, below, x) = PeekCoin(c, below, x)
    BY <1>2 DEF Good, Caches, Utxos, PeekCoin
  <2> QED BY <2>1, <2>3, <2>4 DEF Coins
<1> QED BY <1>1, <1>2

(* AddCoin of a coin that is absent, or with possible_overwrite, replaces  *)
(* the answer for that outpoint.                                           *)
LEMMA AddCoinIsGood ==
    ASSUME NEW below \in Utxos, NEW c, Good(c, below), NEW o \in OutPoint,
           NEW coin \in Coin, NEW possible_overwrite \in BOOLEAN,
           possible_overwrite \/ PeekCoin(c, below, o) = NoCoin
    PROVE  /\ Good(AddCoin(c, o, coin, possible_overwrite), below)
           /\ Coins(AddCoin(c, o, coin, possible_overwrite), below)
                = [Coins(c, below) EXCEPT ![o] = coin]
<1> DEFINE a == AddCoin(c, o, coin, possible_overwrite)
<1>1. a \in Caches
  BY DEF Good, Caches, Utxos, AddCoin
<1>2. Good(a, below)
  BY <1>1, CoinAssumption, SMT
     DEF Good, Caches, Utxos, AddCoin, FlagsLegal, FlagsTrue, PeekCoin
<1>3. \A x \in OutPoint :
         PeekCoin(a, below, x) = IF x = o THEN coin ELSE PeekCoin(c, below, x)
  BY DEF Good, Caches, Utxos, AddCoin, PeekCoin
<1> QED BY <1>2, <1>3 DEF Coins

(* Erasing entries of which the level below has the same answer changes no *)
(* answer.                                                                 *)
LEMMA EraseIsGood ==
    ASSUME NEW below \in Utxos, NEW c, Good(c, below),
           NEW S \in SUBSET OutPoint
    PROVE  /\ Good(Erase(c, S), below)
           /\ Coins(Erase(c, S), below)
                = [o \in OutPoint |-> IF o \in S THEN below[o]
                                      ELSE PeekCoin(c, below, o)]
<1> DEFINE e == Erase(c, S)
<1>1. /\ e.key = c.key \ S
      /\ e.dirty = c.dirty \ S
      /\ e.fresh = c.fresh \ S
      /\ e.coin = [o \in OutPoint |-> IF o \in S THEN NoCoin ELSE c.coin[o]]
      /\ e \in Caches
  BY DEF Good, Caches, Utxos, Erase
<1>2. Good(e, below)
  BY <1>1 DEF Good, Caches, Utxos, FlagsLegal, FlagsTrue
<1>3. \A o \in OutPoint : PeekCoin(e, below, o) =
         IF o \in S THEN below[o] ELSE PeekCoin(c, below, o)
  BY <1>1 DEF Good, Caches, Utxos, PeekCoin
<1> QED BY <1>2, <1>3 DEF Coins

(* Uncache drops an entry that is not DIRTY: no answer changes.            *)
LEMMA UncacheIsGood ==
    ASSUME NEW below \in Utxos, NEW c, Good(c, below),
           NEW o \in OutPoint, o \in c.key \ c.dirty
    PROVE  /\ Good(Erase(c, {o}), below)
           /\ Coins(Erase(c, {o}), below) = Coins(c, below)
<1>1. PeekCoin(c, below, o) = below[o]
  BY DEF Good, FlagsTrue, PeekCoin
<1>2. /\ Good(Erase(c, {o}), below)
      /\ Coins(Erase(c, {o}), below)
           = [x \in OutPoint |-> IF x \in {o} THEN below[x]
                                 ELSE PeekCoin(c, below, x)]
  BY EraseIsGood, SMT
<1> QED BY <1>1, <1>2 DEF Coins

(* SpendCoin leaves no coin, whether the entry vanishes or stays as spent. *)
LEMMA SpendCoinIsGood ==
    ASSUME NEW below \in Utxos, NEW c, Good(c, below), NEW o \in OutPoint
    PROVE  /\ Good(SpendCoin(c, below, o), below)
           /\ Coins(SpendCoin(c, below, o), below)
                = [Coins(c, below) EXCEPT ![o] = NoCoin]
<1> DEFINE f == FetchCoin(c, below, o)
           g == [f EXCEPT !.coin[o] = NoCoin, !.dirty = @ \cup {o}]
<1>1. Good(f, below) /\ Coins(f, below) = Coins(c, below)
  BY FetchCoinIsGood
<1>2. SpendCoin(c, below, o) = IF o \notin f.key THEN f
                               ELSE IF o \in f.fresh THEN Erase(f, {o})
                               ELSE g
  BY DEF SpendCoin
<1> HIDE DEF f
<1>3. CASE o \notin f.key
  <2>1. o \notin c.key /\ below[o] = NoCoin
    BY <1>3 DEF f, FetchCoin, Good, Caches
  <2>2. Coins(c, below)[o] = NoCoin
    BY <2>1 DEF Coins, PeekCoin
  <2>3. [Coins(c, below) EXCEPT ![o] = NoCoin] = Coins(c, below)
    BY <2>2 DEF Coins
  <2> QED BY <1>1, <1>2, <1>3, <2>3
<1>4. CASE o \in f.key /\ o \in f.fresh
  <2>1. below[o] = NoCoin
    BY <1>1, <1>4 DEF Good, FlagsTrue
  <2>2. /\ Good(Erase(f, {o}), below)
        /\ Coins(Erase(f, {o}), below)
             = [x \in OutPoint |-> IF x \in {o} THEN below[x]
                                   ELSE PeekCoin(f, below, x)]
    BY <1>1, EraseIsGood, SMT
  <2>3. Coins(Erase(f, {o}), below) = [Coins(f, below) EXCEPT ![o] = NoCoin]
    BY <2>1, <2>2 DEF Coins
  <2> QED BY <1>1, <1>2, <1>4, <2>2, <2>3
<1>5. CASE o \in f.key /\ o \notin f.fresh
  <2>1. /\ g \in Caches
        /\ g.key = f.key
        /\ g.fresh = f.fresh
        /\ g.dirty = f.dirty \cup {o}
        /\ g.coin = [f.coin EXCEPT ![o] = NoCoin]
    BY <1>1 DEF Good, Caches, Utxos
  <2> HIDE DEF g
  <2>2. Good(g, below)
    BY <1>1, <1>5, <2>1, SMT DEF Good, Caches, Utxos, FlagsLegal, FlagsTrue
  <2>3. \A x \in OutPoint : PeekCoin(g, below, x) =
           IF x = o THEN NoCoin ELSE PeekCoin(f, below, x)
    BY <1>1, <1>5, <2>1 DEF Good, Caches, Utxos, PeekCoin
  <2>4. Coins(g, below) = [Coins(f, below) EXCEPT ![o] = NoCoin]
    BY <2>3 DEF Coins
  <2> QED BY <1>1, <1>2, <1>5, <2>2, <2>4
<1> QED BY <1>3, <1>4, <1>5

(* BatchWrite makes the parent answer what the child answered, and the     *)
(* flags it leaves in the parent are true of the grandparent.              *)
LEMMA BatchWriteIsGood ==
    ASSUME NEW below \in Utxos, NEW parent, Good(parent, below),
           NEW child, Good(child, Coins(parent, below))
    PROVE  /\ Good(BatchWrite(child, parent), below)
           /\ Coins(BatchWrite(child, parent), below)
                = Coins(child, Coins(parent, below))
<1> DEFINE gone == DroppedByBatchWrite(child, parent)
           written == child.dirty \ gone
           p == Erase(parent, gone)
           w == BatchWrite(child, parent)
           mid == Coins(parent, below)
<1>1. parent \in Caches /\ child \in Caches /\ mid \in Utxos
  BY CoinsType DEF Good
<1>2. gone \in SUBSET OutPoint /\ written \in SUBSET OutPoint
  BY <1>1 DEF Caches, DroppedByBatchWrite
<1>3. /\ p.key = parent.key \ gone
      /\ p.dirty = parent.dirty \ gone
      /\ p.fresh = parent.fresh \ gone
      /\ p.coin = [o \in OutPoint |-> IF o \in gone THEN NoCoin
                                      ELSE parent.coin[o]]
  BY <1>1, <1>2 DEF Caches, Utxos, Erase
<1>4. /\ w.key = (parent.key \ gone) \cup written
      /\ w.dirty = (parent.dirty \ gone) \cup written
      /\ w.fresh = (parent.fresh \ gone)
                     \cup ((written \cap child.fresh) \ parent.key)
      /\ w.coin = [o \in OutPoint |-> IF o \in written THEN child.coin[o]
                                      ELSE IF o \in gone THEN NoCoin
                                      ELSE parent.coin[o]]
      /\ w \in Caches
  BY <1>1, <1>2, <1>3 DEF BatchWrite, Caches, Utxos
<1>5. \A o \in OutPoint :
         o \in gone <=> /\ o \in child.dirty
                        /\ child.coin[o] = NoCoin
                        /\ o \in parent.key => o \in parent.fresh
                        /\ o \notin parent.key => o \in child.fresh
  BY <1>1 DEF DroppedByBatchWrite, Caches
<1>6. \A o \in OutPoint :
         mid[o] = IF o \in parent.key THEN parent.coin[o] ELSE below[o]
  BY DEF Coins, PeekCoin
<1> HIDE DEF gone, w, mid, p
<1>7. FlagsLegal(w)
  BY <1>1, <1>2, <1>4, <1>5 DEF Good, Caches, FlagsLegal
<1>8. FlagsTrue(w, below)
  BY <1>1, <1>2, <1>4, <1>5, <1>6, SMT
     DEF Good, Caches, FlagsLegal, FlagsTrue, mid
<1>9. \A o \in OutPoint : PeekCoin(w, below, o) = PeekCoin(child, mid, o)
  <2> TAKE o \in OutPoint
  <2>1. CASE o \in gone
    <3>1. o \notin w.key /\ PeekCoin(child, mid, o) = NoCoin
      BY <1>1, <1>2, <1>4, <1>5, <2>1
         DEF Good, Caches, FlagsLegal, PeekCoin
    <3>2. below[o] = NoCoin
      BY <1>1, <1>5, <1>6, <2>1 DEF Good, FlagsTrue, mid
    <3> QED BY <3>1, <3>2 DEF PeekCoin
  <2>2. CASE o \in written
    BY <1>1, <1>4, <2>2 DEF Good, Caches, FlagsLegal, PeekCoin
  <2>3. CASE o \notin gone /\ o \notin written
    <3>1. o \notin child.dirty
      BY <2>3
    <3>2. PeekCoin(child, mid, o) = mid[o]
      BY <3>1 DEF Good, FlagsTrue, PeekCoin, mid
    <3> QED BY <1>1, <1>4, <1>6, <2>3, <3>2 DEF PeekCoin, Caches
  <2> QED BY <2>1, <2>2, <2>3
<1> QED BY <1>4, <1>7, <1>8, <1>9, SMT DEF Good, Coins, w, mid

(* Writing a cache to the database: the database then answers what the     *)
(* cache answered, and the entries that stay are clean.                    *)
LEMMA SyncIsGood ==
    ASSUME db \in Utxos, NEW c, Good(c, db)
    PROVE  /\ DbBatchWrite(c) = Coins(c, db)
           /\ DbBatchWrite(c) \in Utxos
           /\ Good(Synced(c), DbBatchWrite(c))
           /\ Coins(Synced(c), DbBatchWrite(c)) = Coins(c, db)
<1> DEFINE spent == {o \in c.dirty : c.coin[o] = NoCoin}
           e == Erase(c, spent)
           y == Synced(c)
           d == DbBatchWrite(c)
<1>1. c \in Caches /\ spent \in SUBSET OutPoint
  BY DEF Good, Caches
<1>2. \A o \in OutPoint : d[o] = PeekCoin(c, db, o)
  BY <1>1 DEF DbBatchWrite, PeekCoin, Good, Caches, FlagsLegal, FlagsTrue
<1>3. d = Coins(c, db) /\ d \in Utxos
  BY <1>1, <1>2, CoinsType DEF DbBatchWrite, Coins
<1>4. e \in Caches
  BY <1>1, EraseIsGood DEF Good
<1>5. /\ e.key = c.key \ spent
      /\ e.coin = [o \in OutPoint |-> IF o \in spent THEN NoCoin
                                      ELSE c.coin[o]]
  BY <1>1 DEF Erase, Caches
<1>6. y = [e EXCEPT !.dirty = {}, !.fresh = {}]
  BY DEF Synced
<1> HIDE DEF e
<1>7. /\ y \in Caches
      /\ y.key = c.key \ spent
      /\ y.dirty = {}
      /\ y.fresh = {}
      /\ y.coin = [o \in OutPoint |-> IF o \in spent THEN NoCoin
                                      ELSE c.coin[o]]
  BY <1>4, <1>5, <1>6 DEF Caches
<1> HIDE DEF y, d
<1>8. Good(y, d)
  BY <1>1, <1>2, <1>7, SMT DEF Good, Caches, FlagsLegal, FlagsTrue, PeekCoin
<1>9. \A o \in OutPoint : PeekCoin(y, d, o) = d[o]
  BY <1>1, <1>2, <1>7 DEF Good, Caches, PeekCoin
<1>10. Coins(y, d) = Coins(c, db)
  BY <1>2, <1>9 DEF Coins
<1> QED BY <1>3, <1>8, <1>10 DEF y, d

-----------------------------------------------------------------------------
(* The invariant: both caches are well formed over what is below them.     *)
GoodStack ==
    /\ db \in Utxos
    /\ viewKind \in {"none", "overlay", "cache"}
    /\ Good(cacheCoins, db)
    /\ Good(view, TipCoins)

(* TipCoins and ViewCoins are the answers of the two caches.               *)
LEMMA Answers ==
    /\ TipCoins = Coins(cacheCoins, db)
    /\ ViewCoins = Coins(view, TipCoins)
    /\ GoodStack => TipCoins \in Utxos /\ ViewCoins \in Utxos
<1>1. TipCoins = Coins(cacheCoins, db) /\ ViewCoins = Coins(view, TipCoins)
  BY DEF TipCoins, ViewCoins, Coins
<1> QED BY <1>1, CoinsType DEF GoodStack, Good

(* The same in the next state.                                             *)
LEMMA AnswersPrimed ==
    /\ TipCoins' = Coins(cacheCoins', db')
    /\ ViewCoins' = Coins(view', TipCoins')
BY DEF TipCoins, ViewCoins, Coins, PeekCoin

(* The lookup of a view may fill CoinsTip() and changes no answer of it.   *)
LEMMA BelowAfterFetchIsGood ==
    ASSUME GoodStack, NEW o \in OutPoint
    PROVE  /\ Good(BelowAfterFetch(o), db)
           /\ Coins(BelowAfterFetch(o), db) = TipCoins
BY FetchCoinIsGood, Answers DEF GoodStack, BelowAfterFetch

-----------------------------------------------------------------------------
(* What each step does to the two answers and to the invariant.            *)

(* A step that leaves the answers of CoinsTip() alone.                     *)
LEMMA StepOfView ==
    ASSUME GoodStack, db' = db, viewKind' \in {"none", "overlay", "cache"},
           Good(cacheCoins', db), Coins(cacheCoins', db) = TipCoins,
           Good(view', TipCoins)
    PROVE  /\ GoodStack'
           /\ TipCoins' = TipCoins
           /\ ViewCoins' = Coins(view', TipCoins)
BY AnswersPrimed DEF GoodStack, Good, FlagsLegal, FlagsTrue

(* HaveCoin in the view changes no answer.                                 *)
LEMMA StepViewHaveCoin ==
    ASSUME GoodStack, NEW o \in OutPoint, ViewHaveCoin(o)
    PROVE  /\ GoodStack'
           /\ db' = db /\ TipCoins' = TipCoins /\ ViewCoins' = ViewCoins
<1>1. Good(view', TipCoins) /\ Coins(view', TipCoins) = ViewCoins
  BY FetchCoinIsGood, Answers DEF GoodStack, ViewHaveCoin
<1>2. Good(cacheCoins', db) /\ Coins(cacheCoins', db) = TipCoins
  BY BelowAfterFetchIsGood DEF ViewHaveCoin
<1> QED BY <1>1, <1>2, StepOfView DEF ViewHaveCoin, GoodStack

(* AddCoin changes one answer of the view.                                 *)
LEMMA StepViewAddCoin ==
    ASSUME GoodStack, NEW o \in OutPoint, NEW coin \in Coin,
           NEW possible_overwrite \in BOOLEAN,
           ViewAddCoin(o, coin, possible_overwrite)
    PROVE  /\ GoodStack'
           /\ db' = db /\ TipCoins' = TipCoins
           /\ ViewCoins' = [ViewCoins EXCEPT ![o] = coin]
<1>1. possible_overwrite \/ PeekCoin(view, TipCoins, o) = NoCoin
  BY DEF ViewAddCoin, ViewCoins
<1>2. /\ Good(view', TipCoins)
      /\ Coins(view', TipCoins) = [ViewCoins EXCEPT ![o] = coin]
  BY <1>1, AddCoinIsGood, Answers, SMT DEF GoodStack, ViewAddCoin
<1>3. Good(cacheCoins', db) /\ Coins(cacheCoins', db) = TipCoins
  BY Answers DEF ViewAddCoin, GoodStack
<1> QED BY <1>2, <1>3, StepOfView DEF ViewAddCoin, GoodStack

(* SpendCoin removes one answer of the view.                               *)
LEMMA StepViewSpendCoin ==
    ASSUME GoodStack, NEW o \in OutPoint, ViewSpendCoin(o)
    PROVE  /\ GoodStack'
           /\ db' = db /\ TipCoins' = TipCoins
           /\ ViewCoins' = [ViewCoins EXCEPT ![o] = NoCoin]
<1>1. /\ Good(view', TipCoins)
      /\ Coins(view', TipCoins) = [ViewCoins EXCEPT ![o] = NoCoin]
  BY SpendCoinIsGood, Answers DEF GoodStack, ViewSpendCoin
<1>2. Good(cacheCoins', db) /\ Coins(cacheCoins', db) = TipCoins
  BY BelowAfterFetchIsGood DEF ViewSpendCoin
<1> QED BY <1>1, <1>2, StepOfView DEF ViewSpendCoin, GoodStack

(* Flush of the view: CoinsTip() answers what the view answered.           *)
LEMMA StepViewFlush ==
    ASSUME GoodStack, ViewFlush
    PROVE  /\ GoodStack'
           /\ db' = db /\ TipCoins' = ViewCoins /\ ViewCoins' = ViewCoins
<1>1. Good(cacheCoins', db) /\ Coins(cacheCoins', db) = ViewCoins
  BY BatchWriteIsGood, Answers DEF GoodStack, ViewFlush
<1>2. TipCoins' = ViewCoins
  BY <1>1, AnswersPrimed DEF ViewFlush
<1>3. Good(view', ViewCoins) /\ Coins(view', ViewCoins) = ViewCoins
  BY EmptyCacheIsGood, Answers DEF ViewFlush
<1>4. ViewCoins' = ViewCoins
  BY <1>2, <1>3, AnswersPrimed
<1> QED BY <1>1, <1>2, <1>3, <1>4, SMT
        DEF ViewFlush, GoodStack, Good, FlagsLegal, FlagsTrue

(* Reset of the view: it answers what CoinsTip() answers.                  *)
LEMMA StepViewReset ==
    ASSUME GoodStack, ViewReset
    PROVE  /\ GoodStack'
           /\ db' = db /\ TipCoins' = TipCoins /\ ViewCoins' = TipCoins
<1>1. Good(view', TipCoins) /\ Coins(view', TipCoins) = TipCoins
  BY EmptyCacheIsGood, Answers DEF ViewReset
<1>2. Good(cacheCoins', db) /\ Coins(cacheCoins', db) = TipCoins
  BY Answers DEF ViewReset, GoodStack
<1> QED BY <1>1, <1>2, StepOfView DEF ViewReset, GoodStack

(* A read through CoinsTip() and Uncache change no answer.                 *)
LEMMA StepOfTip ==
    ASSUME GoodStack, NEW o \in OutPoint,
           TipFetchCoin(o) \/ TipUncache(o)
    PROVE  /\ GoodStack'
           /\ db' = db /\ TipCoins' = TipCoins /\ ViewCoins' = ViewCoins
<1>1. Good(cacheCoins', db) /\ Coins(cacheCoins', db) = TipCoins
  <2>1. CASE TipFetchCoin(o)
    BY <2>1, FetchCoinIsGood, Answers DEF TipFetchCoin, GoodStack
  <2>2. CASE TipUncache(o)
    BY <2>2, UncacheIsGood, Answers DEF TipUncache, GoodStack
  <2> QED BY <2>1, <2>2
<1>2. /\ db' = db
      /\ view' = view
      /\ viewKind' \in {"none", "overlay", "cache"}
  BY DEF TipFetchCoin, TipUncache, GoodStack
<1>3. Good(view', TipCoins) /\ Coins(view', TipCoins) = ViewCoins
  BY <1>2, Answers DEF GoodStack
<1> QED BY <1>1, <1>2, <1>3, StepOfView

(* Sync and Flush of CoinsTip(): the database answers what it answered.    *)
LEMMA StepTipWrite ==
    ASSUME GoodStack, NEW empty_cache \in BOOLEAN, TipWrite(empty_cache)
    PROVE  /\ GoodStack'
           /\ db' = TipCoins /\ TipCoins' = TipCoins /\ ViewCoins' = ViewCoins
<1>1. /\ db' = TipCoins
      /\ db' \in Utxos
      /\ Good(Synced(cacheCoins), db')
      /\ Coins(Synced(cacheCoins), db') = TipCoins
  BY SyncIsGood, Answers DEF GoodStack, TipWrite
<1>2. Good(EmptyCache, db') /\ Coins(EmptyCache, db') = TipCoins
  BY <1>1, EmptyCacheIsGood
<1>3. Good(cacheCoins', db') /\ Coins(cacheCoins', db') = TipCoins
  BY <1>1, <1>2 DEF TipWrite
<1>4. TipCoins' = TipCoins
  BY <1>3, AnswersPrimed
<1>5. view' = view /\ viewKind' = viewKind
  BY DEF TipWrite
<1>6. ViewCoins' = ViewCoins
  BY <1>4, <1>5, Answers, AnswersPrimed
<1> QED BY <1>1, <1>3, <1>4, <1>5, <1>6
        DEF GoodStack, Good, FlagsLegal, FlagsTrue

(* A crash leaves what the database holds.                                 *)
LEMMA StepCrash ==
    ASSUME GoodStack, CrashCoins
    PROVE  /\ GoodStack'
           /\ db' = db /\ TipCoins' = db /\ ViewCoins' = db
<1>1. Good(EmptyCache, db) /\ Coins(EmptyCache, db) = db
  BY EmptyCacheIsGood DEF GoodStack
<1>2. TipCoins' = db /\ ViewCoins' = db
  BY <1>1, AnswersPrimed DEF CrashCoins
<1> QED BY <1>1, <1>2 DEF CrashCoins, GoodStack, Good, FlagsLegal, FlagsTrue

-----------------------------------------------------------------------------

(* The initial state has two empty caches.                                 *)
LEMMA InitIsGood ==
    ASSUME Init
    PROVE  GoodStack /\ Utxo!Init
<1>1. db \in Utxos
  BY DEF Init
<1>2. Good(EmptyCache, db) /\ Coins(EmptyCache, db) = db
  BY <1>1, EmptyCacheIsGood
<1>3. TipCoins = db /\ ViewCoins = db
  BY <1>2, Answers DEF Init
<1>4. GoodStack
  BY <1>1, <1>2, <1>3 DEF Init, GoodStack
<1>5. Utxo!Init
  BY <1>1, <1>3 DEF Utxo!Init, Utxo!Utxos, Utxos
<1> QED BY <1>4, <1>5

(* Every step keeps the invariant and is a step of the plain maps.         *)
LEMMA NextIsGood ==
    ASSUME GoodStack, [Next]_vars
    PROVE  GoodStack' /\ [Utxo!Next]_(Utxo!uvars)
<1> USE DEF Utxo!Next, Utxo!uvars
<1>1. ASSUME NEW kind \in {"overlay", "cache"}, OpenView(kind)
      PROVE  GoodStack' /\ [Utxo!Next]_(Utxo!uvars)
  <2>1. /\ Good(cacheCoins', db) /\ Coins(cacheCoins', db) = TipCoins
        /\ Good(view', TipCoins) /\ Coins(view', TipCoins) = ViewCoins
        /\ db' = db /\ viewKind' \in {"none", "overlay", "cache"}
    BY <1>1, Answers DEF OpenView, GoodStack
  <2> QED BY <2>1, StepOfView
<1>2. ASSUME NEW o \in OutPoint, ViewHaveCoin(o)
      PROVE  GoodStack' /\ [Utxo!Next]_(Utxo!uvars)
  BY <1>2, StepViewHaveCoin
<1>3. ASSUME NEW o \in OutPoint, NEW coin \in Coin,
             NEW possible_overwrite \in BOOLEAN,
             ViewAddCoin(o, coin, possible_overwrite)
      PROVE  GoodStack' /\ [Utxo!Next]_(Utxo!uvars)
  BY <1>3, StepViewAddCoin, SMT DEF Utxo!Put
<1>4. ASSUME NEW o \in OutPoint, ViewSpendCoin(o)
      PROVE  GoodStack' /\ [Utxo!Next]_(Utxo!uvars)
  BY <1>4, StepViewSpendCoin DEF Utxo!Put
<1>5. CASE ViewFlush
  BY <1>5, StepViewFlush DEF Utxo!Commit
<1>6. CASE ViewReset
  BY <1>6, StepViewReset DEF Utxo!Discard
<1>7. ASSUME NEW o \in OutPoint, TipFetchCoin(o) \/ TipUncache(o)
      PROVE  GoodStack' /\ [Utxo!Next]_(Utxo!uvars)
  BY <1>7, StepOfTip
<1>8. ASSUME NEW empty_cache \in BOOLEAN, TipWrite(empty_cache)
      PROVE  GoodStack' /\ [Utxo!Next]_(Utxo!uvars)
  BY <1>8, StepTipWrite DEF Utxo!Persist
<1>9. CASE CrashCoins
  BY <1>9, StepCrash DEF Utxo!Crash
<1>10. CASE UNCHANGED vars
  <2>1. /\ db' = db /\ cacheCoins' = cacheCoins /\ view' = view
        /\ viewKind' = viewKind
    BY <1>10 DEF vars
  <2>2. TipCoins' = TipCoins
    BY <2>1 DEF TipCoins, PeekCoin
  <2>3. ViewCoins' = ViewCoins
    BY <2>1, <2>2 DEF ViewCoins, PeekCoin
  <2>4. GoodStack'
    BY <2>1, <2>2 DEF GoodStack, Good, FlagsLegal, FlagsTrue
  <2> QED BY <2>1, <2>2, <2>3, <2>4
<1> QED
  BY <1>1, <1>2, <1>3, <1>4, <1>5, <1>6, <1>7, <1>8, <1>9, <1>10 DEF Next

(* The flags of both caches are always legal and true of the level below.  *)
THEOREM FlagsStayConsistent == Spec => []FlagsConsistent
<1>1. Init => GoodStack
  BY InitIsGood
<1>2. GoodStack /\ [Next]_vars => GoodStack'
  BY NextIsGood
<1>3. GoodStack => FlagsConsistent
  BY DEF GoodStack, Good, FlagsConsistent
<1> QED BY <1>1, <1>2, <1>3, PTL DEF Spec

(* The stack of caches implements the three plain maps.                    *)
THEOREM CoinsImplementUtxoView == Spec => ImplementsUtxoView
<1>1. Init => GoodStack /\ Utxo!Init
  BY InitIsGood
<1>2. GoodStack /\ [Next]_vars => GoodStack' /\ [Utxo!Next]_(Utxo!uvars)
  BY NextIsGood
<1> QED BY <1>1, <1>2, PTL DEF Spec, ImplementsUtxoView, Utxo!Spec

-----------------------------------------------------------------------------
(* The counters of DIRTY entries.                                          *)

(* A set of outpoints is finite, and its size a natural number.            *)
LEMMA OutPointsFinite ==
    ASSUME NEW S \in SUBSET OutPoint
    PROVE  IsFiniteSet(S) /\ Cardinality(S) \in Nat
BY OutPointAssumption, FS_Subset, FS_CardinalityType

(* FetchCoin sets no flag.                                                 *)
LEMMA FetchCoinFlags ==
    ASSUME NEW c \in Caches, NEW below, NEW o
    PROVE  /\ FetchCoin(c, below, o).dirty = c.dirty
           /\ FetchCoin(c, below, o).fresh = c.fresh
BY DEF FetchCoin, Caches

(* AddCoin counts an entry that was not DIRTY.                             *)
LEMMA AddCoinCount ==
    ASSUME NEW c \in Caches, NEW o \in OutPoint, NEW coin,
           NEW possible_overwrite, NEW count,
           count = Cardinality(c.dirty)
    PROVE  count + (IF o \in c.dirty THEN 0 ELSE 1)
             = Cardinality(AddCoin(c, o, coin, possible_overwrite).dirty)
<1>1. AddCoin(c, o, coin, possible_overwrite).dirty = c.dirty \cup {o}
  BY DEF AddCoin, Caches
<1>2. IsFiniteSet(c.dirty) /\ Cardinality(c.dirty) \in Nat
  BY OutPointsFinite DEF Caches
<1>3. Cardinality(c.dirty \cup {o}) =
        IF o \in c.dirty THEN Cardinality(c.dirty) ELSE Cardinality(c.dirty) + 1
  BY <1>2, FS_AddElement
<1> QED BY <1>1, <1>2, <1>3, SMT

(* SpendCoin counts the entry it leaves behind, and no longer the erased.  *)
LEMMA SpendCoinCount ==
    ASSUME NEW below \in Utxos, NEW c, Good(c, below), NEW o \in OutPoint,
           NEW count, count = Cardinality(c.dirty)
    PROVE  DirtyCountAfterSpend(c, below, o, count)
             = Cardinality(SpendCoin(c, below, o).dirty)
<1> DEFINE f == FetchCoin(c, below, o)
           found == o \in c.key \/ below[o] # NoCoin
<1>1. c \in Caches /\ c.fresh \subseteq c.dirty /\ c.dirty \subseteq c.key
  BY DEF Good, FlagsLegal
<1>2. /\ f \in Caches
      /\ f.dirty = c.dirty
      /\ f.fresh = c.fresh
      /\ o \in f.key <=> found
  <2>1. f \in Caches
    BY FetchCoinIsGood DEF Good
  <2>2. o \in f.key <=> found
    BY <1>1 DEF FetchCoin, Caches
  <2> QED BY <1>1, <2>1, <2>2, FetchCoinFlags
<1>3. IsFiniteSet(c.dirty) /\ Cardinality(c.dirty) \in Nat
  BY <1>1, OutPointsFinite DEF Caches
<1>4. /\ Cardinality(c.dirty \cup {o}) =
           IF o \in c.dirty THEN Cardinality(c.dirty)
           ELSE Cardinality(c.dirty) + 1
      /\ Cardinality(c.dirty \ {o}) =
           IF o \in c.dirty THEN Cardinality(c.dirty) - 1
           ELSE Cardinality(c.dirty)
  BY <1>3, FS_AddElement, FS_RemoveElement
<1> HIDE DEF f
<1>5. SpendCoin(c, below, o).dirty = IF ~found THEN c.dirty
                                     ELSE IF o \in c.fresh THEN c.dirty \ {o}
                                     ELSE c.dirty \cup {o}
  <2>1. SpendCoin(c, below, o) =
          IF o \notin f.key THEN f
          ELSE IF o \in f.fresh THEN Erase(f, {o})
          ELSE [f EXCEPT !.coin[o] = NoCoin, !.dirty = @ \cup {o}]
    BY DEF SpendCoin, f
  <2>2. Erase(f, {o}).dirty = f.dirty \ {o}
    BY <1>2 DEF Erase, Caches
  <2>3. [f EXCEPT !.coin[o] = NoCoin, !.dirty = @ \cup {o}].dirty
          = f.dirty \cup {o}
    BY <1>2 DEF Caches
  <2> QED BY <1>2, <2>1, <2>2, <2>3
<1>6. CASE ~found
  BY <1>5, <1>6 DEF DirtyCountAfterSpend
<1>7. CASE found /\ o \in c.fresh
  BY <1>1, <1>3, <1>4, <1>5, <1>7, SMTT(30) DEF DirtyCountAfterSpend
<1>8. CASE found /\ o \notin c.fresh
  BY <1>3, <1>4, <1>5, <1>8, SMTT(30) DEF DirtyCountAfterSpend
<1> QED BY <1>6, <1>7, <1>8

(* BatchWrite counts what it writes over a clean or a missing entry, and   *)
(* no longer the entries it erases.                                        *)
LEMMA BatchWriteCount ==
    ASSUME NEW child \in Caches, NEW parent \in Caches, NEW count,
           count = Cardinality(parent.dirty)
    PROVE  DirtyCountAfterBatchWrite(child, parent, count)
             = Cardinality(BatchWrite(child, parent).dirty)
<1> DEFINE gone == DroppedByBatchWrite(child, parent)
           new  == (child.dirty \ gone) \ parent.dirty
           kept == parent.dirty \ gone
<1>1. gone \in SUBSET OutPoint
  BY DEF DroppedByBatchWrite, Caches
<1>2. Erase(parent, gone).dirty = kept
  BY DEF Erase, Caches
<1>3. BatchWrite(child, parent).dirty = kept \cup (child.dirty \ gone)
  BY <1>2 DEF BatchWrite
<1>4. kept \cup (child.dirty \ gone) = kept \cup new
  OBVIOUS
<1>5. /\ IsFiniteSet(parent.dirty) /\ Cardinality(parent.dirty) \in Nat
      /\ IsFiniteSet(kept) /\ Cardinality(kept) \in Nat
      /\ IsFiniteSet(new) /\ Cardinality(new) \in Nat
      /\ Cardinality(gone \cap parent.dirty) \in Nat
  <2>1. /\ parent.dirty \in SUBSET OutPoint
        /\ kept \in SUBSET OutPoint
        /\ new \in SUBSET OutPoint
        /\ gone \cap parent.dirty \in SUBSET OutPoint
    BY DEF Caches
  <2> HIDE DEF kept, new, gone
  <2> QED BY <2>1, OutPointsFinite
<1>6. Cardinality(kept)
        = Cardinality(parent.dirty) - Cardinality(gone \cap parent.dirty)
  <2>1. parent.dirty \cap gone = gone \cap parent.dirty
    OBVIOUS
  <2>2. Cardinality(parent.dirty \ gone)
          = Cardinality(parent.dirty) - Cardinality(parent.dirty \cap gone)
    BY <1>5, FS_Difference
  <2> QED BY <2>1, <2>2
<1>7. Cardinality(kept \cup new) = Cardinality(kept) + Cardinality(new)
  <2>1. kept \cap new = {}
    OBVIOUS
  <2> HIDE DEF kept, new
  <2>2. Cardinality(kept \cup new)
          = Cardinality(kept) + Cardinality(new) - Cardinality(kept \cap new)
    BY <1>5, FS_Union
  <2>3. Cardinality(kept \cap new) = 0
    BY <2>1, FS_EmptySet
  <2> QED BY <1>5, <2>2, <2>3, SMT
<1>8. DirtyCountAfterBatchWrite(child, parent, count)
        = count + Cardinality(new) - Cardinality(gone \cap parent.dirty)
  BY DEF DirtyCountAfterBatchWrite
<1>9. Cardinality(BatchWrite(child, parent).dirty)
        = Cardinality(kept) + Cardinality(new)
  BY <1>3, <1>4, <1>7
<1> HIDE DEF kept, new, gone
<1> QED BY <1>5, <1>6, <1>8, <1>9, SMT

(* Every step keeps both counters exact.                                   *)
LEMMA NextCountsDirty ==
    ASSUME GoodStack, DirtyCountExact, [Next]_vars
    PROVE  DirtyCountExact'
<1> USE DEF DirtyCountExact
<1>1. /\ cacheCoins \in Caches /\ view \in Caches
      /\ db \in Utxos /\ TipCoins \in Utxos
  BY Answers DEF GoodStack, Good
<1>2. Cardinality(EmptyCache.dirty) = 0
  BY FS_EmptySet DEF EmptyCache
<1>3. Cardinality(cacheCoins.dirty) \in Nat /\ Cardinality(view.dirty) \in Nat
  BY <1>1, OutPointsFinite DEF Caches
<1>4. \A o \in OutPoint : BelowAfterFetch(o).dirty = cacheCoins.dirty
  BY <1>1, FetchCoinFlags DEF BelowAfterFetch
<1>5. ASSUME NEW kind \in {"overlay", "cache"}, OpenView(kind)
      PROVE  DirtyCountExact'
  BY <1>5 DEF OpenView
<1>6. ASSUME NEW o \in OutPoint, ViewHaveCoin(o)
      PROVE  DirtyCountExact'
  BY <1>1, <1>4, <1>6, FetchCoinFlags, SMTT(30) DEF ViewHaveCoin
<1>7. ASSUME NEW o \in OutPoint, NEW coin \in Coin,
             NEW possible_overwrite \in BOOLEAN,
             ViewAddCoin(o, coin, possible_overwrite)
      PROVE  DirtyCountExact'
  BY <1>1, <1>7, AddCoinCount, SMTT(30) DEF ViewAddCoin
<1>8. ASSUME NEW o \in OutPoint, ViewSpendCoin(o)
      PROVE  DirtyCountExact'
  BY <1>1, <1>4, <1>8, SpendCoinCount DEF ViewSpendCoin, GoodStack
<1>9. CASE ViewFlush
  BY <1>1, <1>2, <1>3, <1>9, BatchWriteCount, SMTT(30) DEF ViewFlush
<1>10. CASE ViewReset
  BY <1>2, <1>10 DEF ViewReset
<1>11. ASSUME NEW o \in OutPoint, TipFetchCoin(o)
       PROVE  DirtyCountExact'
  BY <1>1, <1>11, FetchCoinFlags DEF TipFetchCoin
<1>12. ASSUME NEW o \in OutPoint, TipUncache(o)
       PROVE  DirtyCountExact'
  <2>1. Erase(cacheCoins, {o}).dirty = cacheCoins.dirty
    BY <1>1, <1>12 DEF TipUncache, Erase, Caches
  <2> QED BY <1>12, <2>1 DEF TipUncache
<1>13. ASSUME NEW empty_cache \in BOOLEAN, TipWrite(empty_cache)
       PROVE  DirtyCountExact'
  <2>1. Synced(cacheCoins).dirty = {}
    BY <1>1 DEF Synced, Erase, Caches
  <2>2. Cardinality(cacheCoins'.dirty) = 0
    BY <1>2, <1>13, <2>1, FS_EmptySet DEF TipWrite
  <2>3. m_dirty_count' = 0
    BY <1>3, <1>13, SMT DEF TipWrite
  <2>4. viewDirtyCount' = Cardinality(view'.dirty)
    BY <1>13 DEF TipWrite
  <2> QED BY <2>2, <2>3, <2>4
<1>14. CASE CrashCoins
  BY <1>2, <1>14 DEF CrashCoins
<1>15. CASE UNCHANGED vars
  BY <1>15 DEF vars
<1> QED
  BY <1>5, <1>6, <1>7, <1>8, <1>9, <1>10, <1>11, <1>12, <1>13, <1>14, <1>15
     DEF Next

(* A new node has no DIRTY entry, and every step counts them.              *)
LEMMA CountsDirty == Spec => [](GoodStack /\ DirtyCountExact)
<1>1. Init => GoodStack /\ DirtyCountExact
  <2>1. Cardinality(EmptyCache.dirty) = 0
    BY FS_EmptySet DEF EmptyCache
  <2>2. Init => DirtyCountExact
    BY <2>1 DEF Init, DirtyCountExact
  <2> QED BY <2>2, InitIsGood
<1>2. GoodStack /\ DirtyCountExact /\ [Next]_vars => (GoodStack /\ DirtyCountExact)'
  BY NextIsGood, NextCountsDirty
<1> QED BY <1>1, <1>2, PTL DEF Spec

(* m_dirty_count is always the number of DIRTY entries, so no TrySub on it *)
(* fails.                                                                  *)
THEOREM DirtyCountStaysExact == Spec => []DirtyCountExact
BY CountsDirty, PTL

(* The caches and their counters have their types: no counter is ever      *)
(* below zero.                                                             *)
THEOREM CoinsTypeCorrect == Spec => []TypeOK
<1>1. GoodStack /\ DirtyCountExact => TypeOK
  BY OutPointsFinite DEF GoodStack, Good, DirtyCountExact, TypeOK, Caches
<1> QED BY <1>1, CountsDirty, PTL

-----------------------------------------------------------------------------
(* The queue of the script checks.                                         *)

(* The places of the master where it is not verifying a block, and those   *)
(* of a thread that holds a batch.                                         *)
Away == {"away", "stopping", "joining", "left"}
InBatch == {"top", "work"}

(* The checks that are not accounted for yet.                              *)
Left(q, held) == q \cup UNION {held[t] : t \in Thread}

(* Every check is in one place at most, nTodo counts them, and a thread    *)
(* with a batch is running it or about to clean up.                        *)
Batches(q, held, todo, place) ==
    /\ q \in SUBSET Check /\ held \in [Thread -> SUBSET Check]
    /\ place \in [Thread -> Place]
    /\ \A t \in Thread : held[t] \cap q = {}
    /\ \A t, u \in Thread : t # u => held[t] \cap held[u] = {}
    /\ todo = Cardinality(Left(q, held))
    /\ \A t \in Thread : held[t] # {} => place[t] \in InBatch
    /\ \A t \in Thread : place[t] = "work" => held[t] # {}
    /\ place[Master] \in Away => todo = 0

(* An error is one of this block; and as long as none is reported, every   *)
(* check that fails is still queued or in a batch, and its thread knows it *)
(* once it has run the batch.                                              *)
Results(q, held, result, local, work, place) ==
    /\ result \in failing \cup {NoResult}
    /\ place[Master] \in Away => result = NoResult
    /\ result = NoResult =>
        /\ place[Master] \notin Away => failing \subseteq Left(q, held)
        /\ \A t \in Thread :
            /\ place[t] = "work" => work[t] = TRUE
            /\ place[t] = "top" /\ held[t] # {} =>
                   local[t] \in failing \cup {NoResult}
            /\ place[t] = "top" /\ held[t] \cap failing # {} =>
                   local[t] # NoResult

(* What the steps inside Loop do not touch.                                *)
Frame ==
    /\ failing \in SUBSET Check
    /\ Left(queue, vChecks) \subseteq block
    /\ m_request_stop => at[Master] \in {"stopping", "joining", "left"}
    /\ do_work \in [Thread -> BOOLEAN]
    /\ local_result \in [Thread -> Check \cup {NoResult}]
    /\ blocks \in Nat

IInv ==
    /\ Batches(queue, vChecks, nTodo, at)
    /\ Results(queue, vChecks, m_result, local_result, do_work, at)
    /\ Frame
    /\ VerdictSound

-----------------------------------------------------------------------------

(* The checks that are left form a finite set.                             *)
LEMMA LeftFinite ==
    ASSUME NEW q \in SUBSET Check, NEW held \in [Thread -> SUBSET Check]
    PROVE  /\ Left(q, held) \in SUBSET Check
           /\ IsFiniteSet(Left(q, held))
           /\ Cardinality(Left(q, held)) \in Nat
           /\ Cardinality(Left(q, held)) = 0 <=> Left(q, held) = {}
<1>1. Left(q, held) \in SUBSET Check
  BY DEF Left
<1>2. IsFiniteSet(Left(q, held))
  BY <1>1, CheckQueueAssumption, FS_Subset
<1> QED
  BY <1>1, <1>2, FS_CardinalityType, FS_EmptySet

(* While the master is away nobody holds a check.                          *)
LEMMA AwayIdle ==
    ASSUME NEW q, NEW held, NEW todo, NEW place,
           Batches(q, held, todo, place), place[Master] \in Away
    PROVE  Left(q, held) = {} /\ q = {} /\ \A t \in Thread : held[t] = {}
<1>1. Left(q, held) = {}
  BY LeftFinite DEF Batches
<1> QED
  BY <1>1 DEF Left

(* A thread that is woken disturbs nothing.                                *)
LEMMA Wakes ==
    ASSUME NEW q, NEW held, NEW todo, NEW result, NEW local, NEW work,
           NEW place, NEW next \in [Thread -> Place],
           \A t \in Thread : \/ next[t] = place[t]
                             \/ place[t] = "wait" /\ next[t] = "woken"
    PROVE  /\ Batches(q, held, todo, place) => Batches(q, held, todo, next)
           /\ Results(q, held, result, local, work, place)
                => Results(q, held, result, local, work, next)
           /\ next[Master] \in Away <=> place[Master] \in Away
           /\ next[Master] # "woken" => next[Master] = place[Master]
<1>1. Master \in Thread
  BY DEF Thread
<1>2. next[Master] \in Away <=> place[Master] \in Away
  BY <1>1 DEF Away
<1>3. \A t \in Thread : /\ place[t] \in InBatch => next[t] = place[t]
                        /\ next[t] \in InBatch => next[t] = place[t]
  BY DEF InBatch
<1>4. ASSUME Batches(q, held, todo, place)
      PROVE  Batches(q, held, todo, next)
  BY <1>2, <1>3, <1>4 DEF Batches, InBatch
<1>5. ASSUME Results(q, held, result, local, work, place)
      PROVE  Results(q, held, result, local, work, next)
  BY <1>2, <1>3, <1>5 DEF Results, InBatch
<1> QED
  BY <1>1, <1>2, <1>4, <1>5

(* notify_one and notify_all only wake threads that wait.                  *)
LEMMA Notified ==
    ASSUME at \in [Thread -> Place], NEW S \in SUBSET Thread
    PROVE  /\ \A place \in NotifyOne(Waiting(S, at), at) :
                  /\ place \in [Thread -> Place]
                  /\ \A t \in Thread : \/ place[t] = at[t]
                                       \/ at[t] = "wait" /\ place[t] = "woken"
           /\ NotifyAll(Waiting(S, at), at) \in [Thread -> Place]
           /\ \A t \in Thread :
                  LET place == NotifyAll(Waiting(S, at), at)
                  IN  \/ place[t] = at[t]
                      \/ at[t] = "wait" /\ place[t] = "woken"
BY DEF NotifyOne, NotifyAll, Waiting, Place

(* A batch is not empty.                                                   *)
LEMMA BatchNotEmpty ==
    ASSUME NEW total, NEW idle, NEW S, Cardinality(S) = BatchSize(total, idle)
    PROVE  S # {}
<1> SUFFICES ASSUME S = {} PROVE FALSE
  OBVIOUS
<1>1. Cardinality(S) = 0
  BY FS_EmptySet
<1> DEFINE most == IF Cardinality(queue) \div (total + idle + 1) < nBatchSize
                   THEN Cardinality(queue) \div (total + idle + 1) ELSE nBatchSize
<1>2. BatchSize(total, idle) = IF most > 1 THEN most ELSE 1
  BY DEF BatchSize
<1> HIDE DEF most
<1> QED
  BY <1>1, <1>2, SMT

-----------------------------------------------------------------------------
(* The critical section of Loop.                                           *)

(* The clean-up after a batch: its checks are accounted for, and an error  *)
(* of one of them is reported unless there is one already.                 *)
LEMMA CleanUp ==
    ASSUME IInv, NEW t \in Thread, at[t] = "top",
           NEW held \in [Thread -> SUBSET Check], held[t] = {},
           \A u \in Thread : u # t => held[u] = vChecks[u],
           NEW todo, todo = nTodo - Cardinality(vChecks[t]),
           NEW result, NEW local \in [Thread -> Check \cup {NoResult}],
           \A u \in Thread : u # t => local[u] = local_result[u],
           \/ /\ vChecks[t] # {} /\ local_result[t] # NoResult
              /\ m_result = NoResult /\ result = local_result[t]
           \/ /\ vChecks[t] = {} \/ local_result[t] = NoResult \/ m_result # NoResult
              /\ result = m_result
    PROVE  /\ Batches(queue, held, todo, at)
           /\ Results(queue, held, result, local, do_work, at)
           /\ Left(queue, held) \subseteq Left(queue, vChecks)
<1>1. /\ queue \in SUBSET Check /\ vChecks \in [Thread -> SUBSET Check]
      /\ vChecks[t] \cap queue = {}
      /\ \A u \in Thread : u # t => vChecks[t] \cap vChecks[u] = {}
      /\ nTodo = Cardinality(Left(queue, vChecks))
  BY DEF IInv, Batches
<1>2. /\ held \in [Thread -> SUBSET Check]
      /\ held[t] = {} /\ \A u \in Thread : u # t => held[u] = vChecks[u]
  BY <1>1
<1>3. Left(queue, held) = Left(queue, vChecks) \ vChecks[t]
  <2>1. \A c : c \in Left(queue, held) <=> c \in queue \/ \E u \in Thread : c \in held[u]
    BY DEF Left
  <2>2. \A c : c \in Left(queue, vChecks)
                  <=> c \in queue \/ \E u \in Thread : c \in vChecks[u]
    BY DEF Left
  <2>3. ASSUME NEW c, c \in Left(queue, held)
        PROVE  c \in Left(queue, vChecks) \ vChecks[t]
    BY <1>1, <1>2, <2>1, <2>2, <2>3
  <2>4. ASSUME NEW c, c \in Left(queue, vChecks) \ vChecks[t]
        PROVE  c \in Left(queue, held)
    BY <1>2, <2>1, <2>2, <2>4
  <2> QED
    BY <2>3, <2>4
<1>4. vChecks[t] \subseteq Left(queue, vChecks)
  BY DEF Left
<1>5. todo = Cardinality(Left(queue, held))
  <2>1. IsFiniteSet(Left(queue, vChecks))
    BY <1>1, LeftFinite
  <2>2. Cardinality(Left(queue, vChecks) \ vChecks[t])
            = Cardinality(Left(queue, vChecks))
              - Cardinality(Left(queue, vChecks) \cap vChecks[t])
    BY <2>1, FS_Difference
  <2>3. Left(queue, vChecks) \cap vChecks[t] = vChecks[t]
    BY <1>4
  <2> QED
    BY <1>1, <1>3, <2>2, <2>3
<1>6. ASSUME at[Master] \in Away
      PROVE  /\ Left(queue, held) = {} /\ todo = 0
             /\ vChecks[t] = {} /\ m_result = NoResult
  <2>1. Left(queue, vChecks) = {} /\ vChecks[t] = {}
    BY <1>6, AwayIdle DEF IInv
  <2>2. Left(queue, held) = {}
    BY <1>3, <2>1
  <2> QED
    BY <1>5, <1>6, <2>1, <2>2, FS_EmptySet DEF IInv, Results
<1>7. Batches(queue, held, todo, at)
  <2>1. /\ at \in [Thread -> Place]
        /\ \A u \in Thread : held[u] \cap queue = {}
        /\ \A u, v \in Thread : u # v => held[u] \cap held[v] = {}
    BY <1>2 DEF IInv, Batches
  <2>2. \A u \in Thread : held[u] # {} => at[u] \in InBatch
    BY <1>2 DEF IInv, Batches
  <2>3. \A u \in Thread : at[u] = "work" => held[u] # {}
    BY <1>2 DEF IInv, Batches
  <2> QED
    BY <1>1, <1>2, <1>5, <1>6, <2>1, <2>2, <2>3 DEF Batches
<1>8. Results(queue, held, result, local, do_work, at)
  <2>1. failing \in SUBSET Check /\ NoResult \notin failing
    BY CheckQueueAssumption DEF IInv, Frame
  <2>2. result \in failing \cup {NoResult}
    BY DEF IInv, Results
  <2>3. at[Master] \in Away => result = NoResult
    BY <1>6
  <2>4. ASSUME result = NoResult
        PROVE  m_result = NoResult /\ (vChecks[t] = {} \/ local_result[t] = NoResult)
    BY <2>4
  <2>5. ASSUME result = NoResult, at[Master] \notin Away
        PROVE  failing \subseteq Left(queue, held)
    <3>1. vChecks[t] \cap failing = {}
      BY <2>4, <2>5 DEF IInv, Results
    <3>2. failing \subseteq Left(queue, vChecks)
      BY <2>4, <2>5 DEF IInv, Results
    <3> QED
      BY <1>3, <3>1, <3>2
  <2>6. ASSUME result = NoResult, NEW u \in Thread
        PROVE  /\ at[u] = "work" => do_work[u] = TRUE
               /\ at[u] = "top" /\ held[u] # {} => local[u] \in failing \cup {NoResult}
               /\ at[u] = "top" /\ held[u] \cap failing # {} => local[u] # NoResult
    <3>1. CASE u = t
      BY <1>2, <3>1
    <3>2. CASE u # t
      BY <1>2, <2>4, <2>6, <3>2 DEF IInv, Results
    <3> QED
      BY <3>1, <3>2
  <2> QED
    BY <2>2, <2>3, <2>5, <2>6 DEF Results
<1> QED
  BY <1>2, <1>3, <1>7, <1>8

(* A batch moves from the queue to the thread: nothing else changes hands. *)
LEMMA TakeLeft ==
    ASSUME NEW q \in SUBSET Check, NEW held \in [Thread -> SUBSET Check],
           NEW t \in Thread, NEW next, held[t] = {}, NEW S \in SUBSET q,
           next[t] = S, \A u \in Thread : u # t => next[u] = held[u]
    PROVE  Left(q \ S, next) = Left(q, held)
<1>1. \A c : c \in Left(q \ S, next) <=> c \in q \ S \/ \E u \in Thread : c \in next[u]
  BY DEF Left
<1>2. \A c : c \in Left(q, held) <=> c \in q \/ \E u \in Thread : c \in held[u]
  BY DEF Left
<1>3. ASSUME NEW c
      PROVE  c \in Left(q \ S, next) <=> c \in Left(q, held)
  <2>1. ASSUME c \in Left(q \ S, next)
        PROVE  c \in Left(q, held)
    BY <1>1, <1>2, <2>1
  <2>2. ASSUME c \in Left(q, held)
        PROVE  c \in Left(q \ S, next)
    <3>1. CASE c \in q
      BY <1>1, <3>1
    <3>2. CASE \E u \in Thread : c \in held[u]
      BY <1>1, <3>2
    <3> QED
      BY <1>2, <2>2, <3>1, <3>2
  <2> QED
    BY <2>1, <2>2
<1> QED
  BY <1>3

(* A thread stops at another place without a batch.                        *)
LEMMA StopsAt ==
    ASSUME NEW q, NEW held, NEW todo, NEW result, NEW local, NEW work,
           NEW place, NEW t \in Thread, held[t] = {},
           NEW rest \in {"left", "wait"}, rest = "left" => t # Master,
           place[Master] \in Away => t # Master,
           Batches(q, held, todo, place),
           Results(q, held, result, local, work, place)
    PROVE  /\ Batches(q, held, todo, [place EXCEPT ![t] = rest])
           /\ Results(q, held, result, local, work, [place EXCEPT ![t] = rest])
<1> DEFINE next == [place EXCEPT ![t] = rest]
<1>1. /\ next \in [Thread -> Place] /\ next[t] = rest
      /\ \A u \in Thread : u # t => next[u] = place[u]
  BY DEF Batches, Place
<1> HIDE DEF next
<1>2. Master \in Thread /\ (next[Master] \in Away <=> place[Master] \in Away)
  BY <1>1 DEF Thread, Away
<1>3. Batches(q, held, todo, next)
  BY <1>1, <1>2 DEF Batches
<1>4. Results(q, held, result, local, work, next)
  BY <1>1, <1>2 DEF Results
<1> QED
  BY <1>3, <1>4 DEF next

(* The rest of the section keeps the invariant, from values that have it.  *)
LEMMA RestInv ==
    ASSUME Frame, VerdictSound, NEW t \in Thread, NEW result, NEW total, NEW idle,
           NEW held, NEW place,
           Batches(queue, held, nTodo', place),
           Results(queue, held, result, local_result', do_work, place),
           held[t] = {}, place[t] \in {"top", "woken"},
           \A u \in Thread : \/ place[u] = at[u]
                             \/ at[u] = "wait" /\ place[u] = "woken",
           Left(queue, held) \subseteq block,
           TakeBatch(t, total, idle, held), Continue(t, result, total, idle, place),
           local_result' \in [Thread -> Check \cup {NoResult}],
           UNCHANGED <<m_request_stop, block, failing>>
    PROVE  IInv'
<1>1. Master \in Thread
  BY DEF Thread
<1>2. place \in [Thread -> Place] /\ held \in [Thread -> SUBSET Check]
      /\ queue \in SUBSET Check
  BY DEF Batches
<1>3. place[Master] \in Away => t # Master
  BY DEF Away
<1>4. /\ place[Master] \in {"stopping", "joining", "left"}
            <=> at[Master] \in {"stopping", "joining", "left"}
      /\ place[Master] = "away" <=> at[Master] = "away"
  BY <1>1
<1>5. m_request_stop => t # Master
  BY <1>4 DEF Frame
<1>6. CASE /\ m_request_stop
           /\ at' = [place EXCEPT ![t] = "left"]
           /\ m_result' = result
           /\ UNCHANGED <<queue, do_work, blocks, verdict>>
  <2>1. vChecks' = held
    BY <1>6 DEF TakeBatch
  <2>2. /\ Batches(queue, held, nTodo', at')
        /\ Results(queue, held, result, local_result', do_work, at')
    BY <1>3, <1>5, <1>6, StopsAt
  <2>3. Batches(queue, vChecks, nTodo, at)'
    BY <1>6, <2>1, <2>2
  <2>4. Results(queue, vChecks, m_result, local_result, do_work, at)'
    BY <1>6, <2>1, <2>2 DEF Results
  <2>5. at'[Master] = place[Master]
    BY <1>1, <1>2, <1>5, <1>6
  <2>6. Frame'
    BY <1>4, <1>6, <2>1, <2>5 DEF Frame
  <2>7. VerdictSound'
    BY <1>4, <1>6, <2>5 DEF VerdictSound
  <2> QED
    BY <2>3, <2>4, <2>6, <2>7 DEF IInv
<1>7. CASE /\ ~m_request_stop /\ queue = {} /\ MasterDone(t)
           /\ at' = [place EXCEPT ![t] = "away"]
           /\ m_result' = ResetResult(result)
           /\ verdict' = result /\ blocks' = blocks + 1
           /\ UNCHANGED <<queue, do_work>>
  <2>1. vChecks' = held /\ t = Master /\ nTodo' = 0 /\ m_result' = NoResult
    BY <1>7 DEF TakeBatch, MasterDone, ResetResult
  <2>2. /\ at' \in [Thread -> Place] /\ at'[Master] = "away"
        /\ \A u \in Thread : u # Master => at'[u] = place[u]
    BY <1>1, <1>2, <1>7, <2>1 DEF Place
  <2>3. Left(queue, held) = {}
    BY <1>2, <2>1, LeftFinite DEF Batches
  <2>4. \A u \in Thread : held[u] = {}
    BY <2>3 DEF Left
  <2>5. Batches(queue, held, nTodo', at')
    BY <2>1, <2>2, <2>4 DEF Batches
  <2>6. \A u \in Thread : at'[u] # "work"
    BY <2>4, <2>5 DEF Batches
  <2>7. Results(queue, held, m_result', local_result', do_work, at')
    BY <2>1, <2>2, <2>4, <2>6 DEF Results, Away
  <2>8. Batches(queue, vChecks, nTodo, at)'
    BY <1>7, <2>1, <2>5
  <2>9. Results(queue, vChecks, m_result, local_result, do_work, at)'
    BY <1>7, <2>1, <2>7 DEF Results
  <2>10. Frame'
    <3>1. Left(queue, vChecks)' \subseteq block'
      BY <1>7, <2>1
    <3>2. ~m_request_stop' /\ blocks' \in Nat
      BY <1>7, SMT DEF Frame
    <3>3. failing' \in SUBSET Check /\ do_work' \in [Thread -> BOOLEAN]
      BY <1>7 DEF Frame
    <3> QED
      BY <3>1, <3>2, <3>3 DEF Frame
  <2>11. place[Master] \notin Away
    BY <1>3, <2>1
  <2>12. IF failing = {} THEN result = NoResult ELSE result \in failing
    BY <2>3, <2>11 DEF Results
  <2>13. VerdictSound'
    BY <1>7, <2>12 DEF VerdictSound
  <2> QED
    BY <2>8, <2>9, <2>10, <2>13 DEF IInv
<1>8. CASE /\ ~m_request_stop /\ queue = {} /\ ~MasterDone(t)
           /\ at' = [place EXCEPT ![t] = "wait"]
           /\ m_result' = result
           /\ UNCHANGED <<queue, do_work, blocks, verdict>>
  <2>1. vChecks' = held
    BY <1>8 DEF TakeBatch
  <2>2. /\ Batches(queue, held, nTodo', at')
        /\ Results(queue, held, result, local_result', do_work, at')
    BY <1>3, <1>8, StopsAt
  <2>3. Batches(queue, vChecks, nTodo, at)'
    BY <1>8, <2>1, <2>2
  <2>4. Results(queue, vChecks, m_result, local_result, do_work, at)'
    BY <1>8, <2>1, <2>2 DEF Results
  <2>5. at'[Master] = place[Master] \/ at'[Master] = "wait"
    BY <1>1, <1>2, <1>8
  <2>6. Frame'
    BY <1>8, <2>1 DEF Frame
  <2>7. VerdictSound'
    BY <1>4, <1>8, <2>5 DEF VerdictSound
  <2> QED
    BY <2>3, <2>4, <2>6, <2>7 DEF IInv
<1>9. CASE /\ ~m_request_stop /\ queue # {}
           /\ at' = [place EXCEPT ![t] = "work"]
           /\ m_result' = result
           /\ do_work' = [do_work EXCEPT ![t] = (result = NoResult)]
           /\ queue' = queue \ vChecks'[t]
           /\ UNCHANGED <<blocks, verdict>>
  <2>1. PICK S \in SUBSET queue : /\ Cardinality(S) = BatchSize(total, idle)
                                  /\ vChecks' = [held EXCEPT ![t] = S]
    BY <1>9 DEF TakeBatch
  <2>2. S # {}
    BY <2>1, BatchNotEmpty
  <2>3. /\ vChecks' \in [Thread -> SUBSET Check]
        /\ vChecks'[t] = S /\ \A u \in Thread : u # t => vChecks'[u] = held[u]
    BY <1>2, <2>1
  <2>4. queue' = queue \ S /\ queue' \in SUBSET Check
    BY <1>2, <1>9, <2>3
  <2>5. /\ at' \in [Thread -> Place] /\ at'[t] = "work"
        /\ \A u \in Thread : u # t => at'[u] = place[u]
    BY <1>2, <1>9 DEF Place
  <2>6. Left(queue', vChecks') = Left(queue, held)
    BY <1>2, <2>3, <2>4, TakeLeft, SMTT(30)
  <2>7. at'[Master] \in Away <=> place[Master] \in Away
    BY <1>1, <1>3, <2>5 DEF Away
  <2>8. place[Master] \in Away => FALSE
    BY <1>9, AwayIdle
  <2>9. Batches(queue, vChecks, nTodo, at)'
    <3>1. \A u \in Thread : vChecks'[u] \cap queue' = {}
      BY <2>3, <2>4 DEF Batches
    <3>2. \A u, v \in Thread : u # v => vChecks'[u] \cap vChecks'[v] = {}
      <4>1. \A u \in Thread : u # t => held[u] \cap S = {}
        BY DEF Batches
      <4>2. \A u, v \in Thread : u # v => held[u] \cap held[v] = {}
        BY DEF Batches
      <4> QED
        BY <2>3, <4>1, <4>2
    <3>3. nTodo' = Cardinality(Left(queue', vChecks'))
      BY <2>6 DEF Batches
    <3>4. \A u \in Thread : /\ vChecks'[u] # {} => at'[u] \in InBatch
                            /\ at'[u] = "work" => vChecks'[u] # {}
      BY <2>2, <2>3, <2>5, SMTT(30) DEF Batches, InBatch
    <3>5. at'[Master] \notin Away
      BY <2>7, <2>8
    <3> QED
      BY <2>3, <2>4, <2>5, <3>1, <3>2, <3>3, <3>4, <3>5 DEF Batches
  <2>10. do_work' \in [Thread -> BOOLEAN]
    BY <1>9 DEF Frame
  <2>11. do_work'[t] = (result = NoResult)
         /\ \A u \in Thread : u # t => do_work'[u] = do_work[u]
    BY <1>9 DEF Frame
  <2>12. Results(queue, vChecks, m_result, local_result, do_work, at)'
    <3>1. /\ result \in failing \cup {NoResult}
          /\ result = NoResult => failing \subseteq Left(queue, held)
      BY <2>8 DEF Results
    <3>2. ASSUME result = NoResult, NEW u \in Thread
          PROVE  at'[u] = "work" => do_work'[u] = TRUE
      <4>1. CASE u = t
        BY <2>11, <3>2, <4>1
      <4>2. CASE u # t
        BY <2>5, <2>11, <3>2, <4>2 DEF Results
      <4> QED
        BY <4>1, <4>2
    <3>3. ASSUME result = NoResult, NEW u \in Thread, at'[u] = "top"
          PROVE  /\ vChecks'[u] # {} => local_result'[u] \in failing \cup {NoResult}
                 /\ vChecks'[u] \cap failing # {} => local_result'[u] # NoResult
      <4>1. u # t /\ vChecks'[u] = held[u] /\ place[u] = "top"
        BY <2>3, <2>5, <3>3
      <4> QED
        BY <3>3, <4>1 DEF Results
    <3> QED
      BY <1>9, <2>6, <2>7, <2>8, <3>1, <3>2, <3>3 DEF Results
  <2>13. Frame'
    BY <1>9, <2>6, <2>10 DEF Frame
  <2>14. VerdictSound'
    BY <2>7, <2>8 DEF VerdictSound, Away
  <2> QED
    BY <2>9, <2>12, <2>13, <2>14 DEF IInv
<1> QED
  BY <1>6, <1>7, <1>8, <1>9 DEF Continue

-----------------------------------------------------------------------------
(* The steps.                                                              *)

(* The clean-up and the rest of the section.                               *)
LEMMA LoopTopInv ==
    ASSUME IInv, NEW t \in Thread, LoopTop(t)
    PROVE  IInv'
<1> DEFINE nNow == Cardinality(vChecks[t])
           report == nNow > 0 /\ local_result[t] # NoResult /\ m_result = NoResult
           result == IF report THEN local_result[t] ELSE m_result
           total == IF nNow > 0 THEN nTotal ELSE nTotal + 1
           held == [vChecks EXCEPT ![t] = {}]
<1>1. /\ at[t] = "top" /\ nTodo' = nTodo - nNow
      /\ local_result' = IF report THEN [local_result EXCEPT ![t] = NoResult]
                                   ELSE local_result
      /\ TakeBatch(t, total, nIdle, held)
      /\ \E place \in NotifyMaster(t, nNow) : Continue(t, result, total, nIdle, place)
      /\ UNCHANGED <<m_request_stop, block, failing>>
  BY DEF LoopTop
<1>2. vChecks[t] \in SUBSET Check /\ at \in [Thread -> Place]
  BY DEF IInv, Batches
<1>3. nNow > 0 <=> vChecks[t] # {}
  <2>1. IsFiniteSet(vChecks[t])
    BY <1>2, CheckQueueAssumption, FS_Subset
  <2>2. nNow \in Nat /\ (nNow = 0 <=> vChecks[t] = {})
    BY <2>1, FS_CardinalityType, FS_EmptySet
  <2> HIDE DEF nNow
  <2> QED
    BY <2>2, SMT
<1>4. local_result' \in [Thread -> Check \cup {NoResult}]
      /\ \A u \in Thread : u # t => local_result'[u] = local_result[u]
  BY <1>1 DEF IInv, Frame
<1>5. \/ /\ vChecks[t] # {} /\ local_result[t] # NoResult
         /\ m_result = NoResult /\ result = local_result[t]
      \/ /\ vChecks[t] = {} \/ local_result[t] = NoResult \/ m_result # NoResult
         /\ result = m_result
  BY <1>3
<1>6. PICK place \in NotifyMaster(t, nNow) : Continue(t, result, total, nIdle, place)
  BY <1>1
<1>7. /\ held \in [Thread -> SUBSET Check] /\ held[t] = {}
      /\ \A u \in Thread : u # t => held[u] = vChecks[u]
      /\ nTodo' = nTodo - Cardinality(vChecks[t])
  BY <1>1 DEF IInv, Batches
<1>8. TakeBatch(t, total, nIdle, held)
  BY <1>1
<1>9. /\ place \in [Thread -> Place]
      /\ \A u \in Thread : \/ place[u] = at[u]
                           \/ at[u] = "wait" /\ place[u] = "woken"
  <2>1. {Master} \in SUBSET Thread
    BY DEF Thread
  <2> HIDE DEF nNow, result, total, held
  <2>2. CASE place \in NotifyOne(Waiting({Master}, at), at)
    BY <1>2, <2>1, <2>2, Notified
  <2>3. CASE place = at
    BY <1>2, <2>3
  <2> QED
    BY <1>6, <2>2, <2>3 DEF NotifyMaster
<1> HIDE DEF nNow, report, result, total, held
<1>10. /\ Batches(queue, held, nTodo', at)
       /\ Results(queue, held, result, local_result', do_work, at)
       /\ Left(queue, held) \subseteq Left(queue, vChecks)
  <2>1. at[t] = "top"
    BY <1>1
  <2>2. CASE /\ vChecks[t] # {} /\ local_result[t] # NoResult
             /\ m_result = NoResult /\ result = local_result[t]
    BY <1>4, <1>7, <2>1, <2>2, CleanUp, SMTT(30)
  <2>3. CASE /\ vChecks[t] = {} \/ local_result[t] = NoResult \/ m_result # NoResult
             /\ result = m_result
    BY <1>4, <1>7, <2>1, <2>3, CleanUp, SMTT(30)
  <2> QED
    BY <1>5, <2>2, <2>3
<1>11. /\ Batches(queue, held, nTodo', place)
       /\ Results(queue, held, result, local_result', do_work, place)
  BY <1>9, <1>10, Wakes
<1>12. place[t] \in {"top", "woken"}
  BY <1>1, <1>9
<1>13. Left(queue, held) \subseteq block
  BY <1>10 DEF IInv, Frame
<1>14. Frame /\ VerdictSound
  BY DEF IInv
<1> QED
  BY <1>1, <1>4, <1>6, <1>7, <1>8, <1>9, <1>11, <1>12, <1>13, <1>14, RestInv

(* The section once cond.wait has returned.                                *)
LEMMA LoopResumeInv ==
    ASSUME IInv, NEW t \in Thread, LoopResume(t)
    PROVE  IInv'
<1>1. /\ at[t] = "woken" /\ nTodo' = nTodo /\ local_result' = local_result
      /\ TakeBatch(t, nTotal, nIdle - 1, vChecks)
      /\ Continue(t, m_result, nTotal, nIdle - 1, at)
      /\ UNCHANGED <<m_request_stop, block, failing>>
  BY DEF LoopResume
<1>2. vChecks[t] = {}
  BY <1>1 DEF IInv, Batches, InBatch
<1>3. Frame /\ VerdictSound /\ Left(queue, vChecks) \subseteq block
  BY DEF IInv, Frame
<1>4. Batches(queue, vChecks, nTodo', at)
  BY <1>1 DEF IInv
<1>5. Results(queue, vChecks, m_result, local_result', do_work, at)
  BY <1>1 DEF IInv
<1>6. local_result' \in [Thread -> Check \cup {NoResult}]
  BY <1>1 DEF IInv, Frame
<1> QED
  BY <1>1, <1>2, <1>3, <1>4, <1>5, <1>6, RestInv

(* A step that only wakes threads.                                         *)
LEMMA WakeInv ==
    ASSUME IInv, at' \in [Thread -> Place],
           \A t \in Thread : \/ at'[t] = at[t]
                             \/ at[t] = "wait" /\ at'[t] = "woken",
           UNCHANGED <<queue, nTodo, m_result, m_request_stop, vChecks,
                       local_result, do_work, block, failing, blocks, verdict>>
    PROVE  IInv'
<1>1. Master \in Thread
  BY DEF Thread
<1>2. /\ Batches(queue, vChecks, nTodo, at')
      /\ Results(queue, vChecks, m_result, local_result, do_work, at')
  BY Wakes DEF IInv
<1>3. Batches(queue, vChecks, nTodo, at)'
  BY <1>2
<1>4. Results(queue, vChecks, m_result, local_result, do_work, at)'
  BY <1>2 DEF Results
<1>5. Frame'
  BY <1>1 DEF IInv, Frame
<1>6. VerdictSound'
  BY <1>1 DEF IInv, VerdictSound
<1> QED
  BY <1>3, <1>4, <1>5, <1>6 DEF IInv

(* A batch is run: the thread knows of an error unless it had been told    *)
(* not to look for one.                                                    *)
LEMMA ExecuteWorkInv ==
    ASSUME IInv, NEW t \in Thread, ExecuteWork(t)
    PROVE  IInv'
<1> DEFINE bad == vChecks[t] \cap failing
<1>1. PICK r \in IF ~do_work[t] THEN {local_result[t]}
                 ELSE IF bad = {} THEN {NoResult} ELSE bad :
          local_result' = [local_result EXCEPT ![t] = r]
  BY DEF ExecuteWork
<1>2. /\ at[t] = "work" /\ at' = [at EXCEPT ![t] = "top"]
      /\ do_work' = [do_work EXCEPT ![t] = FALSE]
      /\ UNCHANGED <<queue, nTodo, m_result, m_request_stop, vChecks, block,
                     failing, blocks, verdict>>
  BY DEF ExecuteWork
<1>3. /\ at \in [Thread -> Place] /\ do_work \in [Thread -> BOOLEAN]
      /\ local_result \in [Thread -> Check \cup {NoResult}]
      /\ failing \in SUBSET Check
  BY DEF IInv, Batches, Frame
<1>4. r \in Check \cup {NoResult}
  BY <1>1, <1>3
<1>5. /\ at' \in [Thread -> Place] /\ at'[t] = "top"
      /\ \A u \in Thread : u # t => at'[u] = at[u]
  BY <1>2, <1>3 DEF Place
<1>6. /\ local_result' \in [Thread -> Check \cup {NoResult}] /\ local_result'[t] = r
      /\ \A u \in Thread : u # t => local_result'[u] = local_result[u]
  BY <1>1, <1>3, <1>4
<1>7. /\ do_work' \in [Thread -> BOOLEAN]
      /\ \A u \in Thread : u # t => do_work'[u] = do_work[u]
  BY <1>2, <1>3
<1>8. /\ Master \in Thread
      /\ at'[Master] \in Away <=> at[Master] \in Away
      /\ at'[Master] = "away" => at[Master] = "away"
      /\ at[Master] \in {"stopping", "joining", "left"} => at'[Master] = at[Master]
  BY <1>2, <1>5 DEF Thread, Away
<1>9. Batches(queue, vChecks, nTodo, at')
  BY <1>2, <1>5, <1>8 DEF IInv, Batches, InBatch
<1>10. Results(queue, vChecks, m_result, local_result', do_work', at')
  <2>1. ASSUME m_result = NoResult
        PROVE  /\ r \in failing \cup {NoResult}
               /\ vChecks[t] \cap failing # {} => r # NoResult
    <3>1. do_work[t] = TRUE
      BY <1>2, <2>1 DEF IInv, Results
    <3>2. NoResult \notin failing
      BY <1>3, CheckQueueAssumption
    <3> QED
      BY <1>1, <3>1, <3>2
  <2>2. ASSUME m_result = NoResult, NEW u \in Thread
        PROVE  /\ at'[u] = "work" => do_work'[u] = TRUE
               /\ at'[u] = "top" /\ vChecks[u] # {} =>
                      local_result'[u] \in failing \cup {NoResult}
               /\ at'[u] = "top" /\ vChecks[u] \cap failing # {} =>
                      local_result'[u] # NoResult
    <3>1. CASE u = t
      BY <1>5, <1>6, <2>1, <2>2, <3>1
    <3>2. CASE u # t
      BY <1>5, <1>6, <1>7, <2>2, <3>2 DEF IInv, Results
    <3> QED
      BY <3>1, <3>2
  <2>3. /\ m_result \in failing \cup {NoResult}
        /\ at'[Master] \in Away => m_result = NoResult
        /\ m_result = NoResult /\ at'[Master] \notin Away =>
               failing \subseteq Left(queue, vChecks)
    BY <1>8 DEF IInv, Results
  <2> QED
    BY <2>2, <2>3 DEF Results
<1>11. Batches(queue, vChecks, nTodo, at)'
  BY <1>2, <1>9
<1>12. Results(queue, vChecks, m_result, local_result, do_work, at)'
  BY <1>2, <1>10 DEF Results
<1>13. Frame'
  BY <1>2, <1>6, <1>7, <1>8 DEF IInv, Frame
<1>14. VerdictSound'
  BY <1>2, <1>8 DEF IInv, VerdictSound
<1> QED
  BY <1>11, <1>12, <1>13, <1>14 DEF IInv

(* Add: new checks, unknown to everybody, of which some fail.              *)
LEMMA AddInv ==
    ASSUME IInv, NEW S \in TxChecks, NEW F \in SUBSET S, Add(S, F)
    PROVE  IInv'
<1>1. /\ at[Master] = "control" /\ S # {} /\ S \cap block = {}
      /\ queue' = queue \cup S /\ nTodo' = nTodo + Cardinality(S)
      /\ block' = block \cup S /\ failing' = failing \cup F
      /\ UNCHANGED <<m_result, m_request_stop, vChecks, local_result, do_work,
                     at, blocks, verdict>>
  BY DEF Add
<1>2. /\ S \in SUBSET Check /\ queue \in SUBSET Check
      /\ vChecks \in [Thread -> SUBSET Check] /\ failing \in SUBSET Check
  BY CheckQueueAssumption DEF IInv, Batches, Frame
<1>3. Left(queue, vChecks) \cap S = {}
  BY <1>1 DEF IInv, Frame
<1>4. \A u \in Thread : vChecks[u] \cap S = {}
  BY <1>3 DEF Left
<1>5. Left(queue', vChecks) = Left(queue, vChecks) \cup S
  BY <1>1 DEF Left
<1>6. nTodo' = Cardinality(Left(queue', vChecks))
  <2>1. IsFiniteSet(S) /\ IsFiniteSet(Left(queue, vChecks))
    BY <1>2, CheckQueueAssumption, FS_Subset, LeftFinite
  <2>2. Cardinality(Left(queue, vChecks) \cup S)
            = Cardinality(Left(queue, vChecks)) + Cardinality(S)
              - Cardinality(Left(queue, vChecks) \cap S)
    BY <2>1, FS_Union
  <2>3. Cardinality(Left(queue, vChecks) \cap S) = 0
    BY <1>3, FS_EmptySet
  <2>4. Cardinality(Left(queue, vChecks)) \in Nat /\ Cardinality(S) \in Nat
    BY <2>1, FS_CardinalityType
  <2>5. nTodo = Cardinality(Left(queue, vChecks))
    BY DEF IInv, Batches
  <2>6. Cardinality(Left(queue, vChecks) \cup S) = nTodo + Cardinality(S)
    BY <2>2, <2>3, <2>4, <2>5, SMTT(30)
  <2>7. nTodo' = nTodo + Cardinality(S)
    BY <1>1
  <2> QED
    BY <1>5, <2>6, <2>7
<1>7. at[Master] \notin Away
  BY <1>1 DEF Away
<1>8. Batches(queue', vChecks, nTodo', at)
  <2>1. \A u \in Thread : vChecks[u] \cap queue' = {}
    BY <1>1, <1>4 DEF IInv, Batches
  <2>2. queue' \in SUBSET Check
    BY <1>1, <1>2
  <2> QED
    BY <1>6, <1>7, <2>1, <2>2 DEF IInv, Batches
<1>9. Batches(queue, vChecks, nTodo, at)'
  BY <1>1, <1>8
<1>10. Results(queue, vChecks, m_result, local_result, do_work, at)'
  <2>1. m_result \in failing' \cup {NoResult}
    BY <1>1 DEF IInv, Results
  <2>2. ASSUME m_result = NoResult
        PROVE  failing' \subseteq Left(queue', vChecks)
    <3>1. failing \subseteq Left(queue, vChecks)
      BY <1>7, <2>2 DEF IInv, Results
    <3> QED
      BY <1>1, <1>5, <3>1
  <2>3. \A u \in Thread : vChecks[u] \cap failing' = vChecks[u] \cap failing
    BY <1>1, <1>4
  <2>4. ASSUME m_result = NoResult, NEW u \in Thread
        PROVE  /\ at[u] = "work" => do_work[u] = TRUE
               /\ at[u] = "top" /\ vChecks[u] # {} =>
                      local_result[u] \in failing' \cup {NoResult}
               /\ at[u] = "top" /\ vChecks[u] \cap failing' # {} =>
                      local_result[u] # NoResult
    BY <1>1, <2>3, <2>4 DEF IInv, Results
  <2> QED
    BY <1>1, <1>7, <2>1, <2>2, <2>4 DEF Results
<1>11. Frame'
  <2>1. failing' \in SUBSET Check
    BY <1>1, <1>2
  <2>2. Left(queue, vChecks)' \subseteq block'
    BY <1>1, <1>5 DEF IInv, Frame
  <2> QED
    BY <1>1, <2>1, <2>2 DEF IInv, Frame
<1>12. VerdictSound'
  BY <1>1 DEF VerdictSound
<1> QED
  BY <1>9, <1>10, <1>11, <1>12 DEF IInv

(* The control is taken, with nothing left of the last block.              *)
LEMMA TakeControlInv ==
    ASSUME IInv, TakeControl
    PROVE  IInv'
<1>1. /\ at[Master] = "away" /\ at' = [at EXCEPT ![Master] = "control"]
      /\ block' = {} /\ failing' = {}
      /\ UNCHANGED <<queue, nTodo, m_result, m_request_stop, vChecks,
                     local_result, do_work, blocks>>
  BY DEF TakeControl
<1>2. Master \in Thread /\ at \in [Thread -> Place] /\ at[Master] \in Away
  BY <1>1 DEF IInv, Batches, Thread, Away
<1>3. /\ at' \in [Thread -> Place] /\ at'[Master] = "control"
      /\ \A u \in Thread : u # Master => at'[u] = at[u]
  BY <1>1, <1>2 DEF Place
<1>4. /\ Left(queue, vChecks) = {} /\ m_result = NoResult
      /\ \A u \in Thread : vChecks[u] = {}
  BY <1>2, AwayIdle DEF IInv, Results
<1>5. Batches(queue, vChecks, nTodo, at')
  BY <1>2, <1>3, <1>4 DEF IInv, Batches, Away
<1>6. Batches(queue, vChecks, nTodo, at)'
  BY <1>1, <1>5
<1>7. \A u \in Thread : at'[u] # "work"
  BY <1>4, <1>5 DEF Batches
<1>8. Results(queue, vChecks, m_result, local_result, do_work, at)'
  BY <1>1, <1>4, <1>7 DEF Results
<1>9. Frame'
  BY <1>1, <1>4 DEF IInv, Frame
<1>10. VerdictSound'
  BY <1>3 DEF VerdictSound
<1> QED
  BY <1>6, <1>8, <1>9, <1>10 DEF IInv

(* The master enters Loop.                                                 *)
LEMMA CompleteInv ==
    ASSUME IInv, Complete
    PROVE  IInv'
<1>1. /\ at[Master] = "control" /\ at' = [at EXCEPT ![Master] = "top"]
      /\ local_result' = [local_result EXCEPT ![Master] = NoResult]
      /\ UNCHANGED <<queue, nTodo, m_result, m_request_stop, vChecks, do_work,
                     block, failing, blocks>>
  BY DEF Complete
<1>2. /\ Master \in Thread /\ at \in [Thread -> Place]
      /\ local_result \in [Thread -> Check \cup {NoResult}]
  BY DEF IInv, Batches, Frame, Thread
<1>3. /\ at' \in [Thread -> Place] /\ at'[Master] = "top"
      /\ \A u \in Thread : u # Master => at'[u] = at[u]
  BY <1>1, <1>2 DEF Place
<1>4. /\ local_result' \in [Thread -> Check \cup {NoResult}]
      /\ \A u \in Thread : u # Master => local_result'[u] = local_result[u]
  BY <1>1, <1>2
<1>5. vChecks[Master] = {}
  BY <1>1, <1>2 DEF IInv, Batches, InBatch
<1>6. at[Master] \notin Away /\ at'[Master] \notin Away
  BY <1>1, <1>3 DEF Away
<1>7. Batches(queue, vChecks, nTodo, at')
  BY <1>3, <1>5, <1>6 DEF IInv, Batches
<1>8. Batches(queue, vChecks, nTodo, at)'
  BY <1>1, <1>7
<1>9. Results(queue, vChecks, m_result, local_result', do_work, at')
  <2>1. ASSUME m_result = NoResult, NEW u \in Thread
        PROVE  /\ at'[u] = "work" => do_work[u] = TRUE
               /\ at'[u] = "top" /\ vChecks[u] # {} =>
                      local_result'[u] \in failing \cup {NoResult}
               /\ at'[u] = "top" /\ vChecks[u] \cap failing # {} =>
                      local_result'[u] # NoResult
    <3>1. CASE u = Master
      BY <1>3, <1>5, <3>1
    <3>2. CASE u # Master
      BY <1>3, <1>4, <2>1, <3>2 DEF IInv, Results
    <3> QED
      BY <3>1, <3>2
  <2> QED
    BY <1>6, <2>1 DEF IInv, Results
<1>10. Results(queue, vChecks, m_result, local_result, do_work, at)'
  BY <1>1, <1>9 DEF Results
<1>11. Frame'
  BY <1>1, <1>4 DEF IInv, Frame
<1>12. VerdictSound'
  BY <1>3 DEF VerdictSound
<1> QED
  BY <1>8, <1>10, <1>11, <1>12 DEF IInv

(* The destructor: the master is away, and only workers are woken.         *)
LEMMA DestructorInv ==
    ASSUME IInv, at[Master] \in Away, at' \in [Thread -> Place],
           at'[Master] \in {"stopping", "joining", "left"},
           \A t \in Thread : t # Master => \/ at'[t] = at[t]
                                           \/ at[t] = "wait" /\ at'[t] = "woken",
           UNCHANGED <<queue, nTodo, m_result, vChecks, local_result, do_work,
                       block, failing, blocks, verdict>>
    PROVE  IInv'
<1>1. /\ Left(queue, vChecks) = {} /\ m_result = NoResult /\ nTodo = 0
      /\ \A u \in Thread : vChecks[u] = {}
  <2>1. Batches(queue, vChecks, nTodo, at)
    BY DEF IInv
  <2>2. Left(queue, vChecks) = {} /\ \A u \in Thread : vChecks[u] = {}
    BY <2>1, AwayIdle
  <2>3. nTodo = 0
    BY <2>1 DEF Batches
  <2>4. m_result = NoResult
    BY DEF IInv, Results
  <2> QED
    BY <2>2, <2>3, <2>4
<1>2. \A u \in Thread : at'[u] # "work"
  BY <1>1 DEF IInv, Batches
<1>3. Batches(queue, vChecks, nTodo, at')
  BY <1>1, <1>2 DEF IInv, Batches
<1>4. Batches(queue, vChecks, nTodo, at)'
  BY <1>3
<1>5. at'[Master] \in Away
  BY DEF Away
<1>6. Results(queue, vChecks, m_result, local_result, do_work, at)'
  BY <1>1, <1>2, <1>5 DEF Results
<1>7. Frame'
  BY DEF IInv, Frame
<1>8. VerdictSound'
  BY DEF VerdictSound
<1> QED
  BY <1>4, <1>6, <1>7, <1>8 DEF IInv

-----------------------------------------------------------------------------

(* The invariant holds in every state.                                     *)
LEMMA Inductive == CheckQueueSpec => []IInv
<1>1. CheckQueueInit => IInv
  <2> SUFFICES ASSUME CheckQueueInit PROVE IInv
    OBVIOUS
  <2>1. Master \in Thread
    BY DEF Thread
  <2>2. Left(queue, vChecks) = {} /\ Cardinality(Left(queue, vChecks)) = 0
    <3>1. Left(queue, vChecks) = {}
      BY DEF CheckQueueInit, Left
    <3> QED
      BY <3>1, FS_EmptySet
  <2>3. Batches(queue, vChecks, nTodo, at)
    BY <2>2 DEF CheckQueueInit, Batches, Place
  <2>4. Results(queue, vChecks, m_result, local_result, do_work, at)
    BY <2>1 DEF CheckQueueInit, Results, Away
  <2>5. Frame
    BY <2>2 DEF CheckQueueInit, Frame
  <2> QED
    BY <2>3, <2>4, <2>5 DEF CheckQueueInit, VerdictSound, IInv
<1>2. IInv /\ [CheckQueueNext]_checkQueueVars => IInv'
  <2> SUFFICES ASSUME IInv, [CheckQueueNext]_checkQueueVars
               PROVE  IInv'
    OBVIOUS
  <2>1. at \in [Thread -> Place] /\ Worker \in SUBSET Thread /\ Master \in Thread
        /\ Master \notin Worker
    BY CheckQueueAssumption DEF IInv, Batches, Thread
  <2>2. ASSUME NEW t \in Thread, ThreadStep(t)
        PROVE  IInv'
    BY <2>2, LoopTopInv, LoopResumeInv, ExecuteWorkInv DEF ThreadStep
  <2>3. ASSUME NEW t \in Thread, SpuriousWakeup(t)
        PROVE  IInv'
    <3>1. /\ at' \in [Thread -> Place]
          /\ \A u \in Thread : \/ at'[u] = at[u]
                               \/ at[u] = "wait" /\ at'[u] = "woken"
      BY <2>1, <2>3 DEF SpuriousWakeup, Place
    <3> QED
      BY <2>3, <3>1, WakeInv DEF SpuriousWakeup
  <2>4. CASE AddNotify
    <3>1. /\ at' \in [Thread -> Place]
          /\ \A u \in Thread : \/ at'[u] = at[u]
                               \/ at[u] = "wait" /\ at'[u] = "woken"
      <4>1. CASE at' \in NotifyOne(Waiting(Worker, at), at)
        BY <2>1, <4>1, Notified
      <4>2. CASE at' = NotifyAll(Waiting(Worker, at), at)
        BY <2>1, <4>2, Notified
      <4> QED
        BY <2>4, <4>1, <4>2 DEF AddNotify
    <3> QED
      BY <2>4, <3>1, WakeInv DEF AddNotify
  <2>5. CASE RequestStop
    <3>1. /\ at[Master] \in Away /\ at' \in [Thread -> Place]
          /\ at'[Master] = "stopping"
          /\ \A t \in Thread : t # Master => at'[t] = at[t]
      BY <2>1, <2>5 DEF RequestStop, Away, Place
    <3> QED
      BY <2>5, <3>1, DestructorInv DEF RequestStop
  <2>6. CASE NotifyStop
    <3>1. at' = [NotifyAll(Waiting(Worker, at), at) EXCEPT ![Master] = "joining"]
          /\ at[Master] \in Away
      BY <2>6 DEF NotifyStop, Away
    <3>2. /\ at' \in [Thread -> Place] /\ at'[Master] = "joining"
          /\ \A t \in Thread : t # Master =>
                 at'[t] = NotifyAll(Waiting(Worker, at), at)[t]
      <4>1. NotifyAll(Waiting(Worker, at), at) \in [Thread -> Place]
        BY <2>1, Notified
      <4> QED
        BY <2>1, <3>1, <4>1 DEF Place
    <3>3. \A t \in Thread : t # Master => \/ at'[t] = at[t]
                                          \/ at[t] = "wait" /\ at'[t] = "woken"
      BY <2>1, <3>2, Notified
    <3> QED
      BY <2>6, <3>1, <3>2, <3>3, DestructorInv DEF NotifyStop
  <2>7. CASE JoinWorkers
    <3>1. /\ at[Master] \in Away /\ at' \in [Thread -> Place]
          /\ at'[Master] = "left"
          /\ \A t \in Thread : t # Master => at'[t] = at[t]
      BY <2>1, <2>7 DEF JoinWorkers, Away, Place
    <3> QED
      BY <2>7, <3>1, DestructorInv DEF JoinWorkers
  <2>8. CASE UNCHANGED checkQueueVars
    <3>1. /\ at' \in [Thread -> Place] /\ at' = at
          /\ UNCHANGED <<queue, nTodo, m_result, m_request_stop, vChecks,
                         local_result, do_work, block, failing, blocks, verdict>>
      BY <2>1, <2>8 DEF checkQueueVars
    <3> QED
      BY <3>1, WakeInv
  <2> QED
    BY <2>2, <2>3, <2>4, <2>5, <2>6, <2>7, <2>8, AddInv, TakeControlInv, CompleteInv
    DEF CheckQueueNext, MasterStep
<1> QED
  BY <1>1, <1>2, PTL DEF CheckQueueSpec

(* When Complete has returned, no thread holds or will take a check of the *)
(* block.                                                                  *)
THEOREM NothingOutlivesComplete == CheckQueueSpec => []NoCheckOutlivesBlock
<1>1. IInv => NoCheckOutlivesBlock
  <2> SUFFICES ASSUME IInv, at[Master] \in {"away", "stopping", "joining", "left"}
               PROVE  Outstanding = {} /\ nTodo = 0
    BY DEF NoCheckOutlivesBlock
  <2>1. at[Master] \in Away
    BY DEF Away
  <2>2. Left(queue, vChecks) = {}
    BY <2>1, AwayIdle DEF IInv
  <2> QED
    BY <2>1, <2>2 DEF IInv, Batches, Left, Outstanding
<1> QED
  BY <1>1, Inductive, PTL

(* Complete returns the error of a check of this block if one fails, and   *)
(* nothing otherwise.                                                      *)
THEOREM CompleteTellsTheTruth == CheckQueueSpec => []VerdictSound
<1>1. IInv => VerdictSound
  BY DEF IInv
<1> QED
  BY <1>1, Inductive, PTL

-----------------------------------------------------------------------------

(* No wake-up is lost.  While the master waits in Loop some worker runs a  *)
(* batch or is about to account for it, and will notify the master when    *)
(* that was the last; while it joins the workers none of them waits; and   *)
(* checks nobody has taken never lie there with every worker asleep,       *)
(* unless Add still owes the notification that it sends after releasing    *)
(* m_mutex.                                                                *)
NoWakeupLost ==
    /\ at[Master] = "wait" =>
           \E t \in Worker : at[t] \in {"top", "work"} /\ vChecks[t] # {}
    /\ at[Master] = "joining" => \A t \in Worker : at[t] # "wait"
    /\ queue # {} /\ Worker # {} /\ notify = "none" =>
           \E t \in Worker : at[t] \notin {"wait", "left"}

(* What a thread that sleeps relies on.                                    *)
Sleepers(q, todo, place, owed) ==
    /\ place[Master] = "wait" => q = {} /\ todo # 0
    /\ place[Master] \in {"joining", "left"} => \A t \in Worker : place[t] # "wait"
    /\ place[Master] \in {"stopping", "joining", "left"} => m_request_stop
    /\ \A t \in Worker : place[t] = "left" => m_request_stop
    /\ q # {} /\ Worker # {} /\ owed = "none" =>
           \E t \in Worker : place[t] \notin {"wait", "left"}

WakeupInv == Sleepers(queue, nTodo, at, notify)

(* The rest of the critical section: a thread only falls asleep with the   *)
(* queue empty, and the master only with checks to wait for.               *)
LEMMA ContinueFacts ==
    ASSUME NEW t, NEW result, NEW total, NEW idle, NEW place,
           Continue(t, result, total, idle, place)
    PROVE  /\ queue' \subseteq queue
           /\ \E x \in {"left", "away", "wait", "work"} :
                 /\ at' = [place EXCEPT ![t] = x]
                 /\ x = "left" <=> m_request_stop
                 /\ x = "away" => t = Master
                 /\ x = "wait" => queue = {} /\ ~MasterDone(t)
<1>1. CASE m_request_stop
  <2>1. queue' = queue /\ at' = [place EXCEPT ![t] = "left"]
    BY <1>1 DEF Continue
  <2> QED BY <1>1, <2>1
<1>2. CASE ~m_request_stop /\ queue = {} /\ MasterDone(t)
  <2>1. queue' = queue /\ at' = [place EXCEPT ![t] = "away"] /\ t = Master
    BY <1>2 DEF Continue, MasterDone
  <2> QED BY <1>2, <2>1
<1>3. CASE ~m_request_stop /\ queue = {} /\ ~MasterDone(t)
  <2>1. queue' = queue /\ at' = [place EXCEPT ![t] = "wait"]
    BY <1>3 DEF Continue
  <2> QED BY <1>3, <2>1
<1>4. CASE ~m_request_stop /\ queue # {}
  <2>1. queue' = queue \ vChecks'[t] /\ at' = [place EXCEPT ![t] = "work"]
    BY <1>4 DEF Continue
  <2> QED BY <1>4, <2>1
<1> QED BY <1>1, <1>2, <1>3, <1>4

(* A step of Loop.                                                         *)
LEMMA LoopWakeups ==
    ASSUME IInv, WakeupInv, NEW t \in Thread, NEW result, NEW total, NEW idle,
           NEW place \in [Thread -> Place],
           \A u \in Thread : \/ place[u] = at[u]
                             \/ at[u] = "wait" /\ place[u] = "woken",
           at[t] \in {"top", "woken"}, Continue(t, result, total, idle, place),
           t # Master /\ place[Master] = "wait" => nTodo' # 0,
           UNCHANGED <<m_request_stop, notify>>
    PROVE  WakeupInv'
<1>1. /\ queue' \subseteq queue
      /\ \E x \in {"left", "away", "wait", "work"} :
             /\ at' = [place EXCEPT ![t] = x]
             /\ x = "left" <=> m_request_stop
             /\ x = "away" => t = Master
             /\ x = "wait" => queue = {} /\ ~MasterDone(t)
  BY ContinueFacts
<1>2. PICK x \in {"left", "away", "wait", "work"} :
             /\ at' = [place EXCEPT ![t] = x]
             /\ x = "left" <=> m_request_stop
             /\ x = "away" => t = Master
             /\ x = "wait" => queue = {} /\ ~MasterDone(t)
  BY <1>1
<1>3. Master \in Thread /\ Worker \in SUBSET Thread /\ Master \notin Worker
      /\ t \in Worker \cup {Master}
  BY CheckQueueAssumption DEF Thread
<1>4. at'[t] = x /\ \A u \in Thread : u # t => at'[u] = place[u]
  BY <1>2
<1>5. at[t] \notin {"wait", "left"} /\ place[t] = at[t]
  OBVIOUS
<1>6. ASSUME at'[Master] = "wait" PROVE queue' = {} /\ nTodo' # 0
  <2>1. CASE t = Master
    BY <1>1, <1>2, <1>4, <1>6, <2>1 DEF MasterDone
  <2>2. CASE t # Master
    <3>1. place[Master] = "wait" /\ at[Master] = "wait"
      BY <1>3, <1>4, <1>6, <2>2
    <3> QED BY <1>1, <2>2, <3>1 DEF WakeupInv, Sleepers
  <2> QED BY <2>1, <2>2
<1>7. ASSUME at'[Master] \in {"joining", "left"} PROVE \A u \in Worker : at'[u] # "wait"
  <2>1. m_request_stop
    <3>1. CASE t = Master
      BY <1>2, <1>4, <1>7, <3>1
    <3>2. CASE t # Master
      BY <1>3, <1>4, <1>7, <3>2 DEF WakeupInv, Sleepers
    <3> QED BY <3>1, <3>2
  <2>2. t # Master
    <3>1. at[Master] \in {"stopping", "joining", "left"}
      BY <2>1 DEF IInv, Frame
    <3> QED BY <3>1
  <2>3. at[Master] \in {"joining", "left"}
    BY <1>3, <1>4, <1>7, <2>2
  <2>4. \A u \in Worker : at[u] # "wait"
    BY <2>3 DEF WakeupInv, Sleepers
  <2>5. x # "wait"
    BY <1>2, <2>1
  <2> QED BY <1>3, <1>4, <2>4, <2>5
<1>8. ASSUME at'[Master] \in {"stopping", "joining", "left"} PROVE m_request_stop'
  <2>1. CASE t = Master
    BY <1>2, <1>4, <1>8, <2>1
  <2>2. CASE t # Master
    BY <1>3, <1>4, <1>8, <2>2 DEF WakeupInv, Sleepers
  <2> QED BY <2>1, <2>2
<1>9. ASSUME NEW u \in Worker, at'[u] = "left" PROVE m_request_stop'
  <2>1. CASE u = t
    BY <1>2, <1>4, <1>9, <2>1
  <2>2. CASE u # t
    BY <1>3, <1>4, <1>9, <2>2 DEF WakeupInv, Sleepers
  <2> QED BY <2>1, <2>2
<1>10. ASSUME queue' # {}, Worker # {}, notify' = "none"
       PROVE  \E u \in Worker : at'[u] \notin {"wait", "left"}
  <2>1. queue # {} /\ notify = "none"
    BY <1>1, <1>10
  <2>2. PICK u \in Worker : at[u] \notin {"wait", "left"}
    BY <1>10, <2>1 DEF WakeupInv, Sleepers
  <2>3. CASE u # t
    <3>1. at'[u] = at[u]
      BY <1>3, <1>4, <2>2, <2>3
    <3> QED BY <2>2, <3>1
  <2>4. CASE u = t
    <3>1. ~m_request_stop
      <4> SUFFICES ASSUME m_request_stop PROVE FALSE
        OBVIOUS
      <4>1. at[Master] \in Away
        BY DEF IInv, Frame, Away
      <4>2. queue = {}
        BY <4>1, AwayIdle DEF IInv
      <4> QED BY <2>1, <4>2
    <3>2. x = "work"
      BY <1>2, <1>3, <2>1, <2>2, <2>4, <3>1
    <3> QED BY <1>4, <2>2, <2>4, <3>2
  <2> QED BY <2>3, <2>4
<1> QED BY <1>6, <1>7, <1>8, <1>9, <1>10 DEF WakeupInv, Sleepers

(* A notification wakes one of the workers if all of them wait.            *)
LEMMA NotifyWakes ==
    ASSUME at \in [Thread -> Place], NEW next,
           \/ next \in NotifyOne(Waiting(Worker, at), at)
           \/ next = NotifyAll(Waiting(Worker, at), at)
    PROVE  (\A t \in Worker : at[t] # "left") /\ Worker # {} =>
               \E t \in Worker : next[t] \notin {"wait", "left"}
<1> SUFFICES ASSUME \A t \in Worker : at[t] # "left", Worker # {}
             PROVE  \E t \in Worker : next[t] \notin {"wait", "left"}
  OBVIOUS
<1>1. Worker \in SUBSET Thread
  BY DEF Thread
<1>2. CASE Waiting(Worker, at) = {}
  <2>1. \A t \in Worker : at[t] # "wait" /\ next[t] = at[t]
    BY <1>1, <1>2 DEF NotifyOne, NotifyAll, Waiting
  <2> QED BY <2>1
<1>3. CASE Waiting(Worker, at) # {}
  <2>1. \E t \in Waiting(Worker, at) : next[t] = "woken"
    <3>1. Waiting(Worker, at) \in SUBSET Thread
      BY <1>1 DEF Waiting
    <3> QED BY <1>3, <3>1 DEF NotifyOne, NotifyAll
  <2> QED BY <2>1 DEF Waiting
<1> QED BY <1>2, <1>3

(* Every step keeps it.                                                    *)
LEMMA NextWakeups ==
    ASSUME IInv, WakeupInv, [CheckQueueNext]_checkQueueVars
    PROVE  WakeupInv'
<1>1. /\ at \in [Thread -> Place] /\ Worker \in SUBSET Thread /\ Master \in Thread
      /\ Master \notin Worker
  BY CheckQueueAssumption DEF IInv, Batches, Thread
<1>2. ASSUME NEW t \in Thread, LoopTop(t) PROVE WakeupInv'
  <2> DEFINE nNow == Cardinality(vChecks[t])
  <2>0. PICK place \in NotifyMaster(t, nNow) :
             \E result, total : Continue(t, result, total, nIdle, place)
    BY <1>2 DEF LoopTop
  <2>1. PICK result, total : Continue(t, result, total, nIdle, place)
    BY <2>0
  <2>2. at[t] = "top" /\ nTodo' = nTodo - nNow /\ UNCHANGED <<m_request_stop, notify>>
    BY <1>2 DEF LoopTop
  <2>3. place = at \/ place \in NotifyOne(Waiting({Master}, at), at)
    BY <2>0 DEF NotifyMaster
  <2>4. {Master} \in SUBSET Thread
    BY <1>1
  <2>5. /\ place \in [Thread -> Place]
        /\ \A u \in Thread : \/ place[u] = at[u]
                             \/ at[u] = "wait" /\ place[u] = "woken"
    BY <1>1, <2>3, <2>4, Notified
  <2>6. ASSUME t # Master, place[Master] = "wait" PROVE nTodo' # 0
    <3>1. at[Master] = "wait" /\ nTodo # 0
      BY <1>1, <2>5, <2>6 DEF WakeupInv, Sleepers
    <3>2. nNow \in Nat
      BY CheckQueueAssumption, FS_Subset, FS_CardinalityType DEF IInv, Batches
    <3>3. nTodo \in Nat
      BY LeftFinite DEF IInv, Batches
    <3>4. CASE nNow > 0
      <4>1. CASE nTodo' = 0
        <5>1. place \in NotifyOne(Waiting({Master}, at), at)
          BY <2>0, <2>6, <3>4, <4>1 DEF NotifyMaster
        <5>2. Waiting({Master}, at) = {Master}
          BY <3>1 DEF Waiting
        <5>3. place = [at EXCEPT ![Master] = "woken"]
          BY <5>1, <5>2 DEF NotifyOne
        <5> QED BY <1>1, <2>6, <5>3
      <4> QED BY <4>1
    <3>5. CASE ~(nNow > 0)
      BY <2>2, <3>1, <3>2, <3>3, <3>5, SMTT(30)
    <3> QED BY <3>4, <3>5
  <2> QED BY <2>1, <2>2, <2>5, <2>6, LoopWakeups
<1>3. ASSUME NEW t \in Thread, LoopResume(t) PROVE WakeupInv'
  <2>1. at[t] = "woken" /\ nTodo' = nTodo /\ UNCHANGED <<m_request_stop, notify>>
        /\ Continue(t, m_result, nTotal, nIdle - 1, at)
    BY <1>3 DEF LoopResume
  <2>2. at[Master] = "wait" => nTodo' # 0
    BY <2>1 DEF WakeupInv, Sleepers
  <2> QED BY <1>1, <2>1, <2>2, LoopWakeups
<1>4. ASSUME NEW t \in Thread, SpuriousWakeup(t) \/ ExecuteWork(t) PROVE WakeupInv'
  <2>1. /\ at' = [at EXCEPT ![t] = IF at[t] = "wait" THEN "woken" ELSE "top"]
        /\ at[t] \in {"wait", "work"}
        /\ UNCHANGED <<queue, nTodo, notify, m_request_stop>>
    BY <1>4 DEF SpuriousWakeup, ExecuteWork
  <2>2. \A u \in Thread : \/ at'[u] = at[u]
                          \/ u = t /\ at'[u] \in {"woken", "top"}
    BY <1>1, <2>1
  <2>3. \A u \in Thread : at'[u] \in {"wait", "left", "stopping", "joining"} => at'[u] = at[u]
    BY <2>2
  <2>4. ASSUME NEW u \in Worker, at[u] \notin {"wait", "left"}
        PROVE  at'[u] \notin {"wait", "left"}
    BY <1>1, <2>3, <2>4
  <2> QED BY <1>1, <2>1, <2>3, <2>4 DEF WakeupInv, Sleepers
<1>5. ASSUME NEW S, NEW F, Add(S, F) PROVE WakeupInv'
  <2>1. /\ at[Master] = "control" /\ UNCHANGED <<at, m_request_stop>>
        /\ notify' \in {"one", "all"}
    BY <1>5 DEF Add
  <2> QED BY <2>1 DEF WakeupInv, Sleepers
<1>6. CASE TakeControl \/ Complete
  <2>1. /\ at[Master] \in {"away", "control"} /\ UNCHANGED <<queue, nTodo, m_request_stop, notify>>
        /\ \E x \in {"control", "top"} : at' = [at EXCEPT ![Master] = x]
    BY <1>6 DEF TakeControl, Complete
  <2>2. at'[Master] \in {"control", "top"} /\ \A u \in Worker : at'[u] = at[u]
    BY <1>1, <2>1
  <2> QED BY <2>1, <2>2 DEF WakeupInv, Sleepers
<1>7. CASE AddNotify
  <2>1. /\ UNCHANGED <<queue, nTodo, m_request_stop>>
        /\ \/ at' \in NotifyOne(Waiting(Worker, at), at)
           \/ at' = NotifyAll(Waiting(Worker, at), at)
    BY <1>7 DEF AddNotify
  <2>2. /\ at' \in [Thread -> Place]
        /\ \A u \in Thread : \/ at'[u] = at[u]
                             \/ at[u] = "wait" /\ at'[u] = "woken"
    <3>1. Worker \in SUBSET Thread /\ at \in [Thread -> Place]
      BY <1>1 DEF Thread
    <3>2. CASE at' \in NotifyOne(Waiting(Worker, at), at)
      BY <3>1, <3>2, Notified
    <3>3. CASE at' = NotifyAll(Waiting(Worker, at), at)
      BY <3>1, <3>3, Notified
    <3> QED BY <2>1, <3>2, <3>3
  <2>3. \A u \in Thread : at'[u] \in {"wait", "left", "stopping", "joining"} => at'[u] = at[u]
    BY <2>2
  <2>4. ASSUME queue' # {}, Worker # {}
        PROVE  \E u \in Worker : at'[u] \notin {"wait", "left"}
    <3>1. ~m_request_stop
      <4> SUFFICES ASSUME m_request_stop PROVE FALSE
        OBVIOUS
      <4>1. at[Master] \in Away
        BY DEF IInv, Frame, Away
      <4>2. queue = {}
        BY <4>1, AwayIdle DEF IInv
      <4> QED BY <2>1, <2>4, <4>2
    <3>2. \A u \in Worker : at[u] # "left"
      BY <3>1 DEF WakeupInv, Sleepers
    <3> QED BY <1>1, <2>1, <2>4, <3>2, NotifyWakes
  <2> QED BY <1>1, <2>1, <2>3, <2>4 DEF WakeupInv, Sleepers
<1>8. CASE RequestStop \/ NotifyStop \/ JoinWorkers
  <2>1. at[Master] \in Away /\ UNCHANGED <<queue, nTodo>>
    BY <1>8 DEF RequestStop, NotifyStop, JoinWorkers, Away
  <2>2. queue' = {}
    BY <2>1, AwayIdle DEF IInv
  <2>3. m_request_stop' = TRUE \/ (m_request_stop' = m_request_stop /\ m_request_stop)
    BY <1>8 DEF RequestStop, NotifyStop, JoinWorkers, WakeupInv, Sleepers
  <2>4. at'[Master] # "wait"
    BY <1>1, <1>8 DEF RequestStop, NotifyStop, JoinWorkers, NotifyAll
  <2>5. at'[Master] \in {"joining", "left"} => \A u \in Worker : at'[u] # "wait"
    <3>1. CASE RequestStop
      <4>1. at'[Master] = "stopping"
        BY <1>1, <3>1 DEF RequestStop
      <4> QED BY <4>1
    <3>2. CASE NotifyStop
      <4>1. \A u \in Worker : at'[u] = NotifyAll(Waiting(Worker, at), at)[u]
        BY <1>1, <3>2 DEF NotifyStop, NotifyAll
      <4> QED BY <1>1, <4>1 DEF NotifyAll, Waiting
    <3>3. CASE JoinWorkers
      <4>1. \A u \in Worker : at'[u] = "left"
        BY <1>1, <3>3 DEF JoinWorkers
      <4> QED BY <4>1
    <3> QED BY <1>8, <3>1, <3>2, <3>3
  <2> QED BY <2>2, <2>3, <2>4, <2>5 DEF WakeupInv, Sleepers
<1>9. CASE UNCHANGED checkQueueVars
  BY <1>9 DEF checkQueueVars, WakeupInv, Sleepers
<1> QED BY <1>2, <1>3, <1>4, <1>5, <1>6, <1>7, <1>8, <1>9
        DEF CheckQueueNext, ThreadStep, MasterStep

(* For any number of workers, any batches and any spurious wake-ups, no    *)
(* wake-up is lost: nobody waits for a notification that will not come.    *)
THEOREM NobodyWaitsInVain == CheckQueueSpec => []NoWakeupLost
<1>1. CheckQueueInit => WakeupInv
  <2> SUFFICES ASSUME CheckQueueInit PROVE WakeupInv
    OBVIOUS
  <2>1. at[Master] = "away" /\ \A t \in Worker : at[t] = "top"
    BY CheckQueueAssumption DEF CheckQueueInit, Thread
  <2>2. queue = {}
    BY DEF CheckQueueInit
  <2> QED BY <2>1, <2>2 DEF WakeupInv, Sleepers
<1>2. IInv /\ WakeupInv /\ [CheckQueueNext]_checkQueueVars => WakeupInv'
  BY NextWakeups
<1>3. IInv /\ WakeupInv => NoWakeupLost
  <2> SUFFICES ASSUME IInv, WakeupInv PROVE NoWakeupLost
    OBVIOUS
  <2>1. ASSUME at[Master] = "wait"
        PROVE  \E t \in Worker : at[t] \in {"top", "work"} /\ vChecks[t] # {}
    <3>1. queue = {} /\ nTodo # 0
      BY <2>1 DEF WakeupInv, Sleepers
    <3>2. Left(queue, vChecks) # {}
      BY <3>1, LeftFinite DEF IInv, Batches
    <3>3. PICK t \in Thread : vChecks[t] # {}
      BY <3>1, <3>2 DEF Left
    <3>4. at[t] \in {"top", "work"}
      BY <3>3 DEF IInv, Batches, InBatch
    <3> QED BY <2>1, <3>3, <3>4 DEF Thread
  <2> QED BY <2>1 DEF NoWakeupLost, WakeupInv, Sleepers
<1> QED BY <1>1, <1>2, <1>3, Inductive, PTL DEF CheckQueueSpec

=============================================================================
