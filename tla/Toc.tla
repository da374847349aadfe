---------------------------------- MODULE Toc ----------------------------------
(***************************************************************************)
(* Toc.cpp and TocWrapper.cpp: the table of contents of the Crazyflie's    *)
(* parameters or log variables, fetched item by item at init, and a cache  *)
(* of the items that were looked up.                                       *)
(*                                                                         *)
(* An item's name (group and name) is its key in the std::map, a number    *)
(* that says how the keys sort.  One client thread uses the object.  The   *)
(* firmware's table is external: it changes only when the Crazyflie is     *)
(* flashed, which does not happen while a table is fetched.                *)
(***************************************************************************)
EXTENDS TocTypes, Integers, Sequences, FiniteSets, FiniteSetsExt

CONSTANTS
  Names,     \* the keys
  FwTocs,    \* the tables firmwares have: sequences of [key, byte]
  IsParam,   \* the port: the parameter TOC or the log TOC
  NoEntry,   \* no entry under a key
  MaxFlash   \* bound: how often the Crazyflie is flashed

\* Toc.h:72-81.
AccessTypes == {"RW", "RO", "NOACC"}

Entries == [_id : Nat, _type : TocItemTypes, _accessType : AccessTypes]

ASSUME TocAssumption ==
  /\ Names \subseteq Nat /\ IsFiniteSet(Names)
  /\ FwTocs \subseteq Seq([key : Names, byte : Bytes])
  /\ \A toc \in FwTocs : \A i, j \in DOMAIN toc : toc[i].key = toc[j].key => i = j
  /\ IsParam \in BOOLEAN /\ MaxFlash \in Nat
  /\ NoEntry \notin Entries

VARIABLES
  tocItems,  \* _tocItems
  cache,     \* _tocItemsCache
  fetch,     \* initToc: what it waits for, NotFetching, Info or the number of an item
  number,    \* num_of_elements
  held,      \* the item the last lookup returned: its key and entry, or NoEntry; the
             \* client drops it with its next other call
  fwToc,     \* firmware: its table
  flashes,   \* how often it was flashed
  fresh      \* ghost: since a fetch began on an empty table, the table has not been
             \* cleared and the Crazyflie has not been flashed

tocVars == <<tocItems, cache, fetch, number, held, fwToc, flashes, fresh>>

ACCESS_TYPE_BYTE == 64

NotFetching == -2
Info        == -1

Nothing == [k \in Names |-> NoEntry]

TocInit ==
  /\ tocItems = Nothing /\ cache = Nothing
  /\ fetch = NotFetching /\ number = 0 /\ held = NoEntry
  /\ fwToc \in FwTocs /\ flashes = 0 /\ fresh = FALSE

-----------------------------------------------------------------------------
(* Fetching.                                                               *)

HasAccessBit(byte) == (byte \div ACCESS_TYPE_BYTE) % 2 = 1

\* TocItem(packet): the access bit is cleared; _isParam is true unless the packet is of
\* the log port, whose items do not keep the NOACC of line 20 either.
Entry(i) ==
  LET byte == fwToc[i + 1].byte
      bit  == HasAccessBit(byte)
  IN  [_id         |-> i,
       _type       |-> [_type |-> IF bit THEN byte - ACCESS_TYPE_BYTE ELSE byte, _isParam |-> IsParam],
       _accessType |-> IF bit THEN "RO" ELSE "RW"]

initToc ==
  /\ fetch = NotFetching /\ fetch' = Info
  /\ fresh' = (fresh \/ tocItems = Nothing)
  /\ held' = NoEntry /\ UNCHANGED <<tocItems, cache, number, fwToc, flashes>>

Fetched(i) == fetch' = IF i < number' THEN i ELSE NotFetching

GotInfo ==
  /\ fetch = Info /\ number' = Len(fwToc) /\ Fetched(0)
  /\ UNCHANGED <<tocItems, cache, held, fwToc, flashes, fresh>>

\* Mutated form: the loop ends one item early.
GotItemOneLess ==
  /\ fetch >= 0 /\ UNCHANGED number
  /\ fetch' = IF fetch + 2 < number THEN fetch + 1 ELSE NotFetching
  /\ tocItems' = [tocItems EXCEPT ![fwToc[fetch + 1].key] = IF @ = NoEntry THEN Entry(fetch) ELSE @]
  /\ UNCHANGED <<cache, held, fwToc, flashes, fresh>>

\* Mutated form: the loop asks for one item more.
GotItemOneMore ==
  /\ fetch >= 0 /\ UNCHANGED number
  /\ fetch' = IF fetch < number THEN fetch + 1 ELSE NotFetching
  /\ tocItems' = [tocItems EXCEPT ![fwToc[fetch + 1].key] = IF @ = NoEntry THEN Entry(fetch) ELSE @]
  /\ UNCHANGED <<cache, held, fwToc, flashes, fresh>>

\* The answer to item i; std::map::insert keeps an entry that exists.
GotItem ==
  /\ fetch >= 0 /\ UNCHANGED number /\ Fetched(fetch + 1)
  /\ tocItems' = [tocItems EXCEPT ![fwToc[fetch + 1].key] = IF @ = NoEntry THEN Entry(fetch) ELSE @]
  /\ UNCHANGED <<cache, held, fwToc, flashes, fresh>>

-----------------------------------------------------------------------------
(* Looking up.                                                             *)

Idle == fetch = NotFetching

Found(map, k) == map[k] # NoEntry
Held(map, k)  == [key |-> k, entry |-> map[k]]
WithId(map, i) == {k \in Names : Found(map, k) /\ map[k]._id = i}

Cached(k) == IF Found(cache, k) THEN cache ELSE [cache EXCEPT ![k] = tocItems[k]]

\* The item a lookup by name, and one by id, returns; NoEntry stands for TocItem(),
\* whose _id is not initialized.
ByName(k) ==
  IF Found(cache, k) THEN Held(cache, k)
  ELSE IF Found(tocItems, k) THEN Held(tocItems, k) ELSE NoEntry

\* Both maps are walked in the order of their keys, the cache first.
ById(i) ==
  LET First(map) == Held(map, Min(WithId(map, i)))
  IN  IF WithId(cache, i) # {} THEN First(cache)
      ELSE IF WithId(tocItems, i) # {} THEN First(tocItems) ELSE NoEntry

LookedUp(item, caching) ==
  /\ held' = item
  /\ cache' = IF item # NoEntry /\ caching THEN Cached(item.key) ELSE cache
  /\ UNCHANGED <<tocItems, fetch, number, fwToc, flashes, fresh>>

getItem(k, caching)     == Idle /\ LookedUp(ByName(k), caching)
getItemById(i, caching) == Idle /\ LookedUp(ById(i), caching)

\* Mutated form: the methods do what their names say.
clearTocOnly ==
  /\ Idle /\ tocItems' = Nothing /\ fresh' = FALSE /\ held' = NoEntry
  /\ UNCHANGED <<cache, fetch, number, fwToc, flashes>>

\* clearCache empties both maps; clearToc empties the cache.
clearCache ==
  /\ Idle /\ tocItems' = Nothing /\ cache' = Nothing /\ fresh' = FALSE /\ held' = NoEntry
  /\ UNCHANGED <<fetch, number, fwToc, flashes>>

clearToc ==
  /\ Idle /\ cache' = Nothing /\ held' = NoEntry
  /\ UNCHANGED <<tocItems, fetch, number, fwToc, flashes, fresh>>

\* The client converts its copy of an item.
Convert(isParam) ==
  /\ Idle /\ held # NoEntry
  /\ held' = [held EXCEPT !.entry._type = setIsParam(@, isParam)]
  /\ UNCHANGED <<tocItems, cache, fetch, number, fwToc, flashes, fresh>>

Flash ==
  /\ Idle /\ flashes < MaxFlash /\ flashes' = flashes + 1
  /\ fwToc' \in FwTocs /\ fresh' = FALSE /\ held' = NoEntry
  /\ UNCHANGED <<tocItems, cache, fetch, number>>

MaxId == Max({Len(toc) : toc \in FwTocs}) - 1

Lookups ==
  \E caching \in BOOLEAN :
    \/ \E k \in Names : getItem(k, caching)
    \/ \E i \in 0..MaxId : getItemById(i, caching)

TocNext ==
  \/ initToc \/ GotInfo \/ GotItem \/ Lookups \/ clearCache \/ clearToc
  \/ \E isParam \in BOOLEAN : Convert(isParam)
  \/ Flash

-----------------------------------------------------------------------------

TocTypeOK ==
  /\ tocItems \in [Names -> Entries \union {NoEntry}]
  /\ cache \in [Names -> Entries \union {NoEntry}]
  /\ fetch \in Nat \union {NotFetching, Info} /\ number \in Nat
  /\ held = NoEntry \/ held \in [key : Names, entry : Entries]
  /\ fwToc \in FwTocs /\ flashes \in 0..MaxFlash /\ fresh \in BOOLEAN
  /\ fetch >= 0 => fetch < number /\ number = Len(fwToc)

\* The cache answers before the table does (Toc.cpp:254, 277), so what it holds under a
\* key must be what the table holds, through every order of fetching, lookups by name and
\* by id, and the two ways of clearing.
CacheIsPartOfToc == \A k \in Names : Found(cache, k) => cache[k] = tocItems[k]

\* Once a fetch that began on an empty table has ended, every lookup of an item of the
\* Crazyflie, by its name or by its number, returns that item with its type and access, whatever
\* was cached before.  (A fetch onto an older table keeps the old entries: Toc.cpp:250.)
LookupsAgree ==
  fresh /\ Idle =>
    \A i \in DOMAIN fwToc :
      LET item == [key |-> fwToc[i].key, entry |-> Entry(i - 1)]
      IN  ByName(fwToc[i].key) = item /\ ById(i - 1) = item

\* Converting an item between the parameter's and the log's numbering keeps the name of its
\* type when both tables have it, and converting it back gives the byte it had
\* (setIsParam, Toc.cpp:125-171).
KnownToBoth(t) == \A p \in BOOLEAN : \E c \in DOMAIN Table(p) : Table(p)[c] = to_string(t)
ConversionKeepsType ==
  [][\A isParam \in BOOLEAN :
       Convert(isParam) /\ KnownToBoth(held.entry._type) =>
         /\ to_string(held'.entry._type) = to_string(held.entry._type)
         /\ setIsParam(held'.entry._type, held.entry._type._isParam) = held.entry._type]_tocVars
=============================================================================
