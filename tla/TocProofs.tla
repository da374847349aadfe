------------------------------- MODULE TocProofs -------------------------------
(***************************************************************************)
(* Lookups and parameters by name are right for every table a firmware may *)
(* have, any number of fetches and flashes, and every order of operations. *)
(* What makes them right is that a fresh table is the Crazyflie's, as far  *)
(* as it has been fetched, and that the cache is part of the table; what   *)
(* is known of the values under a name is forgotten with the table.        *)
(*                                                                         *)
(* What a lookup by number returns on an outdated table does not matter    *)
(* for any of this, and nothing is proved of it.                           *)
(***************************************************************************)
EXTENDS ParamListing, TLAPS, SequenceTheorems

MapsOK ==
  /\ DOMAIN tocItems = Names /\ DOMAIN cache = Names
  /\ DOMAIN vals = Names /\ DOMAIN wrote = Names
  /\ fwToc \in FwTocs /\ fetch \in Nat \cup {NotFetching, Info} /\ number \in Nat

\* The part of the Crazyflie's table that has arrived: while it is fetched, the items
\* before the one that is waited for.
Arrived(i) == fetch # Info /\ (fetch # NotFetching => i <= fetch)

\* A fresh table holds what has arrived, and nothing that is not the Crazyflie's.
FreshTable ==
  fresh =>
    /\ fetch >= 0 => number = Len(fwToc) /\ fetch < number
    /\ \A i \in DOMAIN fwToc : Arrived(i) => tocItems[fwToc[i].key] = Entry(i - 1)
    /\ \A k \in Names : tocItems[k] # NoEntry =>
         \E i \in DOMAIN fwToc : fwToc[i].key = k /\ tocItems[k] = Entry(i - 1)

\* Nothing is remembered of a table that is not the Crazyflie's.
Forgotten == ~fresh => wrote = NoWrites

IInv ==
  /\ MapsOK /\ FreshTable /\ Forgotten
  /\ CacheIsPartOfToc /\ WrittenIsStored

-----------------------------------------------------------------------------
(* The Crazyflie's items.                                                  *)

\* Items have the number they were asked for, and no two share a name.
LEMMA FwItems ==
  ASSUME fwToc \in FwTocs
  PROVE  /\ Len(fwToc) \in Nat /\ DOMAIN fwToc = 1..Len(fwToc)
         /\ \A i \in DOMAIN fwToc :
              /\ fwToc[i].key \in Names
              /\ Entry(i - 1)._id = i - 1 /\ Entry(i - 1) \in Entries
              /\ \A j \in DOMAIN fwToc : fwToc[i].key = fwToc[j].key => i = j
<1>1. fwToc \in Seq([key : Names, byte : Bytes])
  BY TocAssumption
<1>2. Len(fwToc) \in Nat /\ DOMAIN fwToc = 1..Len(fwToc)
  BY <1>1
<1>3. ASSUME NEW i \in DOMAIN fwToc
      PROVE  fwToc[i].key \in Names /\ Entry(i - 1)._id = i - 1 /\ Entry(i - 1) \in Entries
  <2>0. i \in Nat /\ i - 1 \in Nat /\ i - 1 + 1 = i
    BY <1>2, <1>3
  <2>1. fwToc[i] \in [key : Names, byte : Bytes]
    BY <1>1, <1>2, <1>3, ElementOfSeq
  <2> DEFINE byte == fwToc[i].byte
             bit == HasAccessBit(byte)
  <2>2. byte \in 0..255 /\ (bit => byte - ACCESS_TYPE_BYTE \in 0..255)
    BY <2>1 DEF Bytes, HasAccessBit, ACCESS_TYPE_BYTE
  <2> HIDE DEF byte, bit
  <2>3. Entry(i - 1) =
          [_id |-> i - 1,
           _type |-> [_type |-> IF bit THEN byte - ACCESS_TYPE_BYTE ELSE byte, _isParam |-> IsParam],
           _accessType |-> IF bit THEN "RO" ELSE "RW"]
    BY <2>0, <2>1 DEF Entry, byte, bit
  <2>4. (IF bit THEN byte - ACCESS_TYPE_BYTE ELSE byte) \in Bytes
    BY <2>2 DEF Bytes
  <2>5. (IF bit THEN "RO" ELSE "RW") \in AccessTypes
    BY DEF AccessTypes
  <2> QED BY <2>0, <2>1, <2>3, <2>4, <2>5, TocAssumption DEF Entries, TocItemTypes
<1>4. ASSUME NEW i \in DOMAIN fwToc, NEW j \in DOMAIN fwToc, fwToc[i].key = fwToc[j].key
      PROVE  i = j
  BY <1>4, TocAssumption
<1> QED BY <1>2, <1>3, <1>4

\* A lookup by name in a fresh table returns the Crazyflie's item of that name or nothing.
LEMMA FreshByName ==
  ASSUME IInv, fresh, NEW k \in Names, ByName(k) # NoEntry
  PROVE  \E i \in DOMAIN fwToc :
           fwToc[i].key = k /\ ByName(k) = [key |-> k, entry |-> Entry(i - 1)]
<1>1. ByName(k) = Held(tocItems, k) /\ tocItems[k] # NoEntry
  BY DEF IInv, CacheIsPartOfToc, ByName, Found, Held
<1> QED BY <1>1 DEF IInv, FreshTable, Held

\* In a fresh table that has been fetched to its end, every item of the Crazyflie is found
\* by its name and by its number.
LEMMA FreshLookups ==
  ASSUME IInv
  PROVE  LookupsAgree
<1> SUFFICES ASSUME fresh, Idle, NEW i \in DOMAIN fwToc
             PROVE  LET item == [key |-> fwToc[i].key, entry |-> Entry(i - 1)]
                    IN  ByName(fwToc[i].key) = item /\ ById(i - 1) = item
  BY DEF LookupsAgree
<1> DEFINE k == fwToc[i].key
<1>1. /\ k \in Names /\ Entry(i - 1) \in Entries /\ Entry(i - 1) # NoEntry
      /\ Entry(i - 1)._id = i - 1 /\ i \in Nat /\ i - 1 \in Nat
  BY FwItems, TocAssumption DEF IInv, MapsOK
<1>2. tocItems[k] = Entry(i - 1)
  BY DEF IInv, FreshTable, Arrived, Idle, NotFetching, Info
<1>3. \A j \in Names : tocItems[j] # NoEntry /\ tocItems[j]._id = i - 1 => j = k
  <2> SUFFICES ASSUME NEW j \in Names, tocItems[j] # NoEntry, tocItems[j]._id = i - 1
               PROVE  j = k
    OBVIOUS
  <2>1. PICK n \in DOMAIN fwToc : fwToc[n].key = j /\ tocItems[j] = Entry(n - 1)
    BY DEF IInv, FreshTable
  <2>2. n \in Nat /\ n - 1 = i - 1
    BY <2>1, FwItems DEF IInv, MapsOK
  <2> QED BY <1>1, <2>1, <2>2
<1>4. WithId(tocItems, i - 1) = {k}
  BY <1>1, <1>2, <1>3 DEF WithId, Found
<1>5. WithId(cache, i - 1) = IF Found(cache, k) THEN {k} ELSE {}
  BY <1>1, <1>2, <1>3 DEF WithId, Found, IInv, CacheIsPartOfToc
<1>6. Min({k}) = k
  BY <1>1, TocAssumption DEF Min
<1>7. Found(cache, k) => cache[k] = Entry(i - 1)
  BY <1>1, <1>2 DEF IInv, CacheIsPartOfToc
<1>8. ByName(k) = [key |-> k, entry |-> Entry(i - 1)]
  BY <1>1, <1>2, <1>7 DEF ByName, Held, Found
<1>9. ById(i - 1) = [key |-> k, entry |-> Entry(i - 1)]
  BY <1>1, <1>2, <1>4, <1>5, <1>6, <1>7 DEF ById, Held, Found
<1> QED BY <1>8, <1>9
-----------------------------------------------------------------------------
(* Steps.                                                                  *)

\* What a lookup puts into the cache is in the table, whatever it was looked up by.
LEMMA CachedIsPart ==
  ASSUME IInv, NEW k, cache' = cache \/ cache' = Cached(k), UNCHANGED tocItems
  PROVE  CacheIsPartOfToc' /\ DOMAIN cache' = Names
BY DEF IInv, MapsOK, CacheIsPartOfToc, Cached, Found

\* The table after one step of the fetch, a lookup or a clearing.
LEMMA FetchStep ==
  ASSUME IInv, initToc \/ GotInfo \/ GotItem
  PROVE  /\ FreshTable' /\ CacheIsPartOfToc'
         /\ (fetch \in Nat \cup {NotFetching, Info} /\ number \in Nat)'
         /\ DOMAIN tocItems' = Names /\ UNCHANGED <<cache, fwToc>>
<1> USE DEF NotFetching, Info
<1>1. /\ Len(fwToc) \in Nat /\ DOMAIN fwToc = 1..Len(fwToc)
      /\ \A i \in DOMAIN fwToc : fwToc[i].key \in Names
      /\ \A i, j \in DOMAIN fwToc : fwToc[i].key = fwToc[j].key => i = j
  BY FwItems DEF IInv, MapsOK
<1>2. CASE initToc
  <2>1. /\ UNCHANGED <<tocItems, cache, number, fwToc>>
        /\ fetch = NotFetching /\ fetch' = Info
        /\ fresh' = (fresh \/ tocItems = Nothing)
    BY <1>2 DEF initToc
  <2>2. FreshTable'
    <3>1. CASE fresh
      BY <2>1, <3>1 DEF IInv, FreshTable, Arrived, Entry
    <3>2. CASE ~fresh /\ tocItems = Nothing
      BY <2>1, <3>2 DEF FreshTable, Arrived, Nothing
    <3>3. CASE ~fresh'
      BY <3>3 DEF FreshTable
    <3> QED BY <3>1, <3>2, <3>3, <2>1
  <2> QED BY <2>1, <2>2 DEF IInv, MapsOK, CacheIsPartOfToc, Found
<1>3. CASE GotInfo
  <2>1. /\ UNCHANGED <<tocItems, cache, fwToc, fresh>>
        /\ fetch = Info /\ number' = Len(fwToc)
        /\ fetch' = IF 0 < Len(fwToc) THEN 0 ELSE NotFetching
    BY <1>3 DEF GotInfo, Fetched
  <2>2. FreshTable'
    BY <1>1, <2>1 DEF IInv, FreshTable, Arrived, Entry
  <2> QED BY <1>1, <2>1, <2>2 DEF IInv, MapsOK, CacheIsPartOfToc, Found
<1>4. CASE GotItem
  <2> DEFINE k == fwToc[fetch + 1].key
  <2>1. /\ UNCHANGED <<number, cache, fwToc, fresh>> /\ fetch >= 0
        /\ fetch' = IF fetch + 1 < number THEN fetch + 1 ELSE NotFetching
        /\ tocItems' = [tocItems EXCEPT ![k] = IF @ = NoEntry THEN Entry(fetch) ELSE @]
    BY <1>4 DEF GotItem, Fetched
  <2>2. fetch \in Nat /\ number \in Nat /\ DOMAIN tocItems = Names
    BY <2>1 DEF IInv, MapsOK
  <2>3. \A j \in Names : tocItems[j] # NoEntry => tocItems'[j] = tocItems[j]
    BY <2>1, <2>2
  <2>4. FreshTable'
    <3> SUFFICES ASSUME fresh PROVE FreshTable'
      BY <2>1 DEF FreshTable
    <3>1. /\ number = Len(fwToc) /\ fetch + 1 \in DOMAIN fwToc /\ k \in Names
          /\ fetch' # NotFetching => fetch' < number
      BY <1>1, <2>1, <2>2 DEF IInv, FreshTable
    <3> PICK m \in DOMAIN fwToc : m = fetch + 1 /\ m - 1 = fetch
      BY <3>1, <2>2
    <3>2. ASSUME NEW j \in Names, tocItems'[j] # NoEntry
          PROVE  \E i \in DOMAIN fwToc : fwToc[i].key = j /\ tocItems'[j] = Entry(i - 1)
      <4>1. CASE tocItems[j] # NoEntry
        BY <4>1, <2>3 DEF IInv, FreshTable
      <4>2. CASE tocItems[j] = NoEntry
        <5>1. j = k
          BY <4>2, <3>2, <2>1, <2>2
        <5>2. tocItems'[k] = Entry(fetch)
          BY <5>1, <4>2, <3>1, <2>1, <2>2
        <5> QED BY <5>1, <5>2
      <4> QED BY <4>1, <4>2
    <3>3. tocItems'[k] # NoEntry
      <4>1. Entry(m - 1) # NoEntry
        BY FwItems, TocAssumption DEF IInv, MapsOK
      <4> QED BY <4>1, <2>1, <2>2, <3>1
    <3>4. ASSUME NEW i \in DOMAIN fwToc, Arrived(i)'
          PROVE  tocItems'[fwToc[i].key] = Entry(i - 1)
      <4>1. i \in Nat /\ fwToc[i].key \in Names
        BY <1>1
      <4>2. i = fetch + 1 \/ i <= fetch
        <5>1. i <= number /\ (fetch' # NotFetching => i <= fetch')
          BY <1>1, <3>1, <3>4 DEF Arrived
        <5> QED BY <5>1, <4>1, <2>1, <2>2
      <4>3. tocItems'[fwToc[i].key] # NoEntry
        <5>1. CASE i = fetch + 1
          BY <5>1, <4>1, <2>2, <3>3
        <5>2. CASE i <= fetch
          <6>1. tocItems[fwToc[i].key] = Entry(i - 1)
            BY <5>2, <2>1, <2>2 DEF IInv, FreshTable, Arrived
          <6>2. Entry(i - 1) # NoEntry
            BY FwItems, TocAssumption DEF IInv, MapsOK
          <6> QED BY <6>1, <6>2, <4>1, <2>3
        <5> QED BY <4>2, <5>1, <5>2
      <4> QED BY <4>1, <4>3, <3>2, <1>1
    <3> QED BY <1>1, <2>1, <2>2, <3>1, <3>2, <3>4 DEF FreshTable, Entry
  <2>5. CacheIsPartOfToc'
    BY <2>1, <2>3 DEF IInv, CacheIsPartOfToc, Found
  <2> QED BY <2>1, <2>2, <2>4, <2>5
<1> QED BY <1>2, <1>3, <1>4

\* A step that leaves the fetched table alone keeps what is known of it.
LEMMA FreshKept ==
  ASSUME FreshTable, UNCHANGED <<tocItems, fetch, number, fwToc>>, fresh' => fresh
  PROVE  FreshTable'
BY DEF FreshTable, Arrived, Entry

\* A step of the table keeps what is known of the table and the cache, and only a table
\* that stays the Crazyflie's stays fresh.
LEMMA TableStep ==
  ASSUME IInv, TocNext
  PROVE  /\ FreshTable' /\ CacheIsPartOfToc'
         /\ DOMAIN tocItems' = Names /\ DOMAIN cache' = Names /\ fwToc' \in FwTocs
         /\ (fetch \in Nat \cup {NotFetching, Info} /\ number \in Nat)'
         /\ fresh' => UNCHANGED flashes
<1>1. CASE initToc \/ GotInfo \/ GotItem
  <2>1. UNCHANGED flashes
    BY <1>1 DEF initToc, GotInfo, GotItem
  <2> QED BY <1>1, <2>1, FetchStep DEF IInv, MapsOK
<1>2. CASE Lookups
  <2>1. ASSUME NEW item, NEW caching, LookedUp(item, caching)
        PROVE  /\ UNCHANGED <<tocItems, fetch, number, fwToc, flashes, fresh>>
               /\ cache' = cache \/ cache' = Cached(item.key)
    BY <2>1 DEF LookedUp
  <2>2. /\ UNCHANGED <<tocItems, fetch, number, fwToc, flashes, fresh>>
        /\ \E k : cache' = cache \/ cache' = Cached(k)
    BY <1>2, <2>1 DEF Lookups, getItem, getItemById
  <2> QED BY <2>2, CachedIsPart, FreshKept DEF IInv, MapsOK
<1>3. CASE clearCache
  BY <1>3 DEF clearCache, FreshTable, CacheIsPartOfToc, Found, Nothing, IInv, MapsOK
<1>4. CASE clearToc
  <2>1. /\ UNCHANGED <<tocItems, fetch, number, fwToc, flashes, fresh>> /\ cache' = Nothing
    BY <1>4 DEF clearToc
  <2> QED BY <2>1, FreshKept DEF CacheIsPartOfToc, Found, Nothing, IInv, MapsOK
<1>5. CASE \E isParam \in BOOLEAN : Convert(isParam)
  <2>1. UNCHANGED <<tocItems, cache, fetch, number, fwToc, flashes, fresh>>
    BY <1>5 DEF Convert
  <2> QED BY <2>1, FreshKept DEF CacheIsPartOfToc, Found, IInv, MapsOK
<1>6. CASE Flash
  BY <1>6 DEF Flash, FreshTable, CacheIsPartOfToc, Found, IInv, MapsOK
<1> QED BY <1>1, <1>2, <1>3, <1>4, <1>5, <1>6 DEF TocNext

\* A name that has not strayed from a fresh table has the number of the parameter that
\* bears it.
LEMMA NameFindsParam ==
  ASSUME IInv, fresh, ~strayed', NEW name \in Names \cup {Missing}, LookedUpId(name)
  PROVE  /\ name \in Names
         /\ \A id \in getItemId(name) :
              id \in Int /\ id + 1 \in DOMAIN fwToc /\ fwToc[id + 1].key = name
<1>1. name \in Names /\ ByName(name) # NoEntry
  BY DEF LookedUpId
<1>2. PICK i \in DOMAIN fwToc :
        fwToc[i].key = name /\ ByName(name) = [key |-> name, entry |-> Entry(i - 1)]
  BY <1>1, FreshByName
<1>3. i \in Nat /\ getItemId(name) = {i - 1}
  <2>1. Entry(i - 1)._id = i - 1 /\ i \in Nat
    BY FwItems DEF IInv, MapsOK
  <2> QED BY <1>1, <1>2, <2>1 DEF getItemId
<1>4. \A id \in getItemId(name) : id \in Int /\ id + 1 = i
  BY <1>3
<1> QED BY <1>1, <1>2, <1>4

\* A lookup of a number leaves the table alone.
LEMMA LookedUpIdStep ==
  ASSUME IInv, NEW name, LookedUpId(name)
  PROVE  /\ FreshTable' /\ CacheIsPartOfToc'
         /\ DOMAIN tocItems' = Names /\ DOMAIN cache' = Names /\ fwToc' \in FwTocs
         /\ (fetch \in Nat \cup {NotFetching, Info} /\ number \in Nat)'
         /\ fresh' = fresh
<1>1. /\ UNCHANGED <<tocItems, fetch, number, fwToc, fresh>>
      /\ cache' = cache \/ cache' = Cached(name)
  BY DEF LookedUpId
<1> QED BY <1>1, CachedIsPart, FreshKept DEF IInv, MapsOK

\* A write reaches the parameter of its name, or the table is not the Crazyflie's, or a
\* name has strayed.
LEMMA WriteStep ==
  ASSUME IInv, NEW name \in Names \cup {Missing}, NEW v \in Values, setParamByName(name, v)
  PROVE  IInv'
<1>1. LookedUpId(name)
  BY DEF setParamByName
<1>2. PICK id \in getItemId(name) :
        vals' = IF id + 1 \in DOMAIN fwToc THEN [vals EXCEPT ![fwToc[id + 1].key] = v] ELSE vals
  BY DEF setParamByName
<1>3. /\ wrote' = IF name \in Names /\ fresh THEN [wrote EXCEPT ![name] = v] ELSE wrote
      /\ DOMAIN vals = Names /\ DOMAIN wrote = Names
  BY DEF setParamByName, IInv, MapsOK
<1>4. DOMAIN vals' = Names /\ DOMAIN wrote' = Names
  BY <1>2, <1>3
<1>5. strayed => strayed'
  BY <1>1 DEF LookedUpId
<1>6. WrittenIsStored'
  <2> SUFFICES ASSUME fresh, ~strayed', NEW k \in Names, wrote'[k] # NoValue
               PROVE  vals'[k] = wrote'[k]
    BY <1>1, LookedUpIdStep DEF WrittenIsStored
  <2>1. name \in Names /\ id + 1 \in DOMAIN fwToc /\ fwToc[id + 1].key = name
    BY <1>1, <1>2, NameFindsParam
  <2>2. vals' = [vals EXCEPT ![name] = v] /\ wrote' = [wrote EXCEPT ![name] = v]
    BY <2>1, <1>2, <1>3
  <2> QED BY <2>1, <2>2, <1>3, <1>5 DEF IInv, WrittenIsStored
<1>7. Forgotten'
  BY <1>1, <1>3, LookedUpIdStep DEF IInv, Forgotten, NoWrites
<1> QED BY <1>1, <1>4, <1>6, <1>7, LookedUpIdStep DEF IInv, MapsOK

LEMMA ReadStep ==
  ASSUME IInv, NEW name \in Names \cup {Missing}, NEW as, getParamByName(name, as)
  PROVE  /\ IInv'
         /\ fresh /\ ~strayed' =>
              \A n \in DOMAIN fwToc :
                fwToc[n].key = res'.name /\ Suits(res'.as, to_string(Entry(n - 1)._type))
                  => res'.value = vals[res'.name]
<1>1. LookedUpId(name) /\ UNCHANGED <<vals, wrote>>
  BY DEF getParamByName
<1>2. strayed => strayed'
  BY <1>1 DEF LookedUpId
<1>3. IInv'
  BY <1>1, <1>2, LookedUpIdStep DEF IInv, MapsOK, WrittenIsStored, Forgotten, NoWrites
<1>4. ASSUME fresh, ~strayed', NEW n \in DOMAIN fwToc,
             fwToc[n].key = res'.name, Suits(res'.as, to_string(Entry(n - 1)._type))
      PROVE  res'.value = vals[res'.name]
  <2>1. PICK id \in getItemId(name), noise \in Values :
          res' = [name  |-> name,
                  as    |-> as,
                  value |-> IF id + 1 \in DOMAIN fwToc /\ Suits(as, to_string(Entry(id)._type))
                            THEN vals[fwToc[id + 1].key] ELSE noise]
    BY DEF getParamByName
  <2>2. id \in Int /\ id + 1 \in DOMAIN fwToc /\ fwToc[id + 1].key = name
    BY <1>1, <1>4, NameFindsParam
  <2>3. res'.name = name /\ res'.as = as
    BY <2>1
  <2>4. n = id + 1
    BY <1>4, <2>2, <2>3, TocAssumption DEF IInv, MapsOK
  <2>5. n - 1 = id
    BY <2>2, <2>4
  <2>6. res'.value = vals[fwToc[id + 1].key]
    BY <1>4, <2>1, <2>2, <2>3, <2>5
  <2> QED BY <2>2, <2>3, <2>6
<1> QED BY <1>3, <1>4

\* What was written is forgotten with the table it was written by.
LEMMA TocStepInv ==
  ASSUME IInv, TocStep
  PROVE  IInv'
<1>1. TocNext
  BY DEF TocStep
<1>2. /\ wrote' = IF fresh' THEN wrote ELSE NoWrites
      /\ strayed' = (strayed /\ fresh')
      /\ vals' \in IF flashes' = flashes THEN {vals} ELSE [Names -> Values]
  BY DEF TocStep
<1>3. fresh' => vals' = vals
  BY <1>1, <1>2, TableStep
<1>4. DOMAIN vals' = Names /\ DOMAIN wrote' = Names
  BY <1>2 DEF IInv, MapsOK, NoWrites
<1>5. Forgotten'
  BY <1>2 DEF Forgotten, NoWrites
<1>6. WrittenIsStored'
  <2> SUFFICES ASSUME fresh', ~strayed', NEW k \in Names, wrote'[k] # NoValue
               PROVE  vals'[k] = wrote'[k]
    BY DEF WrittenIsStored
  <2>1. wrote' = wrote /\ ~strayed
    BY <1>2
  <2>2. CASE fresh
    BY <2>1, <2>2, <1>3 DEF IInv, WrittenIsStored
  <2>3. CASE ~fresh
    BY <2>1, <2>3 DEF IInv, Forgotten, NoWrites
  <2> QED BY <2>2, <2>3
<1> QED BY <1>1, <1>4, <1>5, <1>6, TableStep DEF IInv, MapsOK

-----------------------------------------------------------------------------
(* The theorems.                                                           *)

LEMMA InitInv ==
  ASSUME ListingInit
  PROVE  IInv
BY DEF ListingInit, Init, TocInit, IInv, MapsOK, FreshTable, Forgotten, CacheIsPartOfToc,
   WrittenIsStored, Nothing, NoWrites, Found, NotFetching

\* Whatever is fetched, looked up, cleared, converted, read, written, listed or flashed
\* next, IInv holds again.
THEOREM ListingStepInv ==
  ASSUME IInv, [ListingNext]_listVars
  PROVE  IInv'
<1>1. CASE UNCHANGED vars
  BY <1>1 DEF vars, tocVars, IInv, MapsOK, FreshTable, Arrived, Entry, Forgotten,
     CacheIsPartOfToc, WrittenIsStored, Found, NoWrites
<1>2. CASE \E kind \in {"print", "values"} : list(kind)
  <2>1. UNCHANGED <<tocItems, cache, fetch, number, fwToc, flashes, fresh, vals, wrote, strayed>>
    BY <1>2 DEF list
  <2> QED BY <2>1 DEF IInv, MapsOK, FreshTable, Arrived, Entry, Forgotten,
        CacheIsPartOfToc, WrittenIsStored, Found, NoWrites
<1>3. CASE Calls
  BY <1>3, WriteStep, ReadStep DEF Calls
<1>4. CASE TocStep
  BY <1>4, TocStepInv
<1>5. listNext => UNCHANGED vars
  BY DEF listNext
<1> QED BY <1>1, <1>2, <1>3, <1>4, <1>5 DEF ListingNext, Next, listVars

\* What the cache holds under a name, the table holds.
THEOREM TocCacheIsPart == ListingSpec => []CacheIsPartOfToc
<1>1. IInv => CacheIsPartOfToc
  BY DEF IInv
<1> QED BY <1>1, InitInv, ListingStepInv, PTL DEF ListingSpec

\* Every lookup in a fresh table, by name or number, finds the Crazyflie's item.
THEOREM TocLookupsAgree == ListingSpec => []LookupsAgree
BY FreshLookups, InitInv, ListingStepInv, PTL DEF ListingSpec

\* A parameter holds what was last written under its name, in a table's time.
THEOREM ParamWrittenIsStored == ListingSpec => []WrittenIsStored
<1>1. IInv => WrittenIsStored
  BY DEF IInv
<1> QED BY <1>1, InitInv, ListingStepInv, PTL DEF ListingSpec

\* A read by name with the getter of the parameter's type gives that parameter's value.
THEOREM ParamReadIsNamed == ListingSpec => ReadIsNamed
<1>1. ASSUME IInv, [ListingNext]_listVars
      PROVE  [res' # NoEntry /\ fresh /\ ~strayed' =>
                \A n \in DOMAIN fwToc :
                  fwToc[n].key = res'.name /\ Suits(res'.as, to_string(Entry(n - 1)._type))
                    => res'.value = vals[res'.name]]_vars
  <2> SUFFICES ASSUME res' # NoEntry, fresh, ~strayed', ~UNCHANGED vars
               PROVE  \A n \in DOMAIN fwToc :
                        fwToc[n].key = res'.name /\ Suits(res'.as, to_string(Entry(n - 1)._type))
                          => res'.value = vals[res'.name]
    OBVIOUS
  <2>1. CASE \E name \in Names \union {Missing}, as \in Getters : getParamByName(name, as)
    BY <1>1, <2>1, ReadStep
  <2>2. CASE \E name \in Names \union {Missing}, v \in Values : setParamByName(name, v)
    BY <2>2 DEF setParamByName
  <2>3. CASE TocStep \/ (\E kind \in {"print", "values"} : list(kind))
    BY <2>3 DEF TocStep, list
  <2>4. CASE UNCHANGED vars
    BY <2>4 DEF vars
  <2> QED BY <1>1, <2>1, <2>2, <2>3, <2>4 DEF ListingNext, Next, Calls, listNext, listVars
<1> QED BY <1>1, InitInv, ListingStepInv, PTL DEF ListingSpec, ReadIsNamed
=============================================================================
