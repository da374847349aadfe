----------------------------- MODULE ListingProofs -----------------------------
(***************************************************************************)
(* Types and listings are right for every table a firmware may have, any   *)
(* number of fetches and flashes, and every order of operations.           *)
(*                                                                         *)
(* What a lookup takes is the least of a set of numbers, and a listing is  *)
(* the sorted sequence of a set of items.  Both rest on LeastNatural; that *)
(* the i-th item of a sorted listing is the Crazyflie's i-th is shown by   *)
(* the least place where it is not.                                        *)
(***************************************************************************)
EXTENDS TocProofs, FiniteSetTheorems, WellFoundedInduction

-----------------------------------------------------------------------------
(* Least elements.                                                         *)

\* The order of the numbers as a relation.
Below == OpToRel(<, Nat)

\* A nonempty set of numbers has a least element, which is the one Min chooses: the walk
\* of a map in the order of its keys meets it first.
LEMMA LeastNatural ==
  ASSUME NEW S, S \subseteq Nat, S # {}
  PROVE  Min(S) \in S /\ \A n \in S : Min(S) <= n
<1>1. \A m, n \in Nat : m < n => <<m, n>> \in Below
  BY DEF Below, OpToRel
<1>2. IsWellFoundedOn(Below, Nat)
  BY NatLessThanWellFounded DEF Below
<1>3. PICK m \in S : \A n \in S : <<n, m>> \notin Below
  BY <1>2, WFMin
<1>4. ASSUME NEW n \in S PROVE m <= n
  <2>1. m \in Nat /\ n \in Nat /\ <<n, m>> \notin Below
    BY <1>3
  <2>2. ~(n < m)
    BY <1>1, <2>1
  <2> QED BY <2>1, <2>2
<1> QED BY <1>4 DEF Min

\* The positions of a sequence of n items.
LEMMA Positions ==
  ASSUME NEW n \in Nat
  PROVE  IsFiniteSet(1..n) /\ Cardinality(1..n) = n
<1>1. 1 \in Int /\ n \in Int
  OBVIOUS
<1>2. /\ IsFiniteSet(1..n)
      /\ Cardinality(1..n) = (IF 1 > n THEN 0 ELSE n - 1 + 1)
  BY <1>1, FS_Interval
<1> QED BY <1>2

-----------------------------------------------------------------------------
(* Types of items.                                                         *)

\* No two bytes of a table have one name, and no byte of a table is unknown.
LEMMA TableInjective ==
  ASSUME NEW p \in BOOLEAN
  PROVE  /\ DOMAIN Table(p) \subseteq Bytes
         /\ \A c \in DOMAIN Table(p) :
              /\ Table(p)[c] # Unknown
              /\ \A d \in DOMAIN Table(p) : Table(p)[c] = Table(p)[d] => c = d
<1>1. CASE p
  <2>1. DOMAIN PARAM_TYPES = {c \in Bytes : ParamType(c) # Unknown}
        /\ \A c \in DOMAIN PARAM_TYPES : PARAM_TYPES[c] = ParamType(c)
    BY DEF PARAM_TYPES
  <2>2. \A c, d \in Bytes : ParamType(c) # Unknown /\ ParamType(c) = ParamType(d) => c = d
    BY DEF Bytes, ParamType, Unknown
  <2> QED BY <1>1, <2>1, <2>2 DEF Table
<1>2. CASE ~p
  <2>1. DOMAIN LOG_TYPES = {c \in Bytes : LogType(c) # Unknown}
        /\ \A c \in DOMAIN LOG_TYPES : LOG_TYPES[c] = LogType(c)
    BY DEF LOG_TYPES
  <2>2. \A c, d \in Bytes : LogType(c) # Unknown /\ LogType(c) = LogType(d) => c = d
    BY DEF Bytes, LogType, Unknown
  <2> QED BY <1>2, <2>1, <2>2 DEF Table
<1> QED BY <1>1, <1>2

\* The fields of a type, whichever of them is replaced.
LEMMA TypeFields ==
  ASSUME NEW t \in TocItemTypes, NEW p \in BOOLEAN
  PROVE  /\ t._type \in Bytes /\ t._isParam \in BOOLEAN
         /\ t = [_type |-> t._type, _isParam |-> t._isParam]
         /\ [t EXCEPT !._isParam = p] = [_type |-> t._type, _isParam |-> p]
         /\ \A c \in Bytes : /\ [_type |-> c, _isParam |-> p] \in TocItemTypes
                             /\ [t EXCEPT !._type = c] = [_type |-> c, _isParam |-> t._isParam]
BY DEF TocItemTypes

\* Assigning a name that the table has gives the byte of that name, and no other.
LEMMA AssignName ==
  ASSUME NEW t \in TocItemTypes, NEW name
  PROVE  /\ Assign(t, name) \in TocItemTypes
         /\ Assign(t, name)._isParam = t._isParam
         /\ \A c \in DOMAIN Table(t._isParam) :
              Table(t._isParam)[c] = name =>
                Assign(t, name) = [_type |-> c, _isParam |-> t._isParam]
<1> DEFINE p == t._isParam
<1>1. /\ p \in BOOLEAN /\ DOMAIN Table(p) \subseteq Bytes
      /\ \A c, d \in DOMAIN Table(p) : Table(p)[c] = Table(p)[d] => c = d
  BY TypeFields, TableInjective
<1>2. CASE \E c \in DOMAIN Table(p) : Table(p)[c] = name
  <2> DEFINE byte == CHOOSE c \in DOMAIN Table(p) : Table(p)[c] = name
  <2>1. byte \in DOMAIN Table(p) /\ Table(p)[byte] = name
    BY <1>2
  <2>2. Assign(t, name) = [t EXCEPT !._type = byte]
    BY <1>2 DEF Assign
  <2> HIDE DEF byte
  <2>3. Assign(t, name) = [_type |-> byte, _isParam |-> p] /\ Assign(t, name) \in TocItemTypes
    BY <1>1, <2>1, <2>2 DEF TocItemTypes
  <2> QED BY <1>1, <2>1, <2>3
<1>3. CASE ~(\E c \in DOMAIN Table(p) : Table(p)[c] = name)
  <2>1. Assign(t, name) = t
    BY <1>3 DEF Assign
  <2> QED BY <1>3, <2>1
<1> QED BY <1>2, <1>3

\* A conversion gives a type of the other table, and of the same name if both tables have it.
LEMMA Conversion ==
  ASSUME NEW t \in TocItemTypes, NEW p \in BOOLEAN
  PROVE  /\ setIsParam(t, p) \in TocItemTypes
         /\ KnownToBoth(t) =>
              /\ to_string(setIsParam(t, p)) = to_string(t)
              /\ setIsParam(setIsParam(t, p), t._isParam) = t
<1>1. CASE t._isParam = p
  BY <1>1 DEF setIsParam
<1>2. CASE t._isParam # p
  <2> DEFINE u == [t EXCEPT !._isParam = p]
             name == to_string(t)
  <2>1. u \in TocItemTypes /\ u._isParam = p /\ t._isParam \in BOOLEAN
    BY DEF TocItemTypes
  <2>2. setIsParam(t, p) = Assign(u, name)
    BY <1>2 DEF setIsParam
  <2> HIDE DEF u, name
  <2>3. Assign(u, name) \in TocItemTypes
    BY <2>1, AssignName
  <2>4. ASSUME KnownToBoth(t)
        PROVE  /\ to_string(setIsParam(t, p)) = name
               /\ setIsParam(setIsParam(t, p), t._isParam) = t
    <3>1. PICK c \in DOMAIN Table(p) : Table(p)[c] = name
      BY <2>4 DEF KnownToBoth, name
    <3>2. PICK d \in DOMAIN Table(t._isParam) : Table(t._isParam)[d] = name
      BY <2>1, <2>4 DEF KnownToBoth, name
    <3> DEFINE v == [_type |-> c, _isParam |-> p]
    <3>3. setIsParam(t, p) = v
      BY <2>1, <2>2, <3>1, AssignName
    <3>4. v \in TocItemTypes /\ v._type = c /\ v._isParam = p
      BY TableInjective, TypeFields
    <3>5. t._type = d
      <4>1. t._type \in DOMAIN Table(t._isParam)
        BY <2>1, <3>2, TableInjective DEF name, to_string
      <4>2. Table(t._isParam)[t._type] = name
        BY <4>1 DEF name, to_string
      <4> QED BY <2>1, <3>2, <4>1, <4>2, TableInjective
    <3> HIDE DEF v
    <3>6. to_string(v) = name
      BY <3>1, <3>4 DEF to_string
    <3> DEFINE w == [v EXCEPT !._isParam = t._isParam]
    <3>7. w \in TocItemTypes /\ w._isParam = t._isParam
      BY <2>1, <3>4 DEF TocItemTypes
    <3>8. setIsParam(v, t._isParam) = Assign(w, name)
      BY <1>2, <3>4, <3>6 DEF setIsParam
    <3> HIDE DEF w
    <3>9. Assign(w, name) = [_type |-> d, _isParam |-> t._isParam]
      BY <3>2, <3>7, AssignName
    <3> QED BY <3>3, <3>5, <3>6, <3>8, <3>9, TypeFields
  <2> QED BY <2>2, <2>3, <2>4 DEF name
<1> QED BY <1>1, <1>2

Items == [key : Names, entry : Entries]

\* The item that a lookup returns, by name or number, is an item of one of the maps.
LEMMA LookupTypes ==
  ASSUME TocTypeOK
  PROVE  /\ \A k \in Names : ByName(k) = NoEntry \/ ByName(k) \in Items
         /\ \A i : ById(i) = NoEntry \/ ById(i) \in Items
<1>1. ASSUME NEW map \in [Names -> Entries \union {NoEntry}], NEW k \in Names, map[k] # NoEntry
      PROVE  Held(map, k) \in Items
  BY <1>1 DEF Held, Items
<1>2. /\ tocItems \in [Names -> Entries \union {NoEntry}]
      /\ cache \in [Names -> Entries \union {NoEntry}]
  BY DEF TocTypeOK
<1>3. ASSUME NEW k \in Names PROVE ByName(k) = NoEntry \/ ByName(k) \in Items
  BY <1>1, <1>2 DEF ByName, Found
<1>4. ASSUME NEW i PROVE ById(i) = NoEntry \/ ById(i) \in Items
  <2>1. ASSUME NEW map \in [Names -> Entries \union {NoEntry}], WithId(map, i) # {}
        PROVE  Held(map, Min(WithId(map, i))) \in Items
    <3>1. WithId(map, i) \subseteq Nat
      BY TocAssumption DEF WithId
    <3>2. Min(WithId(map, i)) \in WithId(map, i)
      BY <2>1, <3>1, LeastNatural
    <3> QED BY <1>1, <3>2 DEF WithId, Found
  <2> QED BY <1>2, <2>1 DEF ById
<1> QED BY <1>3, <1>4

\* What a lookup leaves in the cache.
LEMMA CachedType ==
  ASSUME TocTypeOK, NEW k \in Names
  PROVE  Cached(k) \in [Names -> Entries \union {NoEntry}]
BY DEF TocTypeOK, Cached

\* The fetch asks for the items of the Crazyflie's table only.
LEMMA FetchTypes ==
  ASSUME TocTypeOK, initToc \/ GotInfo \/ GotItem
  PROVE  TocTypeOK'
<1>1. /\ Len(fwToc) \in Nat /\ DOMAIN fwToc = 1..Len(fwToc)
      /\ \A i \in DOMAIN fwToc : fwToc[i].key \in Names /\ Entry(i - 1) \in Entries
  BY FwItems DEF TocTypeOK
<1>2. CASE initToc
  BY <1>2 DEF TocTypeOK, initToc, Info, NotFetching
<1>3. CASE GotInfo
  BY <1>1, <1>3 DEF TocTypeOK, GotInfo, Fetched, Info, NotFetching
<1>4. CASE GotItem
  <2> DEFINE k == fwToc[fetch + 1].key
  <2>1. /\ fetch \in Nat /\ number \in Nat /\ fetch < number /\ number = Len(fwToc)
        /\ UNCHANGED <<number, cache, held, fwToc, flashes, fresh>>
        /\ fetch' = IF fetch + 1 < number THEN fetch + 1 ELSE NotFetching
        /\ tocItems' = [tocItems EXCEPT ![k] = IF @ = NoEntry THEN Entry(fetch) ELSE @]
    BY <1>4 DEF TocTypeOK, GotItem, Fetched, NotFetching, Info
  <2>2. k \in Names /\ Entry(fetch) \in Entries
    <3>1. PICK i \in DOMAIN fwToc : i = fetch + 1 /\ i - 1 = fetch
      BY <1>1, <2>1
    <3> QED BY <1>1, <3>1
  <2> HIDE DEF k
  <2>3. tocItems' \in [Names -> Entries \union {NoEntry}]
    BY <2>1, <2>2 DEF TocTypeOK
  <2>4. /\ fetch' \in Nat \union {NotFetching, Info}
        /\ fetch' >= 0 => fetch' < number'
    BY <2>1 DEF NotFetching, Info
  <2> QED BY <2>1, <2>3, <2>4 DEF TocTypeOK
<1> QED BY <1>2, <1>3, <1>4

\* A step of the table keeps the types.
LEMMA TableTypes ==
  ASSUME TocTypeOK, TocNext
  PROVE  TocTypeOK'
<1>1. CASE Lookups
  <2>1. ASSUME NEW item, item = NoEntry \/ item \in Items, NEW caching \in BOOLEAN,
               LookedUp(item, caching)
        PROVE  TocTypeOK'
    <3>1. item # NoEntry => item.key \in Names
      BY <2>1 DEF Items
    <3>2. cache' \in [Names -> Entries \union {NoEntry}]
      BY <2>1, <3>1, CachedType DEF LookedUp, TocTypeOK
    <3> QED BY <2>1, <3>2 DEF LookedUp, TocTypeOK, Items
  <2>2. ASSUME NEW k \in Names, NEW caching \in BOOLEAN, getItem(k, caching) PROVE TocTypeOK'
    BY <2>1, <2>2, LookupTypes DEF getItem
  <2>3. ASSUME NEW i, NEW caching \in BOOLEAN, getItemById(i, caching) PROVE TocTypeOK'
    BY <2>1, <2>3, LookupTypes DEF getItemById
  <2> QED BY <1>1, <2>2, <2>3 DEF Lookups
<1>2. ASSUME NEW p \in BOOLEAN, Convert(p) PROVE TocTypeOK'
  <2> DEFINE t == setIsParam(held.entry._type, p)
  <2>1. held' = [held EXCEPT !.entry._type = t] /\ held \in Items
        /\ UNCHANGED <<tocItems, cache, fetch, number, fwToc, flashes, fresh>>
    BY <1>2 DEF Convert, TocTypeOK, Items
  <2>2. held.entry \in Entries /\ held.entry._type \in TocItemTypes
    BY <2>1 DEF Items, Entries
  <2>3. t \in TocItemTypes
    BY <2>2, Conversion
  <2> HIDE DEF t
  <2>4. held' \in Items
    BY <2>1, <2>2, <2>3 DEF Items, Entries
  <2> QED BY <2>1, <2>4 DEF TocTypeOK, Items
<1>3. CASE clearCache \/ clearToc
  BY <1>3 DEF clearCache, clearToc, TocTypeOK, Nothing
<1>4. CASE Flash
  <2>1. flashes' \in 0..MaxFlash
    BY <1>4, TocAssumption DEF Flash, TocTypeOK
  <2>2. fetch' = NotFetching /\ ~(fetch' >= 0)
    BY <1>4 DEF Flash, Idle, NotFetching
  <2> QED BY <1>4, <2>1, <2>2 DEF Flash, TocTypeOK
<1> QED BY <1>1, <1>2, <1>3, <1>4, FetchTypes DEF TocNext

\* A call by name returns a value of the right type, also if the number that it sends is
\* any number.
LEMMA CallTypes ==
  ASSUME TypeOK, Calls
  PROVE  TypeOK'
<1>1. /\ \A i \in DOMAIN fwToc : fwToc[i].key \in Names
      /\ vals \in [Names -> Values] /\ TocTypeOK
  BY FwItems DEF TypeOK, TocTypeOK
<1>2. PICK name \in Names \union {Missing} :
        \/ \E v \in Values : setParamByName(name, v)
        \/ \E as \in Getters : getParamByName(name, as)
  BY DEF Calls
<1>3. LookedUpId(name)
  BY <1>2 DEF setParamByName, getParamByName
<1>4. TocTypeOK' /\ strayed' \in BOOLEAN
  <2>1. cache' \in [Names -> Entries \union {NoEntry}]
    BY <1>1, <1>3, CachedType DEF LookedUpId, TocTypeOK
  <2>2. strayed' \in BOOLEAN
    BY <1>3 DEF LookedUpId
  <2> QED BY <1>1, <1>3, <2>1, <2>2 DEF LookedUpId, TocTypeOK
<1>5. CASE \E v \in Values : setParamByName(name, v)
  <2>1. PICK v \in Values, id \in getItemId(name) :
          /\ vals' = IF id + 1 \in DOMAIN fwToc THEN [vals EXCEPT ![fwToc[id + 1].key] = v] ELSE vals
          /\ wrote' = IF name \in Names /\ fresh THEN [wrote EXCEPT ![name] = v] ELSE wrote
          /\ res' = NoEntry
    BY <1>5 DEF setParamByName
  <2>2. vals' \in [Names -> Values] /\ wrote' \in [Names -> Values \union {NoValue}]
    BY <1>1, <2>1 DEF TypeOK
  <2> QED BY <1>4, <2>1, <2>2 DEF TypeOK
<1>6. CASE \E as \in Getters : getParamByName(name, as)
  <2>1. PICK as \in Getters, id \in getItemId(name), noise \in Values :
          /\ res' = [name  |-> name,
                     as    |-> as,
                     value |-> IF id + 1 \in DOMAIN fwToc /\ Suits(as, to_string(Entry(id)._type))
                               THEN vals[fwToc[id + 1].key] ELSE noise]
          /\ UNCHANGED <<vals, wrote>>
    BY <1>6 DEF getParamByName
  <2>2. res' \in [name : Names \union {Missing}, as : Getters, value : Values]
    BY <1>1, <2>1
  <2> QED BY <1>4, <2>1, <2>2 DEF TypeOK
<1> QED BY <1>2, <1>5, <1>6

\* Before the first fetch the maps are empty.
LEMMA InitTypes ==
  ASSUME ListingInit
  PROVE  TypeOK
<1>1. TocTypeOK
  <2>1. fetch = NotFetching /\ ~(fetch >= 0) /\ flashes \in 0..MaxFlash
    BY TocAssumption DEF ListingInit, Init, TocInit, NotFetching
  <2> QED BY <2>1 DEF ListingInit, Init, TocInit, TocTypeOK, Nothing
<1> QED BY <1>1 DEF ListingInit, Init, TypeOK, NoWrites

\* The types are kept whatever is called, fetched, listed or flashed.
LEMMA StepTypes ==
  ASSUME TypeOK, [ListingNext]_listVars
  PROVE  TypeOK'
<1>1. CASE UNCHANGED vars
  BY <1>1 DEF vars, tocVars, TypeOK, TocTypeOK
<1>2. CASE \E kind \in {"print", "values"} : list(kind)
  BY <1>2 DEF list, TypeOK, TocTypeOK
<1>3. CASE TocStep
  <2>1. TocTypeOK'
    BY <1>3, TableTypes DEF TocStep, TypeOK
  <2>2. vals' \in [Names -> Values] /\ wrote' \in [Names -> Values \union {NoValue}]
    BY <1>3 DEF TocStep, TypeOK, NoWrites
  <2>3. strayed' \in BOOLEAN /\ res' = NoEntry
    BY <1>3 DEF TocStep
  <2> QED BY <2>1, <2>2, <2>3 DEF TypeOK
<1>4. listNext => UNCHANGED vars
  BY DEF listNext
<1> QED BY <1>1, <1>2, <1>3, <1>4, CallTypes DEF ListingNext, Next, listVars

\* The maps, the values and what a call returns are of their types, for every table and
\* every number that a lookup by number may find twice.
THEOREM ParamTypeOK == ListingSpec => []TypeOK
BY InitTypes, StepTypes, PTL DEF ListingSpec

\* A conversion keeps the name of a type that both tables have, and converting back gives
\* the byte it was.
THEOREM TocConversionKeepsType == ListingSpec => ConversionKeepsType
<1>1. ASSUME TypeOK, NEW p \in BOOLEAN, Convert(p), KnownToBoth(held.entry._type)
      PROVE  /\ to_string(held'.entry._type) = to_string(held.entry._type)
             /\ setIsParam(held'.entry._type, held.entry._type._isParam) = held.entry._type
  <2> DEFINE t == setIsParam(held.entry._type, p)
  <2>1. held' = [held EXCEPT !.entry._type = t] /\ held \in Items
    BY <1>1 DEF Convert, TypeOK, TocTypeOK, Items
  <2>2. held.entry \in Entries /\ held.entry._type \in TocItemTypes
    BY <2>1 DEF Items, Entries
  <2>3. /\ to_string(t) = to_string(held.entry._type)
        /\ setIsParam(t, held.entry._type._isParam) = held.entry._type
    BY <1>1, <2>2, Conversion
  <2> HIDE DEF t
  <2>4. held'.entry._type = t
    BY <2>1, <2>2 DEF Items, Entries
  <2> QED BY <2>3, <2>4
<1>2. TypeOK => [\A isParam \in BOOLEAN :
                   Convert(isParam) /\ KnownToBoth(held.entry._type) =>
                     /\ to_string(held'.entry._type) = to_string(held.entry._type)
                     /\ setIsParam(held'.entry._type, held.entry._type._isParam)
                          = held.entry._type]_tocVars
  BY <1>1
<1> QED BY <1>2, InitTypes, StepTypes, PTL DEF ListingSpec, ConversionKeepsType

-----------------------------------------------------------------------------
(* Listings.                                                               *)

\* The item of the Crazyflie at a position of its table.
Item(i) == [key |-> fwToc[i].key, entry |-> Entry(i - 1)]

\* The Crazyflie's items differ in their numbers, and follow them.
LEMMA ItemNumbers ==
  ASSUME fwToc \in FwTocs
  PROVE  /\ Len(fwToc) \in Nat
         /\ \A i \in 1..Len(fwToc) : Item(i) \in Items /\ Item(i).entry._id = i - 1
         /\ \A i, j \in 1..Len(fwToc) : Item(i) = Item(j) => i = j
<1>1. /\ Len(fwToc) \in Nat /\ DOMAIN fwToc = 1..Len(fwToc)
      /\ \A i \in DOMAIN fwToc :
           /\ fwToc[i].key \in Names /\ Entry(i - 1)._id = i - 1 /\ Entry(i - 1) \in Entries
           /\ \A j \in DOMAIN fwToc : fwToc[i].key = fwToc[j].key => i = j
  BY FwItems
<1>2. \A i : Item(i).key = fwToc[i].key /\ Item(i).entry = Entry(i - 1)
  BY DEF Item
<1>3. \A i \in 1..Len(fwToc) : Item(i) \in Items
  BY <1>1 DEF Item, Items
<1>4. \A i \in 1..Len(fwToc) : Item(i).entry._id = i - 1
  BY <1>1, <1>2
<1>5. \A i, j \in 1..Len(fwToc) : Item(i) = Item(j) => i = j
  <2> SUFFICES ASSUME NEW i \in 1..Len(fwToc), NEW j \in 1..Len(fwToc), Item(i) = Item(j)
               PROVE  i = j
    OBVIOUS
  <2>1. fwToc[i].key = fwToc[j].key
    BY <1>2
  <2> QED BY <1>1, <2>1
<1> QED BY <1>1, <1>3, <1>4, <1>5

\* A fresh table that has been fetched to its end has the Crazyflie's items, as many as
\* there are.
LEMMA FreshItems ==
  ASSUME IInv, fresh, Idle
  PROVE  LET S == {Held(tocItems, k) : k \in {k \in Names : Found(tocItems, k)}}
         IN  /\ S = {Item(i) : i \in 1..Len(fwToc)}
             /\ IsFiniteSet(S) /\ Cardinality(S) = Len(fwToc)
<1> DEFINE S == {Held(tocItems, k) : k \in {k \in Names : Found(tocItems, k)}}
           N == Len(fwToc)
<1>1. /\ N \in Nat /\ DOMAIN fwToc = 1..N /\ fwToc \in FwTocs
      /\ \A i \in 1..N : fwToc[i].key \in Names /\ Entry(i - 1) # NoEntry
      /\ \A i \in 1..N : tocItems[fwToc[i].key] = Entry(i - 1)
      /\ \A k \in Names : tocItems[k] # NoEntry =>
           \E i \in 1..N : fwToc[i].key = k /\ tocItems[k] = Entry(i - 1)
  <2>1. fwToc \in FwTocs
    BY DEF IInv, MapsOK
  <2>2. N \in Nat /\ DOMAIN fwToc = 1..N
    BY <2>1, FwItems
  <2>3. \A i \in 1..N : fwToc[i].key \in Names /\ Entry(i - 1) \in Entries
    BY <2>1, <2>2, FwItems
  <2>4. \A i \in 1..N : Entry(i - 1) # NoEntry
    BY <2>3, TocAssumption
  <2>5. \A i \in DOMAIN fwToc : Arrived(i)
    BY DEF Arrived, Idle, NotFetching, Info
  <2>6. \A i \in 1..N : tocItems[fwToc[i].key] = Entry(i - 1)
    BY <2>2, <2>5 DEF IInv, FreshTable
  <2>7. \A k \in Names : tocItems[k] # NoEntry =>
           \E i \in 1..N : fwToc[i].key = k /\ tocItems[k] = Entry(i - 1)
    BY <2>2, <2>6 DEF IInv, FreshTable
  <2> QED BY <2>1, <2>2, <2>3, <2>4, <2>6, <2>7
<1>2. \A i \in 1..N : Item(i) \in S
  BY <1>1 DEF Item, Held, Found
<1>3. \A x \in S : \E i \in 1..N : x = Item(i)
  BY <1>1 DEF Item, Held, Found
<1> HIDE DEF S
<1>4. S = {Item(i) : i \in 1..N}
  BY <1>2, <1>3
<1> DEFINE f == [i \in 1..N |-> Item(i)]
<1>5. f \in Bijection(1..N, S)
  <2>1. f \in [1..N -> S]
    BY <1>2
  <2>2. \A i, j \in 1..N : f[i] = f[j] => i = j
    BY <1>1, ItemNumbers
  <2>3. \A x \in S : \E i \in 1..N : f[i] = x
    BY <1>3
  <2> QED BY <2>1, <2>2, <2>3 DEF Bijection, Injection, Surjection, IsInjective
<1>6. ExistsBijection(1..N, S)
  BY <1>5 DEF ExistsBijection
<1>7. IsFiniteSet(S) /\ Cardinality(S) = N
  BY <1>1, <1>6, FS_NatBijection, FS_CountingElements
<1> QED BY <1>4, <1>7 DEF S

\* Sorted by number, the items of such a table are those of the Crazyflie one by one: the
\* first one out of place would leave no place for the item that belongs there.
LEMMA SortedItems ==
  ASSUME IInv, fresh, Idle, NEW s \in AllItems(tocItems)
  PROVE  /\ s \in Seq(Items) /\ Len(s) = Len(fwToc)
         /\ \A i \in 1..Len(fwToc) : s[i] = Item(i)
<1> DEFINE S == {Held(tocItems, k) : k \in {k \in Names : Found(tocItems, k)}}
           N == Len(fwToc)
<1>1. /\ S = {Item(i) : i \in 1..N} /\ IsFiniteSet(S) /\ Cardinality(S) = N
      /\ N \in Nat /\ fwToc \in FwTocs
  BY FreshItems, ItemNumbers DEF IInv, MapsOK
<1>2. /\ s \in [1..N -> S]
      /\ \A i, j \in 1..N : i # j => s[i] # s[j]
      /\ \A i, j \in 1..N : i < j => s[i].entry._id <= s[j].entry._id
  BY <1>1 DEF AllItems, SetToSeqs
<1> HIDE DEF S
<1>3. /\ \A i \in 1..N : Item(i) \in Items /\ Item(i).entry._id = i - 1
      /\ \A i, j \in 1..N : Item(i) = Item(j) => i = j
  BY <1>1, ItemNumbers
<1>4. \A x \in S : \E i \in 1..N : s[i] = x
  <2>1. s \in Injection(1..N, S)
    BY <1>2 DEF Injection, IsInjective
  <2>2. IsFiniteSet(1..N) /\ Cardinality(1..N) = N
    BY <1>1, Positions
  <2>3. s \in Surjection(1..N, S)
    BY <1>1, <2>1, <2>2, FS_Injection
  <2> QED BY <2>3 DEF Surjection
<1>5. \A i \in 1..N : s[i] = Item(i)
  <2> DEFINE Wrong == {i \in 1..N : s[i] # Item(i)}
             m == Min(Wrong)
  <2> SUFFICES ASSUME Wrong # {} PROVE FALSE
    OBVIOUS
  <2>1. m \in Wrong /\ \A i \in Wrong : m <= i
    <3>1. Wrong \subseteq Nat
      OBVIOUS
    <3> HIDE DEF Wrong
    <3> QED BY <3>1, LeastNatural
  <2> HIDE DEF m
  <2>2. /\ m \in 1..N /\ s[m] # Item(m)
        /\ \A i \in 1..N : i < m => s[i] = Item(i)
    BY <1>1, <2>1
  <2> HIDE DEF Wrong
  <2>3. PICK j \in 1..N : s[m] = Item(j)
    BY <1>1, <1>2, <2>2
  <2>4. PICK k \in 1..N : s[k] = Item(m)
    BY <1>1, <1>4, <2>2
  <2>5. k > m
    <3>1. k # m
      BY <2>2, <2>4
    <3>2. ~(k < m)
      BY <1>3, <2>2, <2>4
    <3> QED BY <3>1, <3>2, <2>2
  <2>6. j - 1 <= m - 1
    BY <1>2, <1>3, <2>2, <2>3, <2>4, <2>5
  <2>7. j # m
    BY <2>2, <2>3
  <2>8. j < m
    BY <2>2, <2>6, <2>7
  <2>9. s[j] = s[m]
    BY <2>2, <2>3, <2>8
  <2> QED BY <1>2, <2>2, <2>7, <2>9
<1>6. s \in Seq(Items) /\ Len(s) = N
  <2>1. s \in [1..N -> Items]
    BY <1>2, <1>3, <1>5
  <2> QED BY <1>1, <2>1
<1> QED BY <1>5, <1>6

\* The rows of a listing.
Rows == [item : Items, value : Values]

\* A row is of the item at its place, with the item's value where the listing reads it right.
RowOK(n) ==
  LET type == to_string(rows[n].item.entry._type)
  IN  /\ rows[n].item = Item(n)
      /\ type = "float"
           \/ (listing = "print" /\ type \in {"uint8_t", "uint16_t", "uint32_t"})
         => rows[n].value = vals[fwToc[n].key]

\* What has been listed of a fresh table, and what is left to list, are together the
\* Crazyflie's items in their order.
Listed ==
  fresh =>
    /\ todo \in Seq(Items) /\ rows \in Seq(Rows)
    /\ \A n \in 1..Len(rows) : RowOK(n)
    /\ todo # <<>> \/ rows # <<>> => Len(rows) + Len(todo) = Len(fwToc)
    /\ \A n \in 1..Len(todo) : todo[n] = Item(Len(rows) + n)

LInv == IInv /\ TypeOK /\ Listed

\* A listing begins with all items to list.
LEMMA ListListed ==
  ASSUME LInv, NEW kind \in {"print", "values"}, list(kind)
  PROVE  Listed'
<1> SUFFICES ASSUME fresh PROVE Listed'
  BY DEF list, Listed
<1>1. /\ Idle /\ todo' \in AllItems(tocItems) /\ rows' = <<>>
      /\ UNCHANGED <<fwToc, fresh, vals>>
  BY DEF list
<1>2. /\ todo' \in Seq(Items) /\ Len(todo') = Len(fwToc)
      /\ \A i \in 1..Len(fwToc) : todo'[i] = Item(i)
  BY <1>1, SortedItems DEF LInv
<1>3. rows' \in Seq(Rows) /\ Len(rows') = 0
  BY <1>1
<1>4. Len(fwToc) \in Nat /\ \A n : Item(n)' = Item(n)
  BY <1>1, FwItems DEF LInv, IInv, MapsOK, Item, Entry
<1> QED BY <1>1, <1>2, <1>3, <1>4 DEF Listed

\* The next value is asked for by the number of its item, which is its place.
LEMMA NextListed ==
  ASSUME LInv, listNext
  PROVE  Listed'
<1> SUFFICES ASSUME fresh PROVE Listed'
  BY DEF listNext, vars, tocVars, Listed
<1>1. /\ todo # <<>> /\ todo' = Tail(todo)
      /\ UNCHANGED <<fwToc, fresh, vals, listing>>
      /\ todo \in Seq(Items) /\ rows \in Seq(Rows)
      /\ Len(rows) + Len(todo) = Len(fwToc)
      /\ \A n \in 1..Len(todo) : todo[n] = Item(Len(rows) + n)
      /\ \A n \in 1..Len(rows) : RowOK(n)
  BY DEF listNext, vars, tocVars, LInv, Listed
<1>a. PICK n \in Nat : n = Len(rows) + 1
  BY <1>1, LenProperties
<1> DEFINE type == to_string(Item(n).entry._type)
<1>2. /\ Len(rows) \in Nat /\ Len(todo) \in Nat /\ Len(todo) >= 1
      /\ Head(todo) = Item(n)
      /\ Tail(todo) \in Seq(Items) /\ Len(Tail(todo)) = Len(todo) - 1
      /\ \A i \in 1..(Len(todo) - 1) : Tail(todo)[i] = todo[i + 1]
  <2>1. Len(rows) \in Nat /\ Len(todo) \in Nat /\ Len(todo) >= 1 /\ Head(todo) = todo[1]
    BY <1>1, LenProperties, EmptySeq, HeadTailProperties
  <2> QED BY <1>1, <1>a, <2>1, HeadTailProperties
<1>3. /\ n \in 1..Len(fwToc) /\ n \in DOMAIN fwToc /\ Item(n) \in Items
      /\ Item(n).entry._id + 1 = n /\ fwToc[n].key \in Names
  <2>1. n \in 1..Len(fwToc)
    BY <1>1, <1>a, <1>2
  <2> QED BY <2>1, FwItems, ItemNumbers DEF LInv, IInv, MapsOK
<1>4. PICK as \in Readings(listing, type), noise \in Values :
        rows' = Append(rows, [item |-> Item(n), value |->
          IF Suits(as, type) THEN vals[fwToc[n].key] ELSE noise])
  BY <1>2, <1>3 DEF listNext
<1> DEFINE row == [item  |-> Item(n),
                   value |-> IF Suits(as, type) THEN vals[fwToc[n].key] ELSE noise]
<1>5. row \in Rows /\ row.item = Item(n)
      /\ (Suits(as, type) => row.value = vals[fwToc[n].key])
  BY <1>3 DEF Rows, LInv, TypeOK
<1>6. type = "float" \/ (listing = "print" /\ type \in {"uint8_t", "uint16_t", "uint32_t"})
        => Suits(as, type)
  <2>1. ASSUME type = "float" PROVE as = "float"
    BY <1>4, <2>1 DEF Readings, Unknown, IntTypes
  <2>2. ASSUME listing = "print", type \in {"uint8_t", "uint16_t", "uint32_t"} PROVE as = "uint32"
    BY <1>4, <2>2 DEF Readings, Unknown, IntTypes
  <2> QED BY <2>1, <2>2 DEF Suits
<1> HIDE DEF row
<1>7. /\ rows' \in Seq(Rows) /\ Len(rows') = n /\ rows'[n] = row
      /\ \A i \in 1..Len(rows) : rows'[i] = rows[i]
  BY <1>1, <1>a, <1>4, <1>5, AppendProperties DEF row
<1>8. \A i : Item(i)' = Item(i)
  BY <1>1 DEF Item, Entry
<1>9. \A i \in 1..Len(rows') : RowOK(i)'
  <2>1. \A i \in 1..Len(rows) : RowOK(i)'
    BY <1>1, <1>7, <1>8 DEF RowOK
  <2>2. RowOK(n)'
    BY <1>1, <1>5, <1>6, <1>7, <1>8 DEF RowOK
  <2> QED BY <1>a, <1>2, <1>7, <2>1, <2>2
<1>10. \A i \in 1..Len(todo') : todo'[i] = Item(Len(rows') + i)
  BY <1>1, <1>a, <1>2, <1>7
<1> QED BY <1>1, <1>a, <1>2, <1>7, <1>8, <1>9, <1>10 DEF Listed

\* A row stays right and a listing goes on, or the table is not the Crazyflie's any more.
LEMMA StepLInv ==
  ASSUME LInv, [ListingNext]_listVars
  PROVE  LInv'
<1>1. IInv' /\ TypeOK'
  BY ListingStepInv, StepTypes DEF LInv
<1>2. CASE \E kind \in {"print", "values"} : list(kind)
  BY <1>1, <1>2, ListListed DEF LInv
<1>3. CASE listNext
  BY <1>1, <1>3, NextListed DEF LInv
<1>4. CASE Next /\ todo = <<>> /\ rows' = <<>> /\ UNCHANGED <<listing, todo>>
  <2>1. /\ <<>> \in Seq(Items) /\ <<>> \in Seq(Rows) /\ Len(<<>>) = 0
    OBVIOUS
  <2>2. Listed'
    BY <1>4, <2>1 DEF Listed
  <2> QED BY <1>1, <2>2 DEF LInv
<1>5. CASE TocStep /\ flashes' # flashes
  <2>1. ~fresh'
    BY <1>5, TableStep DEF LInv, TocStep
  <2> QED BY <1>1, <2>1 DEF LInv, Listed
<1>6. CASE UNCHANGED listVars
  <2>1. UNCHANGED <<todo, rows, listing, fwToc, fresh, vals>>
    BY <1>6 DEF listVars, vars, tocVars
  <2>2. Listed'
    BY <2>1 DEF LInv, Listed, RowOK, Item, Entry
  <2> QED BY <1>1, <2>2 DEF LInv
<1> QED BY <1>2, <1>3, <1>4, <1>5, <1>6 DEF ListingNext

\* Every listing of a fresh table has the Crazyflie's items in the order of their numbers,
\* and the values that it reads right are the items' own.
THEOREM ListingRows == ListingSpec => []RowsAreOfTheirItems
<1>1. ListingInit => LInv
  <2>1. /\ <<>> \in Seq(Items) /\ <<>> \in Seq(Rows) /\ Len(<<>>) = 0
    OBVIOUS
  <2>2. ListingInit => Listed
    BY <2>1 DEF ListingInit, Listed
  <2> QED BY <2>2, InitInv, InitTypes DEF LInv
<1>2. LInv => RowsAreOfTheirItems
  <2> SUFFICES ASSUME LInv, fresh PROVE RowsAreOfTheirItems
    BY DEF RowsAreOfTheirItems
  <2>1. /\ rows \in Seq(Rows) /\ DOMAIN rows = 1..Len(rows) /\ Len(rows) \in Nat
        /\ \A n \in 1..Len(rows) : RowOK(n)
    BY LenProperties DEF LInv, Listed
  <2>2. todo = <<>> /\ rows # <<>> => Len(rows) = Len(fwToc)
    BY <2>1 DEF LInv, Listed
  <2> QED BY <2>1, <2>2 DEF RowsAreOfTheirItems, RowOK, Item
<1>3. LInv /\ [ListingNext]_listVars => LInv'
  BY StepLInv
<1> QED BY <1>1, <1>2, <1>3, PTL DEF ListingSpec
=============================================================================
