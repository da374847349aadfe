------------------------------ MODULE ParamListing ------------------------------
(***************************************************************************)
(* The listings of the parameters with their values (printParamToc,        *)
(* csvParamToc and getTocAndValues of Crazyflie.cpp) over Param: the items *)
(* of the table are copied and sorted by number, and then the value of     *)
(* each is asked for, one request after the other.                         *)
(*                                                                         *)
(* The client thread does nothing else meanwhile, but the Crazyflie may be *)
(* flashed.  A value that is read in a way that does not suit its type is  *)
(* any value.                                                              *)
(***************************************************************************)
EXTENDS Param, SequencesExt

VARIABLES
  listing, \* "print" (printParamToc and csvParamToc) or "values" (getTocAndValues)
  todo,    \* the items whose values have not been asked for; <<>> outside a listing
  rows     \* the items and values listed so far; a finished list is dropped with the
           \* client's next other call

listVars == <<vars, listing, todo, rows>>

ListingInit == Init /\ listing = "print" /\ todo = <<>> /\ rows = <<>>

-----------------------------------------------------------------------------

\* Mutated form: the items stay in the order of the map.
UnsortedItems(map) == {SetToSortSeq({Held(map, k) : k \in {k \in Names : Found(map, k)}},
                                    LAMBDA x, y : x.key < y.key)}

\* getAllTocItems and getAllCachedTocItems: the items of a map by number.  Items of one
\* number, which an outdated table may have, are in any order.
AllItems(map) ==
  {s \in SetToSeqs({Held(map, k) : k \in {k \in Names : Found(map, k)}}) :
     \A i, j \in DOMAIN s : i < j => s[i].entry._id <= s[j].entry._id}

\* The type names with "int" in them.
IntTypes == {"uint8_t", "uint16_t", "uint32_t", "uint64_t",
             "int8_t", "int16_t", "int32_t", "int64_t"}

\* How a listing reads the values of a type: 32 bits of an integer or of a float, or not
\* at all; line 135 makes a float of a uint32_t.  An unknown type prints as whatever lies
\* behind "? " in memory (Toc.cpp:122).
Readings(kind, name) ==
  CASE name = Unknown                         -> {"uint32", "float", "none"}
    [] kind = "print" /\ name \in IntTypes     -> {"uint32"}
    [] kind = "values" /\ name = "uint32_t"    -> {"converted"}
    [] name = "float"                         -> {"float"}
    [] OTHER -> IF kind = "print" THEN {"float"} ELSE {"none"}

-----------------------------------------------------------------------------

list(kind) ==
  /\ Idle /\ todo = <<>>
  /\ listing' = kind /\ todo' \in AllItems(tocItems) /\ rows' = <<>>
  /\ held' = NoEntry /\ res' = NoEntry
  /\ UNCHANGED <<tocItems, cache, fetch, number, fwToc, flashes, fresh, vals, wrote, strayed>>

\* The value of the next item, by its number.
listNext ==
  /\ todo # <<>> /\ todo' = Tail(todo)
  /\ LET item == Head(todo)
         name == to_string(item.entry._type)
         pos  == item.entry._id + 1
     IN  \E as \in Readings(listing, name), noise \in Values :
           rows' = Append(rows, [item |-> item, value |->
             IF Suits(as, name) /\ pos \in DOMAIN fwToc
             THEN vals[fwToc[pos].key] ELSE noise])
  /\ UNCHANGED <<vars, listing>>

ListingNext ==
  \/ \E kind \in {"print", "values"} : list(kind)
  \/ listNext
  \/ /\ Next /\ todo = <<>>
     /\ rows' = <<>> /\ UNCHANGED <<listing, todo>>
  \/ /\ TocStep /\ flashes' # flashes /\ todo # <<>>
     /\ UNCHANGED <<listing, todo, rows>>

ListingSpec == ListingInit /\ [][ListingNext]_listVars

-----------------------------------------------------------------------------

\* "save the TOC with values" (Crazyflie.cpp:54): a listing of a table that is the
\* Crazyflie's has its items by number, each with its own type and access, and in the end
\* it has all of them.  The values are the items' own for a float and, where it is printed
\* or saved, for an unsigned integer of up to 32 bits: for these types only.
RowsAreOfTheirItems ==
  fresh =>
    /\ todo = <<>> /\ rows # <<>> => Len(rows) = Len(fwToc)
    /\ \A n \in DOMAIN rows :
         LET key  == fwToc[n].key
             type == to_string(rows[n].item.entry._type)
         IN  /\ rows[n].item = [key |-> key, entry |-> Entry(n - 1)]
             /\ type = "float"
                  \/ (listing = "print" /\ type \in {"uint8_t", "uint16_t", "uint32_t"})
                => rows[n].value = vals[key]
=============================================================================
