--------------------------------- MODULE Param ---------------------------------
(***************************************************************************)
(* Parameters by name (setParamByName and get...ByName of Crazyflie.h and  *)
(* Crazyflie.cpp) over the parameter TOC: the name is looked up in the     *)
(* library's table, and only its number goes over the link.                *)
(*                                                                         *)
(* A request and its answer are one step here: one client thread waits     *)
(* for each answer, and SendRecv says which answer it gets.                *)
(***************************************************************************)
EXTENDS Toc

CONSTANTS
  Values,    \* the values of a parameter
  NoValue,   \* no value
  Missing    \* a name that no Crazyflie has

ASSUME ParamAssumption == IsParam /\ Values # {} /\ NoValue \notin Values /\ Missing \notin Names

VARIABLES
  vals,      \* firmware: the value of each parameter, by name
  res,       \* what the last call returned, if it was a read: its name, the getter's type
             \* and the value
  wrote,     \* ghost: the values set by name in this table's time
  strayed    \* ghost: a name was used that the table does not have

vars == <<tocVars, vals, res, wrote, strayed>>

NoWrites == [k \in Names |-> NoValue]

\* The Crazyflie is there with its table; the library has not fetched it yet.
Init ==
  /\ TocInit
  /\ vals \in [Names -> Values] /\ res = NoEntry /\ wrote = NoWrites /\ strayed = FALSE

\* Mutated form: the number of the item found is one too high.
getItemIdNext(name) ==
  IF name \in Names /\ ByName(name) # NoEntry THEN {ByName(name).entry._id + 1} ELSE 0..MaxId + 1

\* getItemId: the numbers it may return.  For a name that is not there it reads the _id of
\* a TocItem() that nothing has set.
getItemId(name) ==
  IF name \in Names /\ ByName(name) # NoEntry THEN {ByName(name).entry._id} ELSE 0..MaxId + 1

LookedUpId(name) ==
  /\ Idle
  /\ cache' = IF name \in Names /\ ByName(name) # NoEntry THEN Cached(name) ELSE cache
  /\ strayed' = (strayed \/ name = Missing \/ ByName(name) = NoEntry)
  /\ held' = NoEntry /\ UNCHANGED <<tocItems, fetch, number, fwToc, flashes, fresh>>

\* The Crazyflie ignores a number that it does not have.  The value is of the parameter's
\* own type: the caller's template argument is taken to be the right one.
setParamByName(name, v) ==
  /\ LookedUpId(name)
  /\ \E id \in getItemId(name) :
       vals' = IF id + 1 \in DOMAIN fwToc THEN [vals EXCEPT ![fwToc[id + 1].key] = v] ELSE vals
  /\ wrote' = IF name \in Names /\ fresh THEN [wrote EXCEPT ![name] = v] ELSE wrote
  /\ res' = NoEntry

\* The types of the getters: getUIntByName and getFloatByName.
Getters == {"uint32", "float"}

\* A getter copies up to four bytes of the value into a uint32_t or a float, whatever the
\* parameter's type: these are the types whose own value it gives.
Suits(as, name) ==
  \/ as = "uint32" /\ name \in {"uint8_t", "uint16_t", "uint32_t"}
  \/ as = "float" /\ name = "float"

\* The result is some other value if the getter does not suit the type (for a signed, a
\* 64-bit, an FP16 or a double there is none), and what the rest of the packet happens to
\* hold if the Crazyflie does not have the number.
getParamByName(name, as) ==
  /\ LookedUpId(name)
  /\ \E id \in getItemId(name), noise \in Values :
       res' = [name  |-> name,
               as    |-> as,
               value |-> IF id + 1 \in DOMAIN fwToc /\ Suits(as, to_string(Entry(id)._type))
                         THEN vals[fwToc[id + 1].key] ELSE noise]
  /\ UNCHANGED <<vals, wrote>>

Calls ==
  \E name \in Names \union {Missing} :
    \/ \E v \in Values : setParamByName(name, v)
    \/ \E as \in Getters : getParamByName(name, as)

\* What was written before the table was cleared or the Crazyflie flashed is forgotten; a
\* flash also gives the parameters their new initial values.
TocStep ==
  /\ TocNext
  /\ wrote' = IF fresh' THEN wrote ELSE NoWrites
  /\ res' = NoEntry
  /\ strayed' = (strayed /\ fresh')
  /\ vals' \in IF flashes' = flashes THEN {vals} ELSE [Names -> Values]

Next == Calls \/ TocStep

Spec == Init /\ [][Next]_vars

-----------------------------------------------------------------------------

TypeOK ==
  /\ TocTypeOK
  /\ vals \in [Names -> Values] /\ wrote \in [Names -> Values \union {NoValue}]
  /\ res = NoEntry \/ res \in [name : Names \union {Missing}, as : Getters, value : Values]
  /\ strayed \in BOOLEAN

\* Only a number goes over the link, so a parameter holds what the client last set under
\* its name as long as the table is the Crazyflie's and every name that was used is in it:
\* one name that is not there may set any other parameter (Toc.cpp:293, Crazyflie.h:101).
WrittenIsStored ==
  fresh /\ ~strayed => \A k \in Names : wrote[k] # NoValue => vals[k] = wrote[k]

\* Under the same premises a read by name whose getter suits the parameter's own type
\* gives the value of that parameter and of no other (Crazyflie.cpp:23-31), whatever
\* lookups and clearings went before.
ReadIsNamed ==
  [][res' # NoEntry /\ fresh /\ ~strayed' =>
       \A n \in DOMAIN fwToc :
         fwToc[n].key = res'.name /\ Suits(res'.as, to_string(Entry(n - 1)._type))
           => res'.value = vals[res'.name]]_vars
=============================================================================
