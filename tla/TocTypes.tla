-------------------------------- MODULE TocTypes --------------------------------
(***************************************************************************)
(* TocItemType of Toc.h and Toc.cpp: the type of a TOC item is a byte that *)
(* means one thing in the parameter TOC and another in the log TOC.        *)
(***************************************************************************)
EXTENDS Naturals

Bytes == 0..255

\* What an unknown byte prints as; no type has this name.
Unknown == "?"

ParamType(c) ==
  CASE c = 8 -> "uint8_t" [] c = 9 -> "uint16_t" [] c = 10 -> "uint32_t"
    [] c = 11 -> "uint64_t" [] c = 0 -> "int8_t" [] c = 1 -> "int16_t"
    [] c = 2 -> "int32_t" [] c = 3 -> "int64_t" [] c = 5 -> "FP16"
    [] c = 6 -> "float" [] c = 7 -> "double" [] OTHER -> Unknown

LogType(c) ==
  CASE c = 1 -> "uint8_t" [] c = 2 -> "uint16_t" [] c = 3 -> "uint32_t"
    [] c = 4 -> "int8_t" [] c = 5 -> "int16_t" [] c = 6 -> "int32_t"
    [] c = 7 -> "float" [] c = 8 -> "FP16" [] OTHER -> Unknown

PARAM_TYPES == [c \in {c \in Bytes : ParamType(c) # Unknown} |-> ParamType(c)]
LOG_TYPES   == [c \in {c \in Bytes : LogType(c) # Unknown} |-> LogType(c)]

Table(isParam) == IF isParam THEN PARAM_TYPES ELSE LOG_TYPES

TocItemTypes == [_type : Bytes, _isParam : BOOLEAN]

to_string(t) ==
  IF t._type \in DOMAIN Table(t._isParam) THEN Table(t._isParam)[t._type] ELSE Unknown

\* The bytes a value takes in a packet; 64-bit types have no size.
size(t) ==
  LET name == to_string(t)
  IN  IF name \in {"uint8_t", "int8_t"} THEN 1
      ELSE IF name \in {"uint16_t", "int16_t", "FP16"} THEN 2
      ELSE IF name \in {"uint32_t", "int32_t", "float"} THEN 4 ELSE 0

\* operator=(string): the byte of that name; a name that is not in the table leaves
\* the byte as it is.
Assign(t, name) ==
  IF \E c \in DOMAIN Table(t._isParam) : Table(t._isParam)[c] = name
  THEN [t EXCEPT !._type = CHOOSE c \in DOMAIN Table(t._isParam) : Table(t._isParam)[c] = name]
  ELSE t

\* Mutated form: the name is looked up after _isParam has changed.
setIsParamLate(t, isParam) ==
  LET u == [t EXCEPT !._isParam = isParam]
  IN  IF t._isParam = isParam THEN t ELSE Assign(u, to_string(u))

\* The byte of the same name in the other table.
setIsParam(t, isParam) ==
  IF t._isParam = isParam THEN t ELSE Assign([t EXCEPT !._isParam = isParam], to_string(t))
=============================================================================
