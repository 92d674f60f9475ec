------------------------------ MODULE LuaJson ------------------------------
(***************************************************************************)
(* The conversions between Lua values and JSON behind the store,           *)
(* http.json and http.parse (sni-lua-api/src/lib.rs).                      *)
(*                                                                         *)
(* A Lua or JSON value is [type, val]: a table's val is a function from    *)
(* keys to the values that are not nil.  Two things are left to the VM:    *)
(* which border of a table with holes its length is, and in which order    *)
(* pairs visits the keys.  So LuaToJson gives the set of possible results. *)
(***************************************************************************)
EXTENDS Integers, Sequences, FiniteSets

Nil == [type |-> "nil", val |-> 0]
Bool(b) == [type |-> "boolean", val |-> b]
Integer(i) == [type |-> "integer", val |-> i]
NaN == [type |-> "number", val |-> "nan"]
Fraction == [type |-> "number", val |-> "1.5"]
String(s) == [type |-> "string", val |-> s]
Function == [type |-> "function", val |-> 0]
Table(f) == [type |-> "table", val |-> f]

\* A string that is not UTF-8, and what to_string_lossy makes of it.
RawString == String("\\xff")
Lossy(s) == IF s = "\\xff" THEN "U+FFFD" ELSE s

Json(type, content) == [type |-> type, val |-> content]
JsonNull == Json("null", 0)
Failed == Json("error", 0)

-----------------------------------------------------------------------------
(* lua_to_json                                                             *)

At(f, k) == IF k \in DOMAIN f THEN f[k] ELSE Nil

\* What the VM may answer for the length of a table.
RawLen(f) ==
  {n \in 0..(Cardinality(DOMAIN f) + 1) :
     /\ n > 0 => Integer(n) \in DOMAIN f
     /\ Integer(n + 1) \notin DOMAIN f}

\* Mutant of IsArray: a length is all it takes.
IsArrayByLength(f, len) == len > 0

\* A length, and no hole below it; keys beyond it or of another type are not
\* looked at.
IsArray(f, len) == len > 0 /\ \A i \in 1..len : Integer(i) \in DOMAIN f

Digits(i) == CASE i = 1 -> "1" [] i = 2 -> "2" [] i = 3 -> "3"

\* The JSON key of a table key; other keys are skipped.
Stringable(k) == k.type \in {"string", "integer", "number"}
KeyString(k) ==
  IF k.type = "string" THEN Lossy(k.val) ELSE IF k.type = "integer" THEN Digits(k.val) ELSE k.val

\* All choices of one element of each set; any failure fails the whole.
Selections(sets) ==
  {f \in [DOMAIN sets -> UNION {sets[i] : i \in DOMAIN sets}] :
     \A i \in DOMAIN sets : f[i] \in sets[i]}
Collect(kind, all) ==
  {IF \E i \in DOMAIN f : f[i] = Failed THEN Failed ELSE Json(kind, f) : f \in all}

RECURSIVE LuaToJson(_)
LuaToJson(x) ==
  LET f == x.val
      Element(i) == LuaToJson(At(f, Integer(i)))
      Member(s) == UNION {LuaToJson(f[k]) : k \in {k \in DOMAIN f : Stringable(k)
                                                                    /\ KeyString(k) = s}}
      keys == {KeyString(k) : k \in {k \in DOMAIN f : Stringable(k)}}
      broken == \E k \in DOMAIN f : Stringable(k) /\ Failed \in LuaToJson(f[k])
  IN  CASE x.type = "nil" -> {JsonNull}
        [] x.type \in {"boolean", "integer"} -> {Json(x.type, f)}
        [] x.type = "number" -> {IF x = NaN THEN JsonNull ELSE Json("number", f)}
        [] x.type = "string" -> {Json("string", Lossy(f))}
        [] x.type = "table" ->
             UNION {IF IsArray(f, len) THEN Collect("array", Selections([i \in 1..len |-> Element(i)]))
                    ELSE IF broken THEN {Failed}
                    ELSE Collect("object", Selections([s \in keys |-> Member(s)])) : len \in RawLen(f)}
        [] OTHER -> {Failed}

-----------------------------------------------------------------------------
(* json_to_lua: a null among the elements or members leaves its key unset. *)

RECURSIVE JsonToLua(_)
JsonToLua(x) ==
  LET KeyOf(i) == IF x.type = "array" THEN Integer(i) ELSE String(i)
      set == {i \in DOMAIN x.val : x.val[i] # JsonNull}
  IN  CASE x.type = "null" -> Nil
        [] x.type \in {"array", "object"} ->
             Table([k \in {KeyOf(i) : i \in set} |->
                      JsonToLua(x.val[CHOOSE i \in set : KeyOf(i) = k])])
        [] OTHER -> [type |-> x.type, val |-> x.val]

-----------------------------------------------------------------------------
\* What a value is to come back as: itself, with the keys of every table that
\* is not a list made strings.
IsList(f) == DOMAIN f # {} /\ DOMAIN f = {Integer(i) : i \in 1..Cardinality(DOMAIN f)}

RECURSIVE Stringified(_)
Stringified(x) ==
  IF x.type # "table" THEN x
  ELSE Table([k \in {IF IsList(x.val) THEN k ELSE String(KeyString(k)) : k \in DOMAIN x.val} |->
         Stringified(x.val[CHOOSE q \in DOMAIN x.val :
                           IF IsList(x.val) THEN q = k ELSE String(KeyString(q)) = k])])

\* Values the documentation calls JSON-able, written so that nothing is
\* ambiguous: finite numbers, text, keys that stay apart.
RECURSIVE Storable(_)
Storable(x) ==
  /\ x.type # "function" /\ x # NaN /\ x # RawString
  /\ x.type = "table" =>
       /\ \A k \in DOMAIN x.val : Stringable(k) /\ k # RawString /\ Storable(x.val[k])
       /\ \A k, q \in DOMAIN x.val : KeyString(k) = KeyString(q) => k = q

\* Every table of the value is a list or starts without one.
RECURSIVE Unmixed(_)
Unmixed(x) ==
  x.type = "table" =>
    /\ IsList(x.val) \/ Integer(1) \notin DOMAIN x.val
    /\ \A k \in DOMAIN x.val : Unmixed(x.val[k])
=============================================================================
