--------------------------- MODULE RuntimeValues ---------------------------
(***************************************************************************)
(* The values that flow along a plan's edges, and the pure functions of    *)
(* packages/runtime-core that route, transform and aggregate them.         *)
(*                                                                         *)
(* A value is a record tagged with its JSON type.  A path is the sequence  *)
(* of its keys and a condition a record of its parts; neither is parsed    *)
(* here.  Text is compared through TextLess, the order of JSON.stringify's *)
(* results.  A thrown error is the value Thrown(code).                     *)
(***************************************************************************)
EXTENDS Integers, Sequences, SequencesExt, FiniteSetsExt, Subsequences

CONSTANT TextLess(_, _)      \* String(a) < String(b), on non-numeric values

Undefined  == [t |-> "undefined"]
Null       == [t |-> "null"]
Bool(b)    == [t |-> "boolean", v |-> b]
Num(n)     == [t |-> "number", v |-> n]
Str(s)     == [t |-> "string", v |-> s]
Arr(s)     == [t |-> "array", v |-> s]
Thrown(c)  == [t |-> "thrown", v |-> c]

\* keys lists the object's keys in the order Object.values follows.
Obj(keys, f) == [t |-> "object", v |-> f, keys |-> keys]

IsObject(x) == x.t = "object"
IsArray(x)  == x.t = "array"
IsThrown(x) == x.t = "thrown"

\* x ?? Null
OrNull(x) == IF x.t = "undefined" THEN Null ELSE x

\* Boolean(x)
Truthy(x) ==
  CASE x.t \in {"undefined", "null"} -> FALSE
    [] x.t = "boolean" -> x.v
    [] x.t = "number"  -> x.v # 0
    [] x.t = "string"  -> x.v # ""
    [] OTHER -> TRUE

\* stableDigest sorts the keys of objects: two values have one digest iff they agree here.
\* Objects nested more than one level down keep their order, which no plan here reaches.
Unordered(x) == IF IsObject(x) THEN [t |-> "object", v |-> x.v] ELSE x
stableDigest(x) ==
  IF IsObject(x) THEN [t |-> "object", v |-> [k \in DOMAIN x.v |-> Unordered(x.v[k])]] ELSE x

----------------------------------------------------------------------------
(* Paths and conditions. *)

Step(x, key) ==
  CASE IsObject(x) /\ key \in DOMAIN x.v -> x.v[key]
    [] IsArray(x) /\ key \in DOMAIN x.v  -> x.v[key]
    [] OTHER -> Undefined

getPath(x, path) == FoldLeft(Step, x, path)

\* Object.fromEntries, a later entry of a key replacing the earlier one in its place.
FromEntries(entries) ==
  LET key == [i \in DOMAIN entries |-> entries[i][1]]
  IN Obj(Subsequence(key, Firsts(key)),
         [k \in {key[i] : i \in DOMAIN key} |-> entries[Max({i \in DOMAIN key : key[i] = k})][2]])

Entries(x) == IF IsObject(x) THEN [i \in DOMAIN x.keys |-> <<x.keys[i], x.v[x.keys[i]]>>] ELSE <<>>

\* Object.assign({}, ...xs): what is not an object contributes nothing.  Arrays and strings, of
\* which it copies the elements under their indexes, are left out; no plan here merges one.
Assign(xs) == FromEntries(FlattenSeq([i \in DOMAIN xs |-> Entries(xs[i])]))

\* No condition is op "always"; op "path" has no operator.
evaluateCondition(c, state) ==
  CASE c.op = "always" -> TRUE
    [] c.op = "path"   -> Truthy(getPath(state, c.path))
    [] c.op = "=="     -> getPath(state, c.path) = c.expected
    [] c.op = "!="     -> getPath(state, c.path) # c.expected

----------------------------------------------------------------------------
(* transformValue *)

\* input.filter with the set of digests seen: the first item of every digest stays.
deduplicate(xs, path) ==
  Subsequence(xs, Firsts([i \in DOMAIN xs |-> stableDigest(OrNull(getPath(xs[i], path)))]))

\* The comparator: numbers by value, anything else as text.
Compare(a, b) ==
  IF a.t = "number" /\ b.t = "number"
  THEN IF a.v < b.v THEN -1 ELSE IF a.v > b.v THEN 1 ELSE 0
  ELSE IF TextLess(OrNull(a), OrNull(b)) THEN -1 ELSE IF TextLess(OrNull(b), OrNull(a)) THEN 1 ELSE 0

\* Array.prototype.toSorted is stable: an item stands behind those it follows and, of those the
\* comparator calls equal to it, behind the earlier ones.
sort(xs, path, direction) ==
  LET order(i, j) == Compare(getPath(xs[i], path), getPath(xs[j], path)) * direction
      upTo(i) == {j \in DOMAIN xs : order(j, i) < 0 \/ (order(j, i) = 0 /\ j <= i)}
  IN [k \in DOMAIN xs |-> xs[CHOOSE i \in DOMAIN xs : Cardinality(upTo(i)) = k]]

\* Array.prototype.slice: a negative index counts from the end, and both are clamped.
Clamp(i, n) == IF i < 0 THEN Max({n + i, 0}) ELSE Min({i, n})
slice(xs, start, end) == SubSeq(xs, Clamp(start, Len(xs)) + 1, Clamp(end, Len(xs)))

\* A configuration has every field: path is <<>>, start 0 and end the length where the code's
\* has none.  Slicing a string is left out; no plan here does it.
transformValue(config, x) ==
  CASE config.operation = "identity" -> x
    [] config.operation = "select"   -> getPath(x, config.path)
    [] config.operation = "project"  ->
         FromEntries([i \in DOMAIN config.fields |-> <<config.fields[i], getPath(x, <<config.fields[i]>>)>>])
    [] config.operation = "merge"    -> Assign(IF IsArray(x) THEN x.v ELSE <<x>>)
    [] config.operation = "deduplicate" ->
         IF IsArray(x) THEN Arr(deduplicate(x.v, config.path)) ELSE Thrown("deduplicate_array_required")
    [] config.operation = "sort" ->
         IF IsArray(x) THEN Arr(sort(x.v, config.path, IF config.direction = "desc" THEN -1 ELSE 1))
         ELSE Thrown("sort_array_required")
    [] config.operation = "slice" ->
         IF IsArray(x) THEN Arr(slice(x.v, config.start, config.end)) ELSE Thrown("slice_sequence_required")
    [] OTHER -> Thrown("transform_unsupported")

----------------------------------------------------------------------------
(* aggregateValue *)

collectedValues(x) ==
  IF IsArray(x) THEN x.v
  ELSE IF IsObject(x) THEN [i \in DOMAIN x.keys |-> x.v[x.keys[i]]]
  ELSE <<x>>

Ballot(xs, path, i) == stableDigest(OrNull(getPath(xs[i], path)))
Count(xs, path, i)  == Cardinality({j \in DOMAIN xs : Ballot(xs, path, j) = Ballot(xs, path, i)})

\* Mutant: the comparator's operands are swapped.
preferredFewer(xs, path, i, j) ==
  LET m == Count(xs, path, i)
      n == Count(xs, path, j)
  IN m < n \/ (m = n /\ i <= j)

\* The comparator of vote: b.count - a.count || a.first - b.first.
preferred(xs, path, i, j) ==
  LET m == Count(xs, path, i)
      n == Count(xs, path, j)
  IN m > n \/ (m = n /\ i <= j)

\* An entry stands at the index of its first ballot.
vote(xs, path) ==
  LET first == Firsts([i \in DOMAIN xs |-> Ballot(xs, path, i)])
  IN IF xs = <<>> THEN Null
     ELSE LET won == CHOOSE i \in first : \A j \in first : i = j \/ preferred(xs, path, i, j)
          IN OrNull(getPath(xs[won], path))

aggregateValue(config, x) ==
  LET xs == collectedValues(x) IN
  CASE config.operation = "collect" -> Arr(xs)
    [] config.operation = "merge" ->
         IF \A i \in DOMAIN xs : IsObject(xs[i]) THEN Assign(xs) ELSE Thrown("merge_objects_required")
    [] config.operation = "concat" ->
         IF \A i \in DOMAIN xs : IsArray(xs[i]) THEN Arr(FlattenSeq([i \in DOMAIN xs |-> xs[i].v]))
         ELSE Thrown("concat_arrays_required")
    [] config.operation = "vote" -> vote(xs, config.path)
    [] OTHER -> Thrown("aggregator_unsupported")
============================================================================
