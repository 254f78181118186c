------------------------------- MODULE JsonPatch -------------------------------
(***************************************************************************)
(* JSON Patch and JSON Merge Patch: patch_inplace with its operations,     *)
(* diff, and merge_patch.  The names of operations and members are         *)
(* constants; a patch is a JSON value.                                     *)
(***************************************************************************)
EXTENDS JsonPointer

CONSTANTS
  Keyword           \* the texts "op", "path", "value", "from", "add", ...

-----------------------------------------------------------------------------
(* The operations: the document afterwards, or Throw.                      *)

\* The document with the parent of what ptr refers to replaced.
Placed(doc, ptr, parent) ==
  IF IsThrow(parent) THEN Throw ELSE Assign(doc, PopBack(ptr), parent)

\* Add before an index, after the last element, or under a key.
AddTo(parent, token, val) ==
  CASE parent.type = "null" \/ IsObject(parent) -> StoreMember(parent, token, val)
    [] IsArray(parent) ->
         IF token = Hyphen THEN PushBack(parent, val)
         ELSE IF ArrayIndex(token) \notin 0..Size(parent) THEN Throw
         ELSE InsertElement(parent, ArrayIndex(token), val)
    [] OTHER -> Throw     \* JSON_ASSERT(false)

\* The first look at top_pointer, the first token alone, throws only where the
\* parent, which lies behind it, is missing too.
OperationAdd(doc, ptr, val) ==
  IF ~HasParent(ptr) THEN val
  ELSE Placed(doc, ptr, AddTo(At(doc, PopBack(ptr)), BackToken(ptr), val))

\* A parent that is neither object nor array stays as it is.
RemoveFrom(parent, token) ==
  CASE IsObject(parent) ->
         IF HasMember(parent, token) THEN EraseAt(parent, FindKey(parent, token)) ELSE Throw
    [] IsArray(parent) ->
         IF ArrayIndex(token) = BadIndex THEN Throw ELSE EraseIndex(parent, ArrayIndex(token))
    [] OTHER -> parent

OperationRemove(doc, ptr) ==
  IF ~HasParent(ptr) THEN Throw
  ELSE Placed(doc, ptr, RemoveFrom(At(doc, PopBack(ptr)), BackToken(ptr)))

OperationReplace(doc, ptr, val) ==
  IF IsThrow(At(doc, ptr)) THEN Throw ELSE Assign(doc, ptr, val)

\* v, which was read at from, is added to what is left; a copy leaves all.
AddCopy(rest, ptr, v) ==
  IF IsThrow(v) \/ IsThrow(rest) THEN Throw ELSE OperationAdd(rest, ptr, v)

OperationMove(doc, ptr, from) == AddCopy(OperationRemove(doc, from), ptr, At(doc, from))
OperationCopy(doc, ptr, from) == AddCopy(doc, ptr, At(doc, from))

OperationTest(doc, ptr, val) ==
  LET v == At(doc, ptr) IN IF IsThrow(v) \/ ~Equal(v, val) THEN Throw ELSE doc

-----------------------------------------------------------------------------
(* patch_inplace                                                           *)

\* get_value: a member that must be there, and be a text where it is read as
\* one.
GetValue(val, member) ==
  IF Keyword[member] \in DOMAIN val.map THEN val.map[Keyword[member]] ELSE Throw
GetPointer(val, member) ==
  LET v == GetValue(val, member) IN IF IsString(v) THEN Split(v.text) ELSE NoPointer

Operations == {"add", "remove", "replace", "move", "copy", "test"}

\* get_op
GetOp(val) ==
  LET v == GetValue(val, "op")
      named == {o \in Operations : IsString(v) /\ v.text = Keyword[o]}
  IN IF named = {} THEN "invalid" ELSE CHOOSE o \in named : TRUE

\* The switch over the operations; each reads only the members it needs.
Perform(doc, op, ptr, from, value) ==
  CASE op \in {"add", "replace", "test"} /\ IsThrow(value) -> Throw
    [] op \in {"move", "copy"} /\ from = NoPointer -> Throw
    [] op = "add" -> OperationAdd(doc, ptr, value)
    [] op = "remove" -> OperationRemove(doc, ptr)
    [] op = "replace" -> OperationReplace(doc, ptr, value)
    [] op = "move" -> OperationMove(doc, ptr, from)
    [] op = "copy" -> OperationCopy(doc, ptr, from)
    [] op = "test" -> OperationTest(doc, ptr, value)

ApplyOne(doc, val) ==
  IF IsThrow(doc) \/ ~IsObject(val) THEN Throw
  ELSE IF GetOp(val) = "invalid" \/ GetPointer(val, "path") = NoPointer THEN Throw
  ELSE Perform(doc, GetOp(val), GetPointer(val, "path"), GetPointer(val, "from"),
               GetValue(val, "value"))

\* patch works on a copy.
Patch(doc, patch) ==
  IF ~IsArray(patch) THEN Throw ELSE FoldLeft(ApplyOne, doc, patch.items)

-----------------------------------------------------------------------------
(* diff                                                                    *)

Entry(op, path) == [w \in {Keyword["op"], Keyword["path"]} |->
                      Text(IF w = Keyword["op"] THEN Keyword[op] ELSE path)]
EntryWith(op, path, v) == With(Entry(op, path), Keyword["value"], v)

\* Faulty variant: removes the tail from its first element on, and every
\* removal would shift the indices of the next ones.
RemovalsForwards(path, from, to) ==
  [n \in 1..(to - from) |->
     Object(Entry("remove", path \o <<Slash>> \o DumpInteger(from + n - 1)))]

\* The elements from..to-1 of an array are removed from the last one on.
Removals(path, from, to) ==
  [n \in 1..(to - from) |->
     Object(Entry("remove", path \o <<Slash>> \o DumpInteger(to - n)))]

RECURSIVE Changes(_, _, _)
Changes(source, target, path) ==
  IF Equal(source, target) THEN <<>>
  ELSE IF source.type # target.type \/ IsPrimitive(source)
    THEN <<Object(EntryWith("replace", path, target))>>
  ELSE IF IsArray(source) THEN
    LET s == Size(source)
        t == Size(target)
        common == IF s < t THEN s ELSE t
    IN FlattenSeq([i \in 1..common |->
         Changes(source.items[i], target.items[i], path \o <<Slash>> \o DumpInteger(i - 1))])
       \o Removals(path, common, s)
       \o [n \in 1..(t - common) |->
             Object(EntryWith("add", path \o <<Slash>> \o Hyphen, target.items[common + n]))]
  ELSE
    LET PathOf(key) == path \o <<Slash>> \o Escape(key)
        old == Keys(source.map)
        new == SelectSeq(Keys(target.map), LAMBDA key : CountKey(source, key) = 0)
    IN FlattenSeq([n \in DOMAIN old |->
         IF HasMember(target, old[n])
           THEN Changes(source.map[old[n]], target.map[old[n]], PathOf(old[n]))
           ELSE <<Object(Entry("remove", PathOf(old[n])))>>])
       \o [n \in DOMAIN new |->
             Object(EntryWith("add", PathOf(new[n]), target.map[new[n]]))]

Diff(source, target) == Array(Changes(source, target, <<>>))

-----------------------------------------------------------------------------
(* merge_patch: a null removes a member, an object is merged into it.      *)

RECURSIVE MergePatch(_, _)
MergePatch(v, patch) ==
  LET base == IF IsObject(v) THEN v ELSE EmptyObject
      Merge(o, key) ==
        IF patch.map[key].type = "null" THEN EraseKey(o, key)
        ELSE LET opened == Opened(o, key)
             IN Object(With(opened.map, key, MergePatch(opened.map[key], patch.map[key])))
  IN IF ~IsObject(patch) THEN patch ELSE FoldLeft(Merge, base, Keys(patch.map))
=============================================================================
