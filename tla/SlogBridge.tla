----------------------------- MODULE SlogBridge -----------------------------
(***************************************************************************)
(* logging.NewSlogHandler: the tree of slog handlers the MCP SDK derives   *)
(* from the one handler it is given, and the fields a record gets in each. *)
(* A handler's attributes are a Go slice, a length and a place in the      *)
(* heap, which handlers share when WithGroup copies the slice header.      *)
(***************************************************************************)
EXTENDS Integers, Sequences, SequencesExt

CONSTANTS
  Attrs,       \* attributes: sequences of leaves, see LeafType
  Groups,      \* group names
  MaxHandlers  \* bound of the model

(* A leaf of an attribute: a group-valued attribute is flattened into its  *)
(* leaves, each with its path; a plain one has a path of one key.          *)
LeafType == [path : Seq(STRING), value : STRING]

VARIABLES
  heap,      \* arrays of attrEntry
  handlers,  \* [array, len, groups] of each handler, the root first
  ops        \* history: what SDK calls made each handler

vars == <<heap, handlers, ops>>

AttrsOf(h) == SubSeq(heap[h.array], 1, h.len)

Init ==
  /\ heap = <<<<>>>>
  /\ handlers = <<[array |-> 1, len |-> 0, groups |-> <<>>]>>
  /\ ops = <<<<>>>>

Derived(i, op) == ops' = Append(ops, Append(ops[i], op))

WithAttrsInPlace(i, a) ==
  LET h == handlers[i]
      entry == [attr |-> a, groups |-> h.groups]
  IN /\ heap' = [heap EXCEPT ![h.array] = Append(AttrsOf(h), entry)]
     /\ handlers' = Append(handlers, [h EXCEPT !.len = @ + 1])
     /\ Derived(i, [attrs |-> a, group |-> ""])

(* A new array, the entry bound to the groups open now. *)
WithAttrs(i, a) ==
  LET h == handlers[i]
      entry == [attr |-> a, groups |-> h.groups]
  IN /\ heap' = Append(heap, Append(AttrsOf(h), entry))
     /\ handlers' = Append(handlers, [array |-> Len(heap) + 1, len |-> h.len + 1,
                                       groups |-> h.groups])
     /\ Derived(i, [attrs |-> a, group |-> ""])

(* The array is shared, the groups are copied; slog asks with "" for no    *)
(* group, and gets the handler itself.                                     *)
WithGroup(i, g) ==
  /\ handlers' = Append(handlers, IF g = "" THEN handlers[i]
                                  ELSE [handlers[i] EXCEPT !.groups = Append(@, g)])
  /\ Derived(i, [attrs |-> <<>>, group |-> g])
  /\ UNCHANGED heap

Next ==
  /\ Len(handlers) < MaxHandlers
  /\ \E i \in DOMAIN handlers :
       \/ \E a \in Attrs : WithAttrs(i, a)
       \/ \E g \in Groups \cup {""} : WithGroup(i, g)

Spec == Init /\ [][Next]_vars

-----------------------------------------------------------------------------
(* appendAttr: the fields an attribute writes, one after the other. *)
Flatten(a, groups) ==
  [k \in DOMAIN a |-> [key |-> groups \o a[k].path, value |-> a[k].value]]

(* The map a sequence of writes leaves: the last one wins. *)
LastWins(writes) ==
  [key \in {writes[k].key : k \in DOMAIN writes} |->
     writes[SelectLastInSeq(writes, LAMBDA w : w.key = key)].value]

LevelField(level) == [key |-> <<"slog_level">>, value |-> level]

Bound(h) == [k \in 1..h.len |-> Flatten(AttrsOf(h)[k].attr, AttrsOf(h)[k].groups)]

(* Handle: the handler's attributes, the record's own in the open groups,  *)
(* the level last.                                                         *)
Fields(i, a, level) ==
  LastWins(FlattenSeq(Bound(handlers[i])) \o Flatten(a, handlers[i].groups)
             \o <<LevelField(level)>>)

-----------------------------------------------------------------------------
(* What slog asks of a handler, from the calls that made it: an attribute  *)
(* is in the groups opened before it, and in no other.                     *)
OpenGroups(calls) ==
  LET open[k \in 0..Len(calls)] ==
        IF k = 0 THEN <<>>
        ELSE IF calls[k].group = "" THEN open[k - 1]
        ELSE Append(open[k - 1], calls[k].group)
  IN open

Given(calls) == [k \in DOMAIN calls |-> Flatten(calls[k].attrs, OpenGroups(calls)[k])]

Promised(calls, a, level) ==
  LastWins(FlattenSeq(Given(calls)) \o Flatten(a, OpenGroups(calls)[Len(calls)])
             \o <<LevelField(level)>>)

(* "attributes added before a group must not be prefixed by it"            *)
(* (slog.go:28): every handler logs exactly the fields the calls that made *)
(* it stand for, whatever was derived from it, or from its parents, since  *)
(* (WithAttrs, WithGroup, Handle).                                         *)
FieldsAsDerived ==
  \A i \in DOMAIN handlers : \A a \in Attrs \cup {<<>>} :
    Fields(i, a, "INFO") = Promised(ops[i], a, "INFO")
=============================================================================
