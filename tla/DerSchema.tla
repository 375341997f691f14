----------------------------- MODULE DerSchema ------------------------------
(***************************************************************************)
(* ASN.1 schemas over DER (src/tlv/src/builtins/asn1/der_schema.c,          *)
(* src/tlv/src/schema/constraint.c): the check of a definition, the reader  *)
(* with its stack of frames, and the writer, which composes every element   *)
(* in a bump-allocated arena.                                               *)
(*                                                                          *)
(* A definition D maps names of types to types, so that sharing and         *)
(* recursion are as in the graph of pointers.  A type is a record with its  *)
(* kind, number, components, element, min, max, ext and constraint; a       *)
(* component has type, tagging, class, number, presence and default, the    *)
(* bytes of its default encoding.  The reader's error offsets and the       *)
(* definition locations of the check are left out; the writer's offsets are  *)
(* kept, because they decide nothing else and are hard to get right.         *)
(***************************************************************************)
EXTENDS Canonical

CONSTANTS
  NoType,              \* the NULL pointer of a component's type or of an element
  DerMaxTypes,         \* TLV_DER_SCHEMA_MAX_TYPES: 256 in the code
  DerMaxTypeDepth,     \* TLV_DER_SCHEMA_MAX_TYPE_DEPTH: 32
  DerMaxComponents     \* TLV_DER_SCHEMA_MAX_COMPONENTS: 64

ASSUME DerSchemaBounds == /\ DerMaxTypes \in Nat \ {0} /\ DerMaxTypeDepth \in Nat \ {0}
                          /\ DerMaxComponents \in Nat \ {0}

Composites == {"SEQUENCE", "SET", "CHOICE"}
Repeats    == {"SEQUENCE_OF", "SET_OF"}
Containers == (Composites \ {"CHOICE"}) \cup Repeats

\* The components a type refers to.
Parts(t) == CASE t.kind \in Composites -> t.components
              [] t.kind \in Repeats    -> <<t.element>>
              [] OTHER                 -> <<>>

\* The synthetic component of a root and of what an EXPLICIT wrapper holds.
Untagged(type) == [type |-> type, tagging |-> "NONE", class |-> 0, number |-> 0,
                   presence |-> "REQUIRED", default |-> <<>>]
NoComponent == [Untagged(NoType) EXCEPT !.tagging = "NOTHING"]

\* owned_make of an identity: the tag's bytes, empty when tlv_der_tag_make refuses it.
OwnedMake(class, constructed, number) ==
  LET b == TagBytes(class, constructed, number) IN TagMake(b, DerWriteTag(b)).bytes

\* kind_identifier and component_tag up to tlv_der_tag_make: class, constructed, number,
\* or nothing for a CHOICE or ANY.
KindIdentity(t) ==
  CASE t.kind \in {"SEQUENCE", "SEQUENCE_OF"} -> <<0, TRUE, 16>>
    [] t.kind \in {"SET", "SET_OF"}           -> <<0, TRUE, 17>>
    [] t.kind = "UNIVERSAL" -> <<0, t.number \in MustConstruct, t.number>>
    [] OTHER                -> <<>>
Identifier(id) == IF id = <<>> THEN <<>> ELSE OwnedMake(id[1], id[2], id[3])
KindIdentifier(t) == Identifier(KindIdentity(t))

TypeIsConstructed(t) ==
  t.kind \in Containers \/ (t.kind = "UNIVERSAL" /\ t.number \in MustConstruct)

\* component_tag: the one identifier of a component; an untagged CHOICE or ANY has none.
ComponentTag(D, c) ==
  Identifier(IF c.tagging = "NONE" THEN KindIdentity(D[c.type])
             ELSE <<c.class, c.tagging = "EXPLICIT" \/ TypeIsConstructed(D[c.type]), c.number>>)

Transparent(D, c) == c.tagging = "NONE" /\ D[c.type].kind = "CHOICE"
Wildcard(D, c)    == c.tagging = "NONE" /\ D[c.type].kind = "ANY"

\* resolve_tag: the component that takes a tag at the place of c, and the CHOICEs that
\* were tried in vain on the way.
RECURSIVE ResolveTag(_, _, _, _, _)
Tried(type, r) ==
  IF r.found = NoComponent /\ Cardinality(r.failed) < DerMaxTypes
    THEN [r EXCEPT !.failed = @ \cup {type}] ELSE r
Alternatives(D, type, tag, depth, failed) ==
  Tried(type, FoldLeft(LAMBDA r, c : IF r.found # NoComponent THEN r
                                     ELSE ResolveTag(D, c, tag, depth + 1, r.failed),
                       [found |-> NoComponent, failed |-> failed], D[type].components))
ResolveTag(D, c, tag, depth, failed) ==
  IF depth > DerMaxTypeDepth THEN [found |-> NoComponent, failed |-> failed]
  ELSE IF Wildcard(D, c) THEN [found |-> c, failed |-> failed]
  ELSE IF ~Transparent(D, c)
    THEN [found |-> IF ComponentTag(D, c) = tag THEN c ELSE NoComponent, failed |-> failed]
  ELSE IF c.type \in failed THEN [found |-> NoComponent, failed |-> failed]
  ELSE Alternatives(D, c.type, tag, depth, failed)

ResolveAt(D, c, tag) == ResolveTag(D, c, tag, 0, {}).found
Takes(D, c, tag)     == ResolveAt(D, c, tag) # NoComponent

-----------------------------------------------------------------------------
(* Constraints of a leaf: lengths, and a range or a list of allowed integers. *)

\* tlv_value_constraint_check and tlv_value_constraint_validate
ConstraintCheck(k) == IF k.kind = "RANGE" /\ k.lo > k.hi THEN "INVALID_SCHEMA" ELSE "OK"
ConstraintValidate(k, n) ==
  IF ConstraintCheck(k) # "OK" THEN ConstraintCheck(k)
  ELSE CASE k.kind = "NONE"    -> "OK"
         [] k.kind = "RANGE"   -> IF n \in k.lo .. k.hi THEN "OK" ELSE "SCHEMA"
         [] k.kind = "ALLOWED" -> IF n \in k.allowed THEN "OK" ELSE "SCHEMA"

\* validate_leaf_constraint
DecodedConstraint(k, d) == IF d.rc # "OK" THEN "INVALID_VALUE" ELSE ConstraintValidate(k, d.value)
LeafConstraint(t, v) ==
  IF Len(v) \notin t.constraint.min .. t.constraint.max THEN "SCHEMA"
  ELSE IF t.constraint.kind = "ABSENT" THEN "OK"
  ELSE DecodedConstraint(t.constraint, IntegerTyped(IntegerDecode(v)))

-----------------------------------------------------------------------------
(* tlv_der_schema_check *)

FirstError(codes) ==
  LET bad == {i \in DOMAIN codes : codes[i] # "OK"} IN IF bad = {} THEN "OK" ELSE codes[Min(bad)]

CheckComponent(D, c, inChoice) ==
  IF c = NoType \/ c.type = NoType THEN "INVALID_SCHEMA"
  ELSE IF \/ inChoice /\ (c.presence # "REQUIRED" \/ c.default # <<>>)
          \/ c.presence = "DEFAULT" /\ c.default = <<>>
          \/ c.tagging = "IMPLICIT" /\ D[c.type].kind \in {"CHOICE", "ANY"}
    THEN "INVALID_SCHEMA" ELSE "OK"

CheckPart(D, t, c) ==
  IF CheckComponent(D, c, t.kind = "CHOICE") # "OK" THEN "INVALID_SCHEMA"
  ELSE IF t.kind \in {"SET", "CHOICE"} /\ Wildcard(D, c) THEN "INVALID_SCHEMA" ELSE "OK"

CheckLeaf(t) ==
  IF t.constraint.min > t.constraint.max THEN "INVALID_SCHEMA"
  ELSE IF t.constraint.kind = "ABSENT" THEN "OK"
  ELSE IF t.number \notin {2, 10} THEN "INVALID_SCHEMA" ELSE ConstraintCheck(t.constraint)

CheckType(D, t) ==
  CASE t.kind = "UNIVERSAL" -> CheckLeaf(t)
    [] t.kind = "ANY"       -> "OK"
    [] t.kind \in Composites ->
         IF Len(t.components) > DerMaxComponents THEN "UNSUPPORTED"
         ELSE FirstError([i \in DOMAIN t.components |-> CheckPart(D, t, t.components[i])])
    [] t.kind \in Repeats ->
         IF t.element = NoType THEN "INVALID_SCHEMA"
         ELSE IF t.min > t.max \/ t.element.presence # "REQUIRED" THEN "INVALID_SCHEMA"
         ELSE CheckPart(D, t, t.element)

\* The worklist of check_graph: every type reached, each checked once.
Reached(g, c) ==
  IF g.rc # "OK" \/ c.type \in Range(g.types) THEN g
  ELSE IF Len(g.types) = DerMaxTypes THEN [g EXCEPT !.rc = "UNSUPPORTED"]
  ELSE [g EXCEPT !.types = Append(@, c.type)]
RECURSIVE Discover(_, _, _)
Discovered(D, g, node, rc) ==
  IF rc # "OK" THEN [g EXCEPT !.rc = rc]
  ELSE Discover(D, FoldLeft(Reached, g, Parts(D[g.types[node]])), node + 1)
Discover(D, g, node) ==
  IF g.rc # "OK" \/ node > Len(g.types) THEN g
  ELSE Discovered(D, g, node, CheckType(D, D[g.types[node]]))

\* check_choice_path: m.active are the CHOICEs on the path, m.height those completed.
RECURSIVE ChoicePath(_, _, _, _)
ChoiceDone(D, type, m) ==
  LET height == Max({1} \cup {1 + m.height[c.type] : c \in {c \in Range(D[type].components) : Transparent(D, c)}})
  IN  IF height > DerMaxTypeDepth THEN [m EXCEPT !.rc = "UNSUPPORTED"]
      ELSE [m EXCEPT !.active = @ \ {type}, !.height = (type :> height) @@ @]
ChoiceBelow(D, type, m) == IF m.rc # "OK" THEN m ELSE ChoiceDone(D, type, m)
ChoicePath(D, type, depth, m) ==
  IF m.rc # "OK" THEN m
  ELSE IF type \in m.active THEN [m EXCEPT !.rc = "INVALID_SCHEMA"]
  ELSE IF type \in DOMAIN m.height THEN m
  ELSE IF depth >= DerMaxTypeDepth THEN [m EXCEPT !.rc = "UNSUPPORTED"]
  ELSE ChoiceBelow(D, type,
         FoldLeft(LAMBDA n, c : IF Transparent(D, c) THEN ChoicePath(D, c.type, depth + 1, n) ELSE n,
                  [m EXCEPT !.active = @ \cup {type}], D[type].components))
CheckChoices(D, types) ==
  FoldLeft(LAMBDA m, type : IF D[type].kind = "CHOICE" THEN ChoicePath(D, type, 0, m) ELSE m,
           [rc |-> "OK", active |-> {}, height |-> <<>>], types).rc

\* A probe of a component that only looks at the siblings behind it.
CheckIdentifiers_Forward(D, t) ==
  IF t.kind \in {"SET", "CHOICE"} /\ \E i \in DOMAIN t.components :
       LET c == t.components[i]
       IN  ~Transparent(D, c) /\ (\/ ComponentTag(D, c) = <<>>
                                  \/ \E j \in DOMAIN t.components :
                                       j > i /\ Takes(D, t.components[j], ComponentTag(D, c)))
    THEN "INVALID_SCHEMA" ELSE "OK"

\* check_identifiers: no sibling takes the fixed identifier of a component.  An untagged
\* CHOICE has none and is probed only as a sibling.
CheckIdentifiers(D, t) ==
  IF t.kind \in {"SET", "CHOICE"} /\ \E i \in DOMAIN t.components :
       LET c == t.components[i]
       IN  ~Transparent(D, c) /\ (\/ ComponentTag(D, c) = <<>>
                                  \/ \E j \in DOMAIN t.components \ {i} :
                                       Takes(D, t.components[j], ComponentTag(D, c)))
    THEN "INVALID_SCHEMA" ELSE "OK"

CheckFound(D, g, choices) ==
  IF g.rc # "OK" THEN g.rc
  ELSE IF choices # "OK" THEN choices
  ELSE FirstError([i \in DOMAIN g.types |-> CheckIdentifiers(D, D[g.types[i]])])
CheckGraph(D, g) == CheckFound(D, g, IF g.rc = "OK" THEN CheckChoices(D, g.types) ELSE g.rc)
DerSchemaCheck(D, root) == CheckGraph(D, Discover(D, [rc |-> "OK", types |-> <<root>>], 1))

-----------------------------------------------------------------------------
(***************************************************************************)
(* tlv_der_schema_read.  x: definition, data and limits; s: a code, the     *)
(* open frames and the elements charged so far.                             *)
(***************************************************************************)
Frame(type, from, to, depth) ==
  [type |-> type, pos |-> from, end |-> to, depth |-> depth, next |-> 1, seen |-> {},
   prev |-> <<>>, count |-> 0]
Halt(s, rc) == [s EXCEPT !.rc = rc]
Charged(s)  == [s EXCEPT !.count = @ + 1]
Span(x, from, to) == SubSeq(x.data, from + 1, to)
Monus(a, b) == IF a > b THEN a - b ELSE 0

ReadOne(x, s, from, to, depth) ==
  IF depth > x.limits.depth \/ s.count = x.limits.elements THEN NotRead("LIMIT")
  ELSE DerReadElement(Span(x, from, to), x.limits)

\* dispatch_any: constructed content is walked within what is left of the limits.
AnyVisited(s, v) == [s EXCEPT !.rc = v.rc, !.count = @ + Len(v.seen)]
DispatchAny(x, s, from, to, constructed, depth) ==
  IF ~constructed THEN s
  ELSE AnyVisited(s, Visit("der", Span(x, from, to),
         [x.limits EXCEPT !.depth = Monus(@, depth), !.elements = Monus(@, s.count)], FALSE))

LeafValue(t, v) == IF UniversalValue(t.number, v) # "OK" THEN UniversalValue(t.number, v)
                   ELSE LeafConstraint(t, v)

\* handle_matched_element: e, read at base, is the component c's.
RECURSIVE HandleMatched(_, _, _, _, _, _)
Rematched(x, s, e, base, c, depth) ==
  IF c = NoComponent THEN Halt(s, "INVALID_TAG") ELSE HandleMatched(x, s, e, base, c, depth)
Unwrapped(x, s, inner, from, to, type, depth) ==
  IF inner.rc # "OK" THEN Halt(s, inner.rc)
  ELSE IF from + inner.used # to THEN Halt(Charged(s), "INVALID_VALUE")
  ELSE IF x.D[type].kind = "ANY"
    THEN DispatchAny(x, Charged(s), from, to, IsConstructed(inner.tag), depth)
  ELSE Rematched(x, Charged(s), inner, from, ResolveAt(x.D, Untagged(type), inner.tag), depth)
MatchedType(x, s, t, e, from, to, c, depth) ==
  CASE t.kind = "UNIVERSAL" -> Halt(s, LeafValue(t, e.value))
    [] t.kind = "ANY"       -> DispatchAny(x, s, from, to, IsConstructed(e.tag), depth)
    [] t.kind \in Containers ->
         IF depth = x.limits.depth THEN Halt(s, "LIMIT")
         ELSE [s EXCEPT !.frames = Append(@, Frame(c.type, from, to, depth))]
    [] OTHER -> Halt(s, "SCHEMA")
HandleMatched(x, s, e, base, c, depth) ==
  LET from == base + e.used - Len(e.value)
      to   == base + e.used
  IN  IF c.tagging = "EXPLICIT"
        THEN Unwrapped(x, s, ReadOne(x, s, from, to, depth + 1), from, to, c.type, depth + 1)
        ELSE MatchedType(x, s, x.D[c.type], e, from, to, c, depth)

\* What a frame makes of an element: a code, the frame after it, and the component that
\* takes it, if it is not an extension.
Place(rc, f, c) == [rc |-> rc, f |-> f, c |-> c]
IsDefault(x, f, e, c) == c.presence = "DEFAULT" /\ Span(x, f.pos, f.pos + e.used) = c.default

\* process_sequence: `match' are the components still to come that take the tag.
Open(t, f) == {k \in f.next .. Len(t.components) : t.components[k].presence = "REQUIRED"}
SequenceElement(x, f, e, t, match) ==
  IF match # {} /\ (\A k \in Open(t, f) : k >= Min(match))
    THEN Place(IF IsDefault(x, f, e, t.components[Min(match)]) THEN "INVALID_VALUE" ELSE "OK",
               [f EXCEPT !.next = Min(match) + 1], t.components[Min(match)])
  ELSE Place(IF Open(t, f) # {} \/ ~t.ext THEN "SCHEMA" ELSE "OK",
             [f EXCEPT !.next = Len(t.components) + 1], NoComponent)

\* process_set: each component once, in ascending order of tags.
ClassOf(tag)      == tag[1] \div 64
TagBefore(p, q)   == \/ ClassOf(p) < ClassOf(q)
                     \/ ClassOf(p) = ClassOf(q) /\ TagNumberOf(p) < TagNumberOf(q)
SetElement(x, f, e, t, match) ==
  IF match = {} THEN Place("SCHEMA", f, NoComponent)
  ELSE Place(IF Min(match) \in f.seen THEN "SCHEMA"
             ELSE IF f.prev # <<>> /\ ~TagBefore(f.prev, e.tag) THEN "INVALID_VALUE"
             ELSE IF IsDefault(x, f, e, t.components[Min(match)]) THEN "INVALID_VALUE" ELSE "OK",
             [f EXCEPT !.seen = @ \cup {Min(match)}, !.prev = e.tag], t.components[Min(match)])

\* memcmp and the lengths: a does not come after b.
NotAfter(a, b) ==
  \/ \E i \in DOMAIN a \cap DOMAIN b : a[i] < b[i] /\ \A j \in 1 .. i - 1 : a[j] = b[j]
  \/ Len(a) <= Len(b) /\ \A i \in DOMAIN a : a[i] = b[i]

\* A SET OF that is not held to any order.
RepeatedElement_Unordered(f, t, takes, bytes) ==
  Place(IF takes THEN "OK" ELSE "SCHEMA", [f EXCEPT !.count = @ + 1, !.prev = bytes], t.element)

\* process_set_of and process_sequence_of, below the maximum
RepeatedElement(f, t, takes, bytes) ==
  Place(IF ~takes THEN "SCHEMA"
        ELSE IF t.kind = "SET_OF" /\ f.prev # <<>> /\ ~NotAfter(f.prev, bytes) THEN "INVALID_VALUE"
        ELSE "OK",
        [f EXCEPT !.count = @ + 1, !.prev = bytes], t.element)

Matching(x, t, from, tag) == {k \in from .. Len(t.components) : Takes(x.D, t.components[k], tag)}
Placed(x, f, e, t) ==
  IF t.kind \in Repeats
    THEN RepeatedElement(f, t, Takes(x.D, t.element, e.tag), Span(x, f.pos, f.pos + e.used))
  ELSE IF t.kind = "SET" THEN SetElement(x, f, e, t, Matching(x, t, 1, e.tag))
  ELSE SequenceElement(x, f, e, t, Matching(x, t, f.next, e.tag))

\* The frame advances, and the element goes to its component; an extension is only walked.
Advanced(s, f, e) == [s EXCEPT !.frames[Len(s.frames)] = [f EXCEPT !.pos = @ + e.used]]
Delivered(x, s, at, e, p, depth) ==
  IF p.rc # "OK" THEN Halt(s, p.rc)
  ELSE IF p.c # NoComponent
    THEN HandleMatched(x, Advanced(s, p.f, e), e, at, ResolveAt(x.D, p.c, e.tag), depth)
  ELSE DispatchAny(x, Advanced(s, p.f, e), at + e.used - Len(e.value), at + e.used,
                   IsConstructed(e.tag), depth)
FrameElement(x, s, f, e, t) ==
  IF e.rc # "OK" THEN Halt(s, e.rc)
  ELSE Delivered(x, Charged(s), f.pos, e, Placed(x, f, e, t), f.depth + 1)

\* At the end of a frame: what it still lacks.
Lacks(t, f) ==
  CASE t.kind = "SEQUENCE" -> Open(t, f) # {}
    [] t.kind = "SET" -> \E k \in DOMAIN t.components \ f.seen : t.components[k].presence = "REQUIRED"
    [] OTHER -> f.count < t.min

FrameStep(x, s, f, t) ==
  IF f.pos = f.end THEN IF Lacks(t, f) THEN Halt(s, "SCHEMA") ELSE [s EXCEPT !.frames = Front(@)]
  ELSE IF t.kind \in Repeats /\ f.count = t.max THEN Halt(s, "SCHEMA")
  ELSE FrameElement(x, s, f, ReadOne(x, s, f.pos, f.end, f.depth + 1), t)
RECURSIVE ReadFrames(_, _)
ReadFrames(x, s) ==
  IF s.rc # "OK" \/ s.frames = <<>> THEN s
  ELSE ReadFrames(x, FrameStep(x, s, Last(s.frames), x.D[Last(s.frames).type]))

\* read_input: the code, and the bytes of the root element when it is OK.
RootRead(x, s, e, root) ==
  IF e.rc # "OK" THEN Halt(s, e.rc)
  ELSE ReadFrames(x, Rematched(x, Charged(s), e, 0, ResolveAt(x.D, Untagged(root), e.tag), 0))
ReadStart == [rc |-> "OK", frames |-> <<>>, count |-> 0]
DerSchemaRead(x, root) ==
  IF x.limits.depth > CanonicalMaxDepth THEN "UNSUPPORTED"
  ELSE IF Len(x.data) > x.limits.input THEN "LIMIT"
  ELSE IF x.data = <<>> THEN "SCHEMA"
  ELSE RootRead(x, ReadStart, ReadOne(x, ReadStart, 0, Len(x.data), 0), root).rc

-----------------------------------------------------------------------------
(***************************************************************************)
(* tlv_der_schema_write.  x: definition, what the callback says, limits,    *)
(* the capacities of arena and records, and whether failures are located.   *)
(* A component is known to the callback by its place <<type, position>>,    *)
(* position 0 being a repeated element and Root the synthetic root; say maps *)
(* a place to the answers for index 0, 1, ...                                *)
(*                                                                          *)
(* w: the arena's bytes in use, the records shared by all repetitions, and   *)
(* the retained failure: its code, the region that holds it, its offset      *)
(* there, and (for the properties only) the bytes it is about.               *)
(***************************************************************************)
Root == <<"root", 0>>
ComponentAt(x, place) ==
  IF place = Root THEN Untagged(x.root)
  ELSE IF place[2] = 0 THEN x.D[place[1]].element ELSE x.D[place[1]].components[place[2]]

Nowhere   == -1       \* SIZE_MAX as an owner
NoFailure == [rc |-> "OK", owner |-> Nowhere, at |-> 0, about |-> <<>>]

\* An answer: present with these bytes, absent, an error, or bytes of another size than
\* it announced.
Says(x, place, index) ==
  IF place = Root /\ place \notin DOMAIN x.say THEN [is |-> "present", bytes |-> <<>>]
  ELSE IF place \notin DOMAIN x.say THEN [is |-> "absent", bytes |-> <<>>]
  ELSE IF index < Len(x.say[place]) THEN x.say[place][index + 1]
  ELSE [is |-> "absent", bytes |-> <<>>]

Composed(w, off, len) == [rc |-> "OK", w |-> w, off |-> off, len |-> len, absent |-> FALSE]
NotComposed(w, rc)         == [Composed(w, 0, 0) EXCEPT !.rc = rc]
AbsentIn(w)           == [Composed(w, 0, 0) EXCEPT !.absent = TRUE]
Region(w, off, len)   == SubSeq(w.arena, off + 1, off + len)

\* defer_failure: only a failure of data is retained, and only the first one.
Defers(x, rc) == x.locate /\ rc \in {"SCHEMA", "INVALID_VALUE", "INVALID_LENGTH", "INVALID_TAG"}
Defer(w, rc, owner, at, about) ==
  IF w.failure.rc # "OK" THEN w
  ELSE [w EXCEPT !.failure = [rc |-> rc, owner |-> owner, at |-> at, about |-> about]]

\* A copy that leaves the failure where its region was.
Relocate_Dropped(w, from, to, prefix) ==
  IF w.failure.rc = "OK" \/ w.failure.owner # from THEN w ELSE [w EXCEPT !.failure.owner = to]

\* relocate_failure: the failure moves with the region that holds it.
Relocate(w, from, to, prefix) ==
  IF w.failure.rc = "OK" \/ w.failure.owner # from THEN w
  ELSE [w EXCEPT !.failure.owner = to, !.failure.at = @ + prefix]

\* arena_alloc of these bytes
Fits(x, w, n)    == n <= x.arena - Len(w.arena)
Stored(w, bytes) == [w EXCEPT !.arena = @ \o bytes]

\* wrap_and_store
Wrapping(x, w, b, off, len) ==
  IF b.rc # "OK" THEN NotComposed(w, b.rc)
  ELSE IF ~Fits(x, w, Len(b.bytes)) THEN NotComposed(w, "BUFFER_TOO_SHORT")
  ELSE Composed(Relocate(Stored(w, b.bytes), off, Len(w.arena), Len(b.bytes) - len),
                Len(w.arena), Len(b.bytes))
WrapBad(x, w, rc, b, off, len) ==
  IF b.rc # "OK" THEN NotComposed(Defer(w, rc, Nowhere, 0, <<>>), b.rc)
  ELSE IF ~Fits(x, w, Len(b.bytes)) THEN NotComposed(Defer(w, rc, Nowhere, 0, <<>>), "BUFFER_TOO_SHORT")
  ELSE Composed(Defer(Stored(w, b.bytes), rc, Len(w.arena), Len(b.bytes) - len, Region(w, off, len)),
                Len(w.arena), Len(b.bytes))
WrapChecked(x, w, b, bare, off, len) ==
  IF b.rc # "OK" /\ Defers(x, b.rc) THEN WrapBad(x, w, b.rc, bare, off, len)
  ELSE Wrapping(x, w, b, off, len)
WrapEncoded(x, w, e, bare, off, len) ==
  WrapChecked(x, w, IF w.failure.rc # "OK" THEN bare ELSE DerPut(bare, e, x.limits, TRUE), bare, off, len)
WrapElement(x, w, e, off, len) == WrapEncoded(x, w, e, FormatEncode(DerFormat, e), off, len)
WrapAndStore(x, w, tag, off, len) ==
  WrapElement(x, w, [tag |-> tag, value |-> Region(w, off, len)], off, len)

\* encode_leaf_content, then the constraint on it
LeafChecked(x, w, bytes, rc) ==
  IF rc = "OK" THEN Composed(Stored(w, bytes), Len(w.arena), Len(bytes))
  ELSE IF ~Defers(x, rc) THEN NotComposed(w, rc)
  ELSE Composed(Defer(Stored(w, bytes), rc, Len(w.arena), 0, bytes), Len(w.arena), Len(bytes))
EncodeLeaf(x, w, t, a) ==
  IF ~Fits(x, w, Len(a.bytes)) THEN NotComposed(w, "BUFFER_TOO_SHORT")
  ELSE IF a.is = "lies" THEN NotComposed(w, "CALLBACK")
  ELSE LeafChecked(x, w, a.bytes, LeafConstraint(t, a.bytes))

\* The regions copied one behind the other into a new one.
Prefix(regions, i) == FoldLeft(LAMBDA n, r : n + r.len, 0, SubSeq(regions, 1, i - 1))
TotalLen(regions)  == Prefix(regions, Len(regions) + 1)
Copied(w, regions) == Stored(w, FoldLeft(LAMBDA b, r : b \o Region(w, r.off, r.len), <<>>, regions))
Concat(x, w, regions) ==
  IF ~Fits(x, w, TotalLen(regions)) THEN NotComposed(w, "BUFFER_TOO_SHORT")
  ELSE Composed(FoldLeft(LAMBDA v, i : Relocate(v, regions[i].off, Len(w.arena), Prefix(regions, i)),
                         Copied(w, regions), [i \in DOMAIN regions |-> i]),
                Len(w.arena), TotalLen(regions))

\* The failure found while the regions were collected belongs to the new region.
Anchored(r, at) ==
  IF r.rc # "OK" \/ at = Nowhere THEN r
  ELSE [r EXCEPT !.w.failure.owner = r.off, !.w.failure.at = at]

\* Insertion sort: r goes behind everything it does not precede.
InsertBy(sorted, r, Before(_, _)) ==
  LET k == Max({0} \cup {i \in DOMAIN sorted : ~Before(r, sorted[i])})
  IN  SubSeq(sorted, 1, k) \o <<r>> \o SubSeq(sorted, k + 1, Len(sorted))
ByTag(regions) ==
  FoldLeft(LAMBDA s, r : InsertBy(s, r, LAMBDA a, b : TagBefore(a.tag, b.tag)), <<>>, regions)
ByBytes(w, regions) ==
  FoldLeft(LAMBDA s, r : InsertBy(s, r, LAMBDA a, b : ~NotAfter(Region(w, b.off, b.len), Region(w, a.off, a.len))),
           <<>>, regions)

-----------------------------------------------------------------------------
RECURSIVE EncodeAt(_, _, _, _, _, _)

\* encode_children_concat and encode_set_content, from component i on.  `hole' is where
\* the first missing component of a SEQUENCE would have begun.
RECURSIVE EncodeComponents(_, _, _, _, _, _, _)
RegionOf(x, c, r) == [off |-> r.off, len |-> r.len, tag |-> ComponentTag(x.D, c)]
MissingIn(x, w, t, depth, type, i, regions, hole) ==
  IF t.components[i].presence # "REQUIRED" THEN EncodeComponents(x, w, type, i + 1, depth, regions, hole)
  ELSE IF ~Defers(x, "SCHEMA") THEN NotComposed(w, "SCHEMA")
  ELSE EncodeComponents(x, Defer(w, "SCHEMA", Nowhere, 0, <<>>), type, i + 1, depth, regions,
                        IF w.failure.rc = "OK" THEN TotalLen(regions) ELSE hole)
ComponentEncoded(x, t, depth, type, i, regions, hole, r) ==
  IF r.rc # "OK" THEN r
  ELSE IF r.absent THEN MissingIn(x, r.w, t, depth, type, i, regions, hole)
  ELSE IF t.kind = "SET" /\ ComponentTag(x.D, t.components[i]) = <<>> THEN NotComposed(r.w, "SCHEMA")
  ELSE EncodeComponents(x, r.w, type, i + 1, depth, Append(regions, RegionOf(x, t.components[i], r)), hole)
EncodeComponents(x, w, type, i, depth, regions, hole) ==
  LET t == x.D[type]
  IN  IF i <= Len(t.components)
        THEN ComponentEncoded(x, t, depth, type, i, regions, hole,
                              EncodeAt(x, w, <<type, i>>, 0, depth, 0))
      ELSE IF t.kind = "SEQUENCE" THEN Anchored(Concat(x, w, regions), hole)
      ELSE Anchored(Concat(x, w, ByTag(regions)), IF hole = Nowhere THEN Nowhere ELSE TotalLen(regions))

\* encode_set_of_content and encode_sequence_of_content, from index `count' on.  `fault'
\* is "over" or "under" when the first failure is the number of elements.
RECURSIVE EncodeRepeated(_, _, _, _, _, _)
Put(records, k, r) == IF k <= Len(records) THEN [records EXCEPT ![k] = r] ELSE Append(records, r)
Overrun(x, w, type, t, depth, count, fault) ==
  IF count <= t.max THEN EncodeRepeated(x, w, type, depth, count, fault)
  ELSE IF ~Defers(x, "SCHEMA") THEN NotComposed(w, "SCHEMA")
  ELSE EncodeRepeated(x, Defer(w, "SCHEMA", Nowhere, 0, <<>>), type, depth, count,
                      IF w.failure.rc = "OK" THEN "over" ELSE fault)
Laid(x, w, t, regions, fault) ==
  Anchored(Concat(x, [w EXCEPT !.records = regions \o SubSeq(@, Len(regions) + 1, Len(@))], regions),
           CASE fault = "over"  -> Prefix(regions, t.max + 1)
             [] fault = "under" -> TotalLen(regions)
             [] OTHER           -> Nowhere)
Closed(x, w, t, count, fault) ==
  LET regions == SubSeq(w.records, 1, count)
  IN  Laid(x, w, t, IF t.kind = "SET_OF" THEN ByBytes(w, regions) ELSE regions, fault)
Ended(x, w, t, count, fault) ==
  IF count >= t.min THEN Closed(x, w, t, count, fault)
  ELSE IF ~Defers(x, "SCHEMA") THEN NotComposed(w, "SCHEMA")
  ELSE Closed(x, Defer(w, "SCHEMA", Nowhere, 0, <<>>), t, count,
              IF w.failure.rc = "OK" THEN "under" ELSE fault)
ElementEncoded(x, type, t, depth, count, fault, r) ==
  IF r.rc # "OK" THEN r
  ELSE IF r.absent THEN Ended(x, r.w, t, count, fault)
  ELSE IF count >= x.records THEN NotComposed(r.w, "BUFFER_TOO_SHORT")
  ELSE Overrun(x, [r.w EXCEPT !.records = Put(@, count + 1, [off |-> r.off, len |-> r.len])],
               type, t, depth, count + 1, fault)
EncodeRepeated(x, w, type, depth, count, fault) ==
  ElementEncoded(x, type, x.D[type], depth, count, fault, EncodeAt(x, w, <<type, 0>>, count, depth, 0))

\* encode_choice, from alternative i on
RECURSIVE EncodeChoice(_, _, _, _, _, _)
Alternative(x, type, i, depth, level, r) ==
  IF r.rc # "OK" \/ ~r.absent THEN r ELSE EncodeChoice(x, r.w, type, i + 1, depth, level)
EncodeChoice(x, w, type, i, depth, level) ==
  IF level > DerMaxTypeDepth THEN NotComposed(w, "SCHEMA")
  ELSE IF i > Len(x.D[type].components) THEN AbsentIn(w)
  ELSE Alternative(x, type, i, depth, level, EncodeAt(x, w, <<type, i>>, 0, depth, level + 1))

\* produce_raw_content
RawContent(x, w, type, place, index, depth) ==
  LET t == x.D[type]
  IN  CASE t.kind = "UNIVERSAL" -> EncodeLeaf(x, w, t, Says(x, place, index))
        [] t.kind \in Containers ->
             IF depth = x.limits.depth THEN NotComposed(w, "LIMIT")
             ELSE IF t.kind \in Repeats THEN EncodeRepeated(x, w, type, depth + 1, 0, "none")
             ELSE EncodeComponents(x, w, type, 1, depth + 1, <<>>, Nowhere)
        [] OTHER -> NotComposed(w, "SCHEMA")

\* produce_natural_encoding: an ANY has no identifier to be written with.
WrapContent(x, tag, r) == IF r.rc # "OK" THEN r ELSE WrapAndStore(x, r.w, tag, r.off, r.len)
Natural(x, w, type, place, index, depth, level) ==
  IF x.D[type].kind = "CHOICE" THEN EncodeChoice(x, w, type, 1, depth, level)
  ELSE IF KindIdentifier(x.D[type]) = <<>> THEN NotComposed(w, "SCHEMA")
  ELSE WrapContent(x, KindIdentifier(x.D[type]), RawContent(x, w, type, place, index, depth))

\* An EXPLICIT wrapper around a CHOICE of which nothing is selected.
Explicit(x, tag, r) ==
  IF r.rc # "OK" \/ ~r.absent THEN WrapContent(x, tag, r)
  ELSE IF ~Defers(x, "SCHEMA") THEN NotComposed(r.w, "SCHEMA")
  ELSE WrapContent(x, tag, Composed(Defer(r.w, "SCHEMA", Len(r.w.arena), 0, <<>>), Len(r.w.arena), 0))

PresentAt(x, w, c, place, index, depth, level) ==
  IF c.tagging = "NONE" THEN Natural(x, w, c.type, place, index, depth, level)
  ELSE IF ComponentTag(x.D, c) = <<>> THEN NotComposed(w, "INVALID_TAG")
  ELSE IF c.tagging = "IMPLICIT"
    THEN WrapContent(x, ComponentTag(x.D, c), RawContent(x, w, c.type, place, index, depth))
  ELSE IF depth >= x.limits.depth THEN NotComposed(w, "LIMIT")
  ELSE Explicit(x, ComponentTag(x.D, c), Natural(x, w, c.type, place, index, depth + 1, 0))

\* A default that is written out.
WithoutDefault_Kept(c, r) == r

\* The last step of encode_at: a default is not written, unless it holds the failure.
WithoutDefault(c, r) ==
  IF /\ r.rc = "OK" /\ ~r.absent /\ c.presence = "DEFAULT"
     /\ ~(r.w.failure.rc # "OK" /\ r.w.failure.owner = r.off)
     /\ Region(r.w, r.off, r.len) = c.default
    THEN AbsentIn(r.w) ELSE r

EncodeAnswer(x, w, a, c, place, index, depth, level) ==
  CASE a.is = "error"  -> NotComposed(w, "CALLER")
    [] a.is = "absent" -> AbsentIn(w)
    [] OTHER -> WithoutDefault(c, PresentAt(x, w, c, place, index, depth, level))
EncodeAt(x, w, place, index, depth, level) ==
  EncodeAnswer(x, w, Says(x, place, index), ComponentAt(x, place), place, index, depth, level)

\* write_input: the bytes written, and for a retained failure where it is in what would
\* have been written.
Written(rc, bytes, at, about) == [rc |-> rc, bytes |-> bytes, at |-> at, about |-> about]
WriteDone(x, r) ==
  LET bytes == Region(r.w, r.off, r.len)
      known == r.rc = "OK" /\ r.w.failure.owner = r.off
  IN  IF r.w.failure.rc # "OK"
        THEN Written(r.w.failure.rc, bytes, IF known THEN r.w.failure.at ELSE Nowhere, r.w.failure.about)
      ELSE IF r.rc # "OK" THEN Written(r.rc, <<>>, Nowhere, <<>>)
      ELSE IF r.absent THEN Written("SCHEMA", <<>>, 0, <<>>)
      ELSE IF r.len > x.limits.input THEN Written("LIMIT", <<>>, Nowhere, <<>>)
      ELSE IF r.len > x.capacity THEN Written("BUFFER_TOO_SHORT", <<>>, Nowhere, <<>>)
      ELSE Written("OK", bytes, Nowhere, <<>>)
DerSchemaWrite(x) ==
  IF x.limits.depth > CanonicalMaxDepth THEN Written("UNSUPPORTED", <<>>, Nowhere, <<>>)
  ELSE WriteDone(x, EncodeAt(x, [arena |-> <<>>, records |-> <<>>, failure |-> NoFailure], Root, 0, 0, 0))

-----------------------------------------------------------------------------
(***************************************************************************)
(* A caller with one definition and one tlv_der_schema_checked_t.  A call    *)
(* leaves its arguments and what it answered.                                *)
(***************************************************************************)
CONSTANTS
  DerDefinitions,      \* records [D, root, name]
  DerReads(_),         \* the reads tried with a definition: records [data, limits]
  DerWrites(_)         \* the writes: records [say, limits, arena, records, capacity, locate]

VARIABLES
  definition,          \* the definition of this behaviour
  handle,              \* "NULL" or "READY": checked->root
  answer               \* the last call

derVars == <<definition, handle, answer>>

NoAnswer == [call |-> "none", rc |-> "OK", args |-> <<>>, got |-> <<>>, allowed |-> FALSE]
Answer(call, rc, args, got, allowed) ==
  [call |-> call, rc |-> rc, args |-> args, got |-> got, allowed |-> allowed]

DerInit == definition \in DerDefinitions /\ handle = "NULL" /\ answer = NoAnswer

\* tlv_der_schema_prepare
Prepared(rc) == /\ handle' = IF rc = "OK" THEN "READY" ELSE "NULL"
                /\ answer' = Answer("prepare", rc, <<>>, <<>>, FALSE)
DerPrepare ==
  /\ answer = NoAnswer
  /\ Prepared(DerSchemaCheck(definition.D, definition.root))
  /\ UNCHANGED definition

ReadArgs(a)  == [D |-> definition.D, data |-> a.data, limits |-> a.limits]
WriteArgs(a) == [D |-> definition.D, root |-> definition.root] @@ a

\* What allows a call: tlv_der_schema_read and _write check the definition first, the
\* _checked calls want a handle that was prepared.
Gate == IF answer.call = "prepare" THEN IF handle = "NULL" THEN "INVALID_STATE" ELSE "OK"
        ELSE DerSchemaCheck(definition.D, definition.root)
Callable == answer = NoAnswer \/ answer.call = "prepare"

\* tlv_der_schema_read and tlv_der_schema_read_checked
ReadBehind(gate, x) ==
  Answer("read", IF gate # "OK" THEN gate ELSE DerSchemaRead(x, definition.root), x, <<>>, gate = "OK")
DerReadCall ==
  /\ Callable
  /\ \E a \in DerReads(definition) : answer' = ReadBehind(Gate, ReadArgs(a))
  /\ UNCHANGED <<definition, handle>>

\* tlv_der_schema_write and tlv_der_schema_write_checked
Wrote(gate, x, r) == Answer("write", r.rc, x, r, gate = "OK")
WriteBehind(gate, x) ==
  Wrote(gate, x, IF gate # "OK" THEN Written(gate, <<>>, Nowhere, <<>>) ELSE DerSchemaWrite(x))
DerWriteCall ==
  /\ Callable
  /\ \E a \in DerWrites(definition) : answer' = WriteBehind(Gate, WriteArgs(a))
  /\ UNCHANGED <<definition, handle>>

DerNext == DerPrepare \/ DerReadCall \/ DerWriteCall

-----------------------------------------------------------------------------
(* What a definition, a read and a write mean, without stacks and arenas. *)

RECURSIVE Reachable(_, _)
Reachable(D, types) ==
  LET more == types \cup UNION {{c.type : c \in Range(Parts(D[t]))} : t \in types}
  IN  IF more = types THEN types ELSE Reachable(D, more)

\* The longest chain of untagged CHOICEs that begins with this one, cut at the bound.
RECURSIVE Chain(_, _, _)
Chain(D, type, fuel) ==
  IF fuel = 0 THEN 1
  ELSE 1 + Max({0} \cup {Chain(D, c.type, fuel - 1) : c \in {c \in Range(D[type].components) : Transparent(D, c)}})

\* The identifiers that may stand at the place of a component.
RECURSIVE TagsOf(_, _)
TagsOf(D, c) == IF Transparent(D, c) THEN UNION {TagsOf(D, a) : a \in Range(D[c.type].components)}
                ELSE {ComponentTag(D, c)}
Distinct(D, t) ==
  \A i, j \in DOMAIN t.components :
    LET a == t.components[i]  b == t.components[j]
    IN  i < j /\ ~(Transparent(D, a) /\ Transparent(D, b)) => TagsOf(D, a) \cap TagsOf(D, b) = {}
Taggable(D, t) == \A c \in Range(t.components) : Transparent(D, c) \/ ComponentTag(D, c) # <<>>

LocallySound(D, root) ==
  /\ \A type \in DOMAIN D : CheckType(D, D[type]) = "OK"
  /\ Cardinality(Reachable(D, {root})) <= DerMaxTypes
Sound(D, root) ==
  /\ \A type \in Reachable(D, {root}) : D[type].kind = "CHOICE" => Chain(D, type, DerMaxTypeDepth) <= DerMaxTypeDepth
  /\ \A type \in Reachable(D, {root}) : D[type].kind \in {"SET", "CHOICE"} =>
       Distinct(D, D[type]) /\ Taggable(D, D[type])

\* A definition passes exactly when every chain of untagged CHOICEs ends within the
\* bound and no identifier in a SET or CHOICE leads to two components, save between two
\* untagged CHOICEs.
ChecksDefinition ==
  answer.call = "prepare" /\ LocallySound(definition.D, definition.root) =>
    (answer.rc = "OK" <=> Sound(definition.D, definition.root))

-----------------------------------------------------------------------------
\* The elements of a content; one without a tag stands for bytes that are none.
Piece(tag, value, bytes) == [tag |-> tag, value |-> value, bytes |-> bytes]
RECURSIVE Split(_)
SplitAt(v, e) == IF e.rc # "OK" THEN <<Piece(<<>>, <<>>, v)>>
                 ELSE <<Piece(e.tag, e.value, SubSeq(v, 1, e.used))>> \o Split(Drop(v, e.used))
Split(v) == IF v = <<>> THEN <<>> ELSE SplitAt(v, DerReadElement(v, Ample))
Generic(e) == e.tag # <<>> /\ (IsConstructed(e.tag) => Forest("der", e.value, 0, FALSE).ok)

RECURSIVE Valid(_, _, _)
RequiredOf(t) == {k \in DOMAIN t.components : t.components[k].presence = "REQUIRED"}
ValidAt(D, t, k, e) == Valid(D, t.components[k], e) /\ ~(t.components[k].presence = "DEFAULT" /\ e.bytes = t.components[k].default)

\* Some increasing choice of components takes the elements; extensions follow.
ValidSequence(D, t, es) ==
  \E K \in SUBSET DOMAIN t.components :
    /\ RequiredOf(t) \subseteq K /\ Cardinality(K) <= Len(es)
    /\ LET pick == SetToSortSeq(K, <)
       IN  \A i \in DOMAIN pick : ValidAt(D, t, pick[i], es[i])
    /\ Cardinality(K) < Len(es) =>
         /\ t.ext /\ \A i \in Cardinality(K) + 1 .. Len(es) : Generic(es[i])
         /\ \A k \in DOMAIN t.components :
              (\A j \in K : j < k) => ~Takes(D, t.components[k], es[Cardinality(K) + 1].tag)
ValidSet(D, t, es) ==
  /\ \A i \in 2 .. Len(es) : es[i].tag # <<>> /\ TagBefore(es[i - 1].tag, es[i].tag)
  /\ \E f \in [DOMAIN es -> DOMAIN t.components] :
       /\ \A i, j \in DOMAIN es : f[i] = f[j] => i = j
       /\ RequiredOf(t) \subseteq Range(f)
       /\ \A i \in DOMAIN es : ValidAt(D, t, f[i], es[i])
ValidRepeat(D, t, es) ==
  /\ Len(es) \in t.min .. t.max /\ \A i \in DOMAIN es : Valid(D, t.element, es[i])
  /\ t.kind = "SET_OF" => \A i \in 2 .. Len(es) : NotAfter(es[i - 1].bytes, es[i].bytes)
ValidContent(D, t, v, es) ==
  CASE t.kind = "UNIVERSAL" -> LeafValue(t, v) = "OK"
    [] t.kind = "SEQUENCE"  -> ValidSequence(D, t, es)
    [] t.kind = "SET"       -> ValidSet(D, t, es)
    [] t.kind \in Repeats   -> ValidRepeat(D, t, es)
ValidInside(D, type, es) == Len(es) = 1 /\ Valid(D, Untagged(type), es[1])
ValidBehind(D, c, v, es) ==
  IF c.tagging = "EXPLICIT" THEN ValidInside(D, c.type, es) ELSE ValidContent(D, D[c.type], v, es)
Valid(D, c, e) ==
  IF e.tag = <<>> THEN FALSE
  ELSE IF Wildcard(D, c) THEN Generic(e)
  ELSE IF Transparent(D, c) THEN \E a \in Range(D[c.type].components) : Valid(D, a, e)
  ELSE e.tag = ComponentTag(D, c) /\ ValidBehind(D, c, e.value, Split(e.value))

\* Whether the limits are wide enough for these elements.  Inside ANY an element counts
\* twice under an EXPLICIT tag, and one level more than max_depth is let through.
Loose(D)   == \E type \in DOMAIN D : D[type].kind = "ANY" \/ (D[type].kind = "SEQUENCE" /\ D[type].ext)
Roomy(x, seen) ==
  /\ Len(x.data) <= x.limits.input /\ x.limits.depth <= CanonicalMaxDepth
  /\ 2 * Len(seen) <= x.limits.elements /\ \A i \in DOMAIN seen :
       seen[i].depth + (IF Loose(x.D) \/ IsConstructed(seen[i].tag) THEN 1 ELSE 0) <= x.limits.depth
Within(D, seen, limits) ==
  /\ Len(seen) <= limits.elements
  /\ \A i \in DOMAIN seen : seen[i].depth <= limits.depth + (IF Loose(D) THEN 1 ELSE 0)

ReadAgrees(x, rc, root, e, seen) ==
  /\ rc = "OK" => Valid(x.D, Untagged(root), e) /\ Within(x.D, seen, x.limits)
  /\ Valid(x.D, Untagged(root), e) /\ Roomy(x, seen) => rc = "OK"

\* The reader accepts exactly the values of the root type: optional, default and
\* extension elements in order, SETs by tag, SET OFs by encoding, CHOICEs by identifier,
\* and no nesting beyond the limits, but for the level more that an ANY or an extension
\* lets through, against der_schema.h:334 "the same ... limit conventions as
\* tlv_der_read_strict()".
ReadsSchema ==
  answer.call = "read" /\ answer.allowed /\ answer.args.data # <<>> =>
      LET e == Split(answer.args.data)[1]
      IN  ReadAgrees(answer.args, answer.rc, definition.root, e, Forest("der", e.bytes, 0, FALSE).seen)

-----------------------------------------------------------------------------
\* The encoding of what the callback says of a place, by recursion on the definition.  What
\* it says of an ANY is a whole element; a SET is ordered by the tags its components came
\* to have, an untagged CHOICE's being that of its alternative.
Meant(ok, absent, bytes) == [ok |-> ok, absent |-> absent, bytes |-> bytes]
Tlv(tag, v) == FormatEncode(DerFormat, [tag |-> tag, value |-> v]).bytes
RECURSIVE Means(_, _, _), MeansContent(_, _, _, _)
Given(x, type) == [i \in DOMAIN x.D[type].components |-> Means(x, <<type, i>>, 0)]
Items(x, type) ==
  LET Ends(i) == Says(x, <<type, 0>>, i).is = "absent"
      n == CHOOSE i \in 0 .. UintMax : Ends(i) /\ \A j \in 0 .. i - 1 : ~Ends(j)
  IN  [i \in 1 .. n |-> Means(x, <<type, 0>>, i - 1)]
AllBytes(ms) == FoldLeft(LAMBDA b, m : b \o m.bytes, <<>>, ms)
TagIn(m) == IF m.bytes = <<>> THEN <<>> ELSE Split(m.bytes)[1].tag
MeantComponents(x, t, ms) ==
  LET there == {i \in DOMAIN ms : ~ms[i].absent}
      order == IF t.kind = "SEQUENCE" THEN SetToSortSeq(there, <)
               ELSE SetToSortSeq({i \in there : TagIn(ms[i]) # <<>>},
                                 LAMBDA i, j : TagBefore(TagIn(ms[i]), TagIn(ms[j])))
  IN  Meant(\A i \in DOMAIN ms : ms[i].ok /\ (ms[i].absent => t.components[i].presence # "REQUIRED"),
            FALSE, AllBytes([i \in DOMAIN order |-> ms[order[i]]]))
MeantItems(t, ms) ==
  Meant(Len(ms) \in t.min .. t.max /\ \A i \in DOMAIN ms : ms[i].ok, FALSE,
        AllBytes(IF t.kind = "SET_OF" THEN SortSeq(ms, LAMBDA a, b : NotAfter(a.bytes, b.bytes) /\ a # b) ELSE ms))
Chosen(ms) == LET some == {i \in DOMAIN ms : ~ms[i].absent}
              IN  IF some = {} THEN Meant(TRUE, TRUE, <<>>) ELSE ms[Min(some)]
MeansContent(x, type, place, index) ==
  LET t == x.D[type]
  IN  CASE t.kind = "UNIVERSAL" -> LET v == Says(x, place, index).bytes
                                   IN  Meant(LeafValue(t, v) = "OK", FALSE, v)
        [] t.kind \in {"SEQUENCE", "SET"} -> MeantComponents(x, t, Given(x, type))
        [] t.kind \in Repeats -> MeantItems(t, Items(x, type))
Framed(tag, m) == Meant(m.ok /\ tag # <<>> /\ ~m.absent, FALSE, IF tag = <<>> THEN <<>> ELSE Tlv(tag, m.bytes))
OneElement(v) == Meant(Len(Split(v)) = 1 /\ Generic(Split(v)[1]), FALSE, v)
MeansNatural(x, type, place, index) ==
  CASE x.D[type].kind = "CHOICE" -> Chosen(Given(x, type))
    [] x.D[type].kind = "ANY"    -> OneElement(Says(x, place, index).bytes)
    [] OTHER -> Framed(KindIdentifier(x.D[type]), MeansContent(x, type, place, index))
MeansTagged(x, c, place, index) ==
  CASE c.tagging = "NONE"     -> MeansNatural(x, c.type, place, index)
    [] c.tagging = "IMPLICIT" -> Framed(ComponentTag(x.D, c), MeansContent(x, c.type, place, index))
    [] OTHER                  -> Framed(ComponentTag(x.D, c), MeansNatural(x, c.type, place, index))
Omitted(c, m) == IF c.presence = "DEFAULT" /\ m.ok /\ m.bytes = c.default THEN Meant(TRUE, TRUE, <<>>) ELSE m
Means(x, place, index) ==
  IF Says(x, place, index).is = "absent" THEN Meant(TRUE, TRUE, <<>>)
  ELSE Omitted(ComponentAt(x, place), MeansTagged(x, ComponentAt(x, place), place, index))

Places(x)  == {p \in DOMAIN x.say : p # Root}
Honest(x)  == \A p \in DOMAIN x.say : \A i \in DOMAIN x.say[p] : x.say[p][i].is \in {"present", "absent"}

\* Three things the header says of the writer and the code does not do.  An ANY that is present
\* is refused, where der_schema.h:462 has `encode' invoked "for each UNIVERSAL or ANY component's
\* ... content"; so is an untagged CHOICE in a SET, which the check and the reader accept and
\* :463 has sorted "by effective tag"; and the content of an IMPLICIT leaf is not held to the
\* rules of its type, though :460 promises "canonical DER-TLV bytes".
Holds(x, p)   == \E i \in DOMAIN x.say[p] : x.say[p][i].is = "present"
HoldsAny(x)   == \E p \in Places(x) : Holds(x, p) /\ x.D[ComponentAt(x, p).type].kind = "ANY"
ChoiceInSet(x) ==
  \E p \in Places(x) : Holds(x, p) /\ x.D[p[1]].kind = "SET" /\ Transparent(x.D, ComponentAt(x, p))
ImplicitLeaf(x) ==
  \E p \in Places(x) : ComponentAt(x, p).tagging = "IMPLICIT" /\ x.D[ComponentAt(x, p).type].kind = "UNIVERSAL"

\* A repetition below a repetition: both write the records of one array.
Renested(D) ==
  \E outer \in DOMAIN D : D[outer].kind \in Repeats /\
    \E inner \in Reachable(D, {D[outer].element.type}) : D[inner].kind \in Repeats

\* The ends of every element and of every content in v, as offsets.
RECURSIVE Edges(_, _)
EdgesOf(e, from) ==
  LET start == from + Len(e.bytes) - Len(e.value)
  IN  {from, start, from + Len(e.bytes)} \cup
        (IF e.tag # <<>> /\ IsConstructed(e.tag) THEN Edges(e.value, start) ELSE {})
Edges(v, from) ==
  LET es == Split(v)
      At(i) == FoldLeft(LAMBDA n, e : n + Len(e.bytes), from, SubSeq(es, 1, i - 1))
  IN  {from} \cup UNION {EdgesOf(es[i], At(i)) : i \in DOMAIN es}

\* A failure that was located is at an element of the output that would have been, and
\* the bytes it is about stand there.
Located(r) ==
  r.at # Nowhere => /\ r.at \in Edges(r.bytes, 0)
                    /\ SubSeq(r.bytes, r.at + 1, r.at + Len(r.about)) = r.about

WideEnough(x) == x.limits = Ample /\ x.arena >= 200 /\ x.records >= 3 /\ x.capacity >= 200
Complete(x, m) == m.ok /\ ~m.absent /\ Honest(x) /\ WideEnough(x)
WriteAgrees(x, r, m) ==
  /\ r.rc = "OK" => /\ ~m.absent /\ r.bytes = m.bytes /\ (m.ok \/ ImplicitLeaf(x))
                    /\ m.ok => ValidInside(x.D, x.root, Split(r.bytes))
  /\ Complete(x, m) => r.rc = "OK" \/ (r.rc = "SCHEMA" /\ (HoldsAny(x) \/ ChoiceInSet(x)))

\* What the writer composes is the encoding of what the callback says, with defaults left
\* out, SETs and SET OFs in canonical order, and it reads back unless an IMPLICIT leaf
\* breaks its type's rules; a value that is complete is written, unless it holds an ANY or
\* an untagged CHOICE in a SET, which are refused (and WritesNested is about a repetition in a
\* repetition); a refusal does not depend on whether it is located, and a located one points
\* to its place in the output, also after its SET was sorted.
WritesSchema ==
  answer.call = "write" /\ answer.allowed /\ ~Renested(definition.D) =>
      /\ Located(answer.got)
      /\ DerSchemaWrite([answer.args EXCEPT !.locate = ~@]).rc = answer.rc
      /\ WriteAgrees(answer.args, answer.got, Means(answer.args, Root, 0))

\* "tlv_der_schema_write() uses these records to compose SET, SET OF and SEQUENCE OF
\* content" (include/tlv/builtins/asn1/der_schema.h): what is written is a value of the
\* schema, and reads back, also when one repetition holds another.
WritesNested ==
  answer.call = "write" /\ answer.rc = "OK" /\ ~ImplicitLeaf(answer.args) =>
    ValidInside(definition.D, definition.root, Split(answer.got.bytes))
=============================================================================
