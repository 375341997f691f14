# OpenTLV in TLA+

OpenTLV (`src/tlv`) is a C library that reads, writes, edits and queries
tag-length-value data, with bindings for C++, Go, Lua, Python, WebAssembly and Rust.
It has no threads and does no I/O. Everything happens inside calls of its user, on
memory the user lends or through an allocator the user supplies, and it calls back
into the user's code in many places: a format's decoder and encoder, visitors, query
providers, the allocator. What is hard about it is therefore not scheduling but
*sequences of calls*: input that arrives in arbitrary pieces, calls that fail half
way and are repeated, two projections of one cursor used alternately, callbacks that
edit the tree under the operation that called them, handles that outlive what they
denote, and callbacks that lie.

This directory holds TLA+ models of the library's core and of the objects its
bindings keep, TLC runs on small instances, and TLAPS proofs for instances of any
size. Every definition is translated from the source; `PROJECT.json` ("map") says
which lines it stands for.

## 1. The system

| Part | State | Operations | Talks to |
|---|---|---|---|
| Format guard, `format.c` | none | decode, encode, measure | checks every answer of a format's callbacks |
| Fields and compositions, `field/`, `formats/` | a configuration | identifier, length and element, both directions | are a format's callbacks |
| BER, `builtins/asn1/ber*.c` | an explicit stack of scopes during a scan | decode, encode | is a composition with its own value bounds |
| DER/CER, `builtins/asn1/der_*.c`, `cer_*.c` | a stack of open elements during a walk | visit, read, write, segmented strings | BER, value rules |
| Codecs, `codec/`, and builtin value codecs | none | encode/decode one value | element values |
| Reader, `reader/reader.c` | window, cursor, base offset, final flag | init, set_input, next, visit, offset, at_end | pulls through the decode guard, feeds a visitor |
| Tree reader, `reader/tree.c` | a reader, frames `[end, resume]`, a pending container, flags | next_event, next, skip_subtree, set_input, visit | pulls nested scopes through the reader |
| Writer, `writer/writer.c` | buffer and cursor | write_element, copies | writes through the encode guard |
| Tree writer, `writer/tree.c` | a writer, frames, scratch, tag storage, counters | begin, write_element, end, write_event, set_tag_storage, size, measure, measure_events | closes a parent by re-encoding its contents in place |
| Document, `document/document.c` | heap of linked nodes, count, revision, epoch, identities, pending erasures | create, parse, insert, set_value, erase, free, queries, edits of a selection | parses with the tree reader, calls visitors and the allocator |
| Document reader, builder, writer, `document/reader.c`, `writer.c` | builder: an open path kept across calls; writer: a workspace that grows | parse, builder_feed, encode | tree reader and tree writer |
| Queries, `query/compiler.c`, `plan.c`, `execute.c`, `evaluation.c`, `document_backend.c` | a plan; an execution (stacks, selection, cursor, revision, flags) | compile, evaluate, feed, next, visit, exists, edit, reset | document and streaming back ends |
| Schema, `schema/` | tables of the open containers, occurrence counts | check, prepare, validate, report | tree reader |
| DER schema, `builtins/asn1/der_schema.c` | frames, an arena, records, a deferred failure | check, read, write | DER, a caller's callback |
| C++ facade and bindings, `tlv++/`, `bindings/` | checked handles, owners, pins, re-entrance flags | parse, navigate, edit, evaluate, pull, close | the C API |
| Command-line tool, generator, diagnostics | - | - | the C API |

### What is hard, and what makes it correct

* **Incremental input.** One stream cut in any way into windows, with any consumed
  prefix dropped and calls refused in between, must give the same elements,
  verdict and offsets as one read of everything. This holds only if a
  format never changes a verdict because bytes were appended.
* **Untrusted callbacks.** A decode callback may publish any ranges and any code;
  the cursor must stay inside the window and no `size_t` sum may wrap.
* **A traversal with postponed work.** Descending is one call later than the
  container's event, an END may be owed, several scopes may close at one offset, an
  indefinite container resumes behind its trailer, frames hold absolute offsets
  while the window moves: frames must nest, events balance, nodes be the preorder.
* **In-place encoding.** Closing a parent overwrites its contents with its
  own encoding; a failing encoder has destroyed them by then, so they are restored
  from scratch memory. A call that fails changes nothing.
* **Editing a linked tree, with failing allocations.** At any allocation an edit
  must come back to the tree it started from, with nothing leaked.
* **Callbacks inside queries.** Erasures and even the release of the document are
  deferred to the end of the outermost callback, across nested visits.
* **Selections and lazy results.** Edits of several, possibly overlapping targets
  are checked as a whole and applied one by one; a lazily pulled result must never
  be a node that was freed or whose address was used again.
* **Canonical encodings.** Iterative walks with bounds must be the recursive
  grammar, and under DER and CER every value must have one encoding.
* **Two implementations of one meaning.** A query runs on three machines, a schema
  is validated by two validators; both must agree with the definition of the language.
* **Handles across a language border.** A native handle is an address, and addresses
  are used again at once. Each binding has its own way of knowing that a handle has
  expired (a generation, an epoch, an identity, a token), and its own owners and
  re-entrance rules; all must be right in every order of calls and callbacks.

`PROJECT.json` ("hazards") lists each of these at the line where it bites, with
the properties below that would catch it.

## 2. Modules

```
Fields - Ber - Compose - Wire --+                              MCWire
            |    |       Values - Codecs - Canonical - DerSchema   MCSchemas (with Schema)
            |    +---- the BER callback of the readers and writers
Format - ReaderCore --+- Reader ----- refines - StreamReader   MCReader
   |          |       +- TreeReader - refines - TreeWalk       MCTree
   |   ReaderCore_proofs - Reader_proofs, TreeReader_proofs
   +-- WriterCore - TreeWriter ------ refines - TreeBuilder    MCTreeWriter
              +---- Staging
       TreeWriter_proofs
DocumentCore - Document ------------- refines - OrderedForest  MCDocument
           +-- DocumentBuilder
QueryPlan - QueryEval - QueryExecution                         MCQuery
BindingCore - GoBinding, LuaBinding, PythonBinding,
              WasmBinding, CppBinding                          MCBindings
       BindingCore_proofs - Bindings_proofs
```

| Module | Models |
|---|---|
| `Format` | `tlv_format_decode`'s checks of an answer `[rc, where, size, header, value, trailer, tag, bound, constructed]`, and the filter on callback codes. `bound` stands for "the ranges are present and the published views are those bytes"; pointers are not modelled. |
| `Fields`, `Ber`, `Compose` | Field readers and writers on byte sequences; BER's iterative scan and the DER and CER field rules; the TLV, LTV, tagged and packed element codecs. Integers have `UintOctets` octets, so overflow is an ordinary case. |
| `Wire` | A window growing piece by piece in front of one format. |
| `Values`, `Codecs` | Contents of the primitive UNIVERSAL types, and both directions of every value codec (ASN.1, EMV, LLDP, Bluetooth, generic). |
| `Canonical` | The bounded walks, readers and writers of DER and CER, with the recursive grammars they are compared with. |
| `DerSchema` | The check of an ASN.1 definition, its reader with frames, and its writer with arena, records and deferred failures. |
| `Schema` | The check of a graph of tables and the two validators. |
| `ReaderCore` | `tlv_reader_t` as `[base, size, pos, final]` and the functions of `reader.c` as operators. The window's bytes are the stream's bytes `base+1 .. base+size`: handing over the right bytes is the caller's part of the contract. |
| `Reader` | One reader and its caller: `ReaderNext`, `ReaderFeed` (every `set_input`, accepted or refused) and `ReaderVisit` (the loop of `visitor.c`, one step for each callback). |
| `StreamReader` | What a reader promises: one stream, no windows. |
| `TreeReader` | `tlv_tree_reader_t` and `visitor.c`'s tree loop. Loops inside a call are steps (`pc`); the caller acts only when `pc` is idle. |
| `TreeWalk` | What a tree reader promises: the preorder of the recursive reading of the stream, without subtrees that were skipped. |
| `WriterCore`, `TreeWriter` | The tree writer down to the bytes of its buffer, scratch and tag storage. A call's effect is the *set* of its outcomes, because an encoder may fail whenever it is called, after writing what it likes. |
| `TreeBuilder` | What a tree writer promises: a stack of open parents; a call does its step or changes nothing. |
| `Staging` | The measured replay of a whole tree and the caller that repeats it on a growing workspace. |
| `DocumentCore` | `document.c` down to its pointers: a heap of nodes, a stack-allocated holder, a count of live blocks, and `fuel`, the number of allocations of the call that still succeed. |
| `Document` | The document's caller. `stack` holds running callbacks with the node their operation continues from; `loop` is the commit of deferred erasures or the edit of a selection, one node a step; `exec` is the `tlv_query_exec_t`. |
| `DocumentBuilder` | The resumable builder between a tree reader and a document. |
| `OrderedForest` | What `document.h` promises: an ordered forest of identities, a revision for each edit, an epoch for each retirement, identities never reused. |
| `QueryPlan`, `QueryEval` | The compiler from tokens to plan, and the immediate, scope and frame machines. |
| `QueryExecution` | The calls on one execution: configure, feed, visit, pull, exists, reset; and first, as their reference, what an expression selects, defined on the finished tree (`Denote`). |
| `BindingCore` | The native library as the bindings see it, a heap that reuses addresses at once, and the steps several bindings share. |
| `GoBinding`, `LuaBinding`, `PythonBinding`, `WasmBinding`, `CppBinding` | The objects of one language: documents, node handles, programs, executions, with that language's guards. |
| `*_proofs` | Theorems and lemmas, section 5. |

A definition named `X_Bug` (for some `Bug`) before a definition `X` is `X` with a
plausible mistake. Nothing uses it; `PROJECT.json` ("mutants") replaces `X` by it
to show that a property notices.

## 3. Runs

| Run | Shows |
|---|---|
| `wire` | Every composition of fields, BER, DER, CER and every value codec on byte strings over the values they tell apart, grown piece by piece: a verdict other than TRUNCATED is final (`VerdictsAreFinal`); decoders and encoders agree and TRUNCATED is answered only where bytes can help (`RoundTrips`); the iterative walks are the recursive grammars (`WalksMatchGrammar`); one encoding per element (`CanonicalForms`); a decoded value encodes back (`CodecsInvert`). |
| `schemas` | Tables: `DefinitionsSound` (cyclic definitions are checked once and whole), `ValidatesTree` (both validators against the finished tree). ASN.1 definitions: `ChecksDefinition`, `ReadsSchema`, `WritesSchema`. |
| `reader` | All short BER streams and some longer ones, and a callback that lies about sizes, ranges, offsets and codes, with every feed: `ReaderSafe`, `DeliveredTile`, `FinalSticks`, `VerdictSticks`; it refines `StreamReader` (`ChunkInvariant`); it decides (`EventuallyDecided`). |
| `tree` | Nested, empty, indefinite and broken containers under limits that run out: `TreeInv`, `Balanced`, `MoreOnlyAtRoot`; it refines `TreeWalk` (`FollowsWalk`); it comes to an end (`EventuallyWalked`). |
| `writer` | Tree writers over BER and over a user's format with empty tags, an encoder that fails after scribbling, and measured encodings of small trees with growing workspaces: `WriterSafe`; it refines `TreeBuilder` (`Builds`); what was encoded is the tree (`WritesTree`); a replay asks for more only when it needs more (`ReplaysGrow`); the growth loop ends (`EventuallyEncoded`). |
| `document_edits` | Parse and two edits of every kind at every place, with memory, depth, elements and identities running out at any allocation: `TreeOK`, `LocationHonest`; it refines `OrderedForest` (`KeepsPromise`); the resumable builder makes what parsing makes, or nothing (`BuilderParses`). |
| `document_queries` | Evaluate, pull, visit and edit a selection, other edits in between: `SelectionSafe`, `EditPreflight`. Two levels of callbacks that erase, free and try every other call: `CallbacksSafe`, `KeepsPromise`. |
| `query` | Every small query over small trees by feeding, visiting and pulling: the elements selected are the declared ones (`SelectsDeclared`), in the memory the plan reserved (`PlanFits`); existence is what was found (`ExistsHonest`). |
| `bindings` | Programs in five languages: an accepted handle denotes its own node (`HandlesDenote`); no execution outlives what it reads and owners are counted exactly (`OwnershipSafe`); no handle is lost without an edit (`HandlesKept`). In Go the first and the last are claimed while no node was wrapped as another document's (`Tame`). |
| `query_backends`, `der_schema_nested`, `cer_levels` | Violations, each of what a header or a doc says: the findings of section 6. Where a property of a passing run would fail for a disagreement of section 6, it names the case. |

### Bounds, and why they are enough

* *Streams.* The reader sees every stream of up to three bytes over a primitive tag
  (also length 1), an empty length, a constructed tag and the indefinite length,
  which has every verdict and at least one element followed by another; longer
  streams add trailers, errors behind elements, cut values and a stream one byte
  longer than `SizeMax` = 8, which the sums of `reader.c` reach within a run. Tree
  limits: frames, depth and elements each run out alone, and not at all. The proofs
  remove these bounds for safety.
* *Wire.* Two-octet integers, tags of at most three octets, nesting of two (writer
  and tree: three). BER windows have up to seven bytes, DER six, CER nine to sixteen in chunks of
  whole fields, packed tags the offsets 0, 7 and 9. Tables and limits of the source
  are shrunk to be met (`CerMaxSegment` 4, `MaxArcs` 4, `Track2PanMax` 3,
  `Track2DiscretionaryMax` 2, `NumberMax` 3, `NumberListMax` 4, `AflMax` 2).
* *Writer.* Buffer, scratch, frames, depth, elements and storage each run out.
  Three elements allow a parent, a parent within it and a sibling. `GrowMin` 2 and
  `Rounds` 6 let a workspace double more than once.
* *Document.* A behaviour has one `caller`, which says what it calls with: contents, values,
  and how far it goes. `Fuels` lets any of the first allocations of a call, or none, fail;
  `MaxElements`, `MaxDepth` and `IdMax` are met by the second edit; `Addresses`
  exceeds what is alive, and a freed address is used again at once, the worst case
  for stale handles. `MaxEdits` bounds the history: two edits so that the second
  meets what the first left. `MaxStack` is two where nesting is the question: one caller of
  `document_queries` makes any call there, one erases two of three nodes, one rewrites and
  erases in a tree of two. What a path selects is left open: any node may match, so the runs cover all paths.
* *Queries.* Expressions of up to three steps or operators over four-node trees;
  `MaxNesting` 4, `MaxStates` 16 and `MaxPattern` 3 are met.
* *Schemas.* All trees of up to two items over five shapes, three over four, four
  over two; depth 2, three tables, reports of one path tag. About 2,300 definition
  graphs of three ASN.1 types; reads of a root around up to two of fifteen (three of
  six) children under three limits; writes with all callbacks of up to three answers,
  cramped arenas, records, capacities and depths, lying and failing callbacks.
* *Bindings.* Two documents, one execution, two handles, two addresses, three
  identities, three changes, one evaluation inside the program: enough for an
  address to be freed and given to another document's node while a handle to it is
  held. Symmetry permutes the model values.

Deadlock is checked in the reader, tree and document runs. The other runs come to
a stop because windows end, calls are bounded and objects are closed for good.

### Fairness

The library has no thread: fairness is the caller's, or that of a loop inside a call.

* `Reader`: a started visit runs on (it is a loop in one call), the caller
  goes on pulling, and goes on supplying bytes or the final flag while it has any.
  This is the loop `reader.h` documents for NEED_MORE_DATA.
* `TreeReader`: a call runs to its end (weak fairness), and the caller again and
  again pulls an event and supplies what is left (strong fairness, since visits,
  which are several steps, may come between).
* `Staging`: weak fairness of the steps of a measured encoding, which are sequential
  code of one call and of the documented loop of its caller.
* The other specifications have no fairness and no liveness property.

## 4. From code to model

Left out everywhere: NULL arguments (refused before any state is touched), the
data pointers of views, and the wording of diagnostics. Absolute error locations
*are* modelled, as part of a reader's outcome.

* **Reader.** `Advance`, `NextResult`, `SetInputResult`, `SetInput`, `Location` are
  `tlv_reader_next`, `read_impl`, `tlv_reader_set_input` and the error path. The order
  of the refusals is the source's. A visitor answers CONTINUE, STOP, ERROR or
  something that is none of them.
* **Tree reader.** The frame of a container is stored when the *next* call descends
  (`descend_pending`), and an END may be owed (`end_pending`), exactly as in `tree.c`;
  subtractions of the window's base are modulo 2^w (`SizeSub`), so a wrap would show.
  The histories `nodes`, `begun`, `ended` record what was handed out.
* **Tree writer.** Buffers are byte sequences. `end` copies contents to scratch, encodes
  over them and restores them on failure; tag bytes are stacked in storage, where an
  empty tag takes one byte. An event's depth is what its producer believes. A
  measured replay (`Staging`) runs the same operators on a bounded workspace.
* **Document.** Every link is a field and every allocation takes fuel. Wire content is
  what the tree reader makes of it, a sequence of events and a final code. Source
  locations are retained (the option's larger case). The caller keeps the
  document alive while an execution refers to it, as `document.h` requires. Not
  modelled: nodes of another document, read-only navigation, and
  raw re-initialisation of an execution from inside its own callback.
* **Canonical and codecs.** A walk is its loop over an explicit stack; the visitor
  always continues, since one that stops sees a prefix. The stack of open elements has
  `CanonicalMaxDepth` levels, and a step that would store one more is answered OVERRUN,
  which no code of the library is: behaviour is undefined from there. Error offsets of DER and CER
  are left out. Destinations of codecs are large enough.
* **Queries.** Tokens are abstract. Not modelled: the lexer, codec hooks, the functions
  of class, number and name, symbolic names, the work meter, the image's header.
* **Schemas.** An input is what the tree reader makes of the bytes. A DER schema's
  callback answers as a function of the component and the index, as its contract says.
  What a value means (`Means`) is taken from the header: what the callback says of an ANY is a
  whole element, and a SET is ordered by the tags its components have. `WritesSchema` excepts
  by name what the writer does otherwise (`HoldsAny`, `ChoiceInSet`, `ImplicitLeaf`, `Renested`).
* **Bindings.** The native document is reduced to nodes with parents, revision, epoch
  and pending work. Each binding's guard is that of its source, so in Go a node wrapped as another
  document's edits the document it came from and moves the generation of the other. Such a call
  through a node whose memory was freed is undefined and behaviours end there (`Defined`); pulling
  from a freed document may hand out what is left of the selection (`NextFreed`). A refused call that
  changes nothing is no step. Not modelled: garbage-collection order, signals between
  C and Python, custom formats, schema wrappers, children in a query's replacements, a query's
  insertion behind more than one target.

## 5. Proofs

| Theorem | Says |
|---|---|
| `WindowSafe` | `[]ReaderSafe`: types and documented codes; cursor inside window inside stream inside `SizeMax`; no sum wraps |
| `FinalIsFinal` | final input is never reopened; the absolute cursor moves only with a delivery |
| `ElementsTile` | delivered elements lie end to end from the stream's start to the cursor |
| `ChunkInvariance` | `PrefixStable => (Spec => ChunkInvariant)`: the windowed reader implements `StreamReader` |
| `VerdictIsLast` | `PrefixStable => (Spec => VerdictSticks)`: after a verdict no call delivers or reports anything else |
| `TreeInvariant` | `[]TreeInv`: types; frames stay in the caller's array and nest, limits hold, no subtraction wraps |
| `BytesOnlyAtRoot` | NEED_MORE_DATA only at the root with nothing owed |
| `EventsAreBalanced` | every END closes the innermost open BEGIN, whatever events, nodes and skips are mixed |
| `TreeFollowsWalk` | `PrefixStable /\ Headed => (Spec => FollowsWalk)`: the tree reader implements `TreeWalk` |
| `WriterStaysInside` | `EncoderSound => (Spec => []WriterSafe)`: buffer, frames, limits and tag storage |
| `WriterBuilds` | `EncoderSound => (Spec => Builds)`: the tree writer implements `TreeBuilder` |
| `ReplaysOnlyGrown` | `FormatsSound => (StageSpec => ReplaysGrow)`: a measured encoding is replayed only for a shortage of its own workspace, once that has grown |
| `BindingHandlesDenote` | `[]HandlesDenote` for programs in Go, Lua, C++ and WebAssembly: an accepted handle denotes the live node it was made for (Go: while `Tame`) |
| `BindingHandlesKept` | `HandlesKept` for the same four: a handle expires for good, and only with an edit or the closing of its document (Go: while `Tame`) |
| `BindingOwnershipSafe` | `[](Tame => OwnershipSafe)` for the same four: programs and documents live exactly as long as they have owners, and counts are the number of these |

The reader and tree reader theorems hold for *every* set of streams, every `SizeMax`,
frame capacity and limits, and every decode callback; the writer's for every format,
set of tags and values, buffer, frame array, scratch, storage and failing encoder (for a
measured encoding also every source, tree and allocator); those of
the bindings for every number of documents, executions, handles, addresses, edits and
evaluations inside evaluations.
Assumptions on constants: `SizeMaxAssumption` (positive), `LimitsAssumption`
(naturals), `CallbackAssumption` (streams are finite sequences and an answer has an
answer's shape; nothing is assumed of what it says), and for the writer
`LeftoversAssumption` and `CallerAssumption` (what a failed encoder leaves behind and
what a caller passes are byte sequences), `GrowAssumption` and `JobsAssumption` (a tree's
nodes hold octets, and its links lead to nodes or nowhere), and for the bindings `BindingBounds` (bounds are
naturals, NULL is none of the objects, there are finitely many addresses and some
document). Hypotheses of theorems:

* `PrefixStable`: a verdict other than TRUNCATED on any window is the verdict on
  the whole rest of the stream, located in that window. No library can enforce that of
  a user's callback. `VerdictsAreFinal` of the run `wire` is this fact for the shipped formats.
* `Headed`: a container has a header (`value.offset > 0`). `format.h:142` lets a callback
  answer with an empty one; then a container begins where its first child begins, and
  offsets do not order the nodes. `BerIsWalkable` of `MCTree` has TLC evaluate both
  hypotheses for every stream of the run `tree`.
* `EncoderSound`: an element the encoder can encode is a sequence of octets. The shipped
  encoders put sequences of octets together, so for them it holds by definition.
  `FormatsSound` says the same of the formats of measured encodings, and that a failing
  encoder stays inside its destination; it is no assumption on constants because the
  workspace has no greatest size.

`StageSpec` is the part of the run `writer` that starts in `StageInit`: a measured encoding
and the caller's own writer do not run at the same time there.

The arguments:

* `DecodeSound` reduces everything a callback can say to one fact: what
  the guard lets through is a nonempty element inside the window with ranges that
  partition it. `PullSound` and `SetInputSound` lift it to a pull and a feed.
* The reader's inductive invariant is `ReaderInv == TypeOK /\ WindowInv /\
  DeliveredType`: the window needs types for arithmetic, and an element appended to
  the history has its type only because the window lies within the stream.
  `ElementsTile` is a second induction on top of it. `VerdictIsLast` adds
  `VerdictInv`: a verdict returned is what one decode of the whole rest of the stream
  at the cursor says, which no feed changes.
* `ChunkInvariance` is a refinement proof: initial states map to initial
  states, each pull is `Deliver`, `End`, `Fail` or a stutter, and a feed is a stutter.
* The tree reader's invariant is `TreeInv == TypeOK /\ FramesSafe`. "Depth is within capacity"
  is not inductive alone: that closing a scope moves the cursor forward needs `resume`
  to lie behind the cursor and inside every outer scope (`ScopesNest`), and that in turn
  needs a pull inside a scope to be a pull on a window cut at the innermost frame's end
  (`ScopeIsWindow`). One lemma per kind of step (`CloseKeeps`, `PullKeeps`,
  `SkipKeeps`, `FeedKeeps`) preserves it.
* `EventsAreBalanced` needs `EventsInv`: the open BEGINs match the scopes one by one;
  only the last can be skipped, and only while its END is owed; and no node-only pull came
  before, so a skip never drains an END that was announced.
* `TreeFollowsWalk` is a refinement proof against a recursively defined walk. That the
  recursion has a solution at all is shown by filling the walk in from the scopes that can be
  reached from a scope (`FilledSolves`, `EntriesSolve`); that all entries of a scope lie inside
  it, by a least counterexample (`PartInside`). The invariant `WalkInv` says that what is left
  of the walk (`Unread`) is the walk's entries from the place where reading resumes, and that a
  pending container is the last node and was not skipped. One lemma for each kind of step
  (`PullUnread`, `CloseUnread`, `SkipUnread`, `SameUnread`) moves or keeps `Unread`.
* The writer's invariant `WriterInv` says that starts and tag storage of *all* frames
  nest pairwise, not only those of neighbours: END drops frames, and BEGIN or
  WRITE overlays the buffer behind every open parent. On it rests `WriterBuilds`: the
  buffer between the starts of two frames is exactly what the outer one holds, in-place
  encoding replaces the innermost part only, and a failure writes back what it
  found, so every call is `TreeBuilder`'s step or a stutter.
* `ReplaysOnlyGrown` rests on `StageInv`: a request for storage is made only by an event that
  was neither refused nor failed, for more than the draft's buffers hold, and stands until the
  next replay. That these buffers are the workspace needs `WriterInv` of the measuring writer,
  so the writer's lemmas are stated for any writer and limits (`Fits`); that sizes are numbers
  needs both sources to stay on the job's nodes (`SourceOK`).
* `BindingHandlesDenote` rests on `BindingInv`. Its native part, `Sound`, says that the heap
  is well formed (`Heap`: a parent is an older node of the same document, a live node's
  document is alive, a marked node's document has an erasure pending) and that an execution's
  results are nodes of its document as long as the revision has not moved (`Picked`). One
  lemma for each native operation shows that it keeps this and that it `Evolves` one document:
  nodes of other documents stay, a node that appears is new, and a node goes only with a new
  revision and a new epoch. Parents being older is what makes a subtree closed under
  children, so that freeing it leaves no dangling parent. The shared part, `Base`, adds the
  binding's objects, their lifetimes (an open document is alive, a handle's document was
  parsed), and that each running evaluation is of an execution of its own (`Running`). Each
  binding adds what its check relies on. Go: a handle of the present generation denotes its
  node, and the document's evaluation count is the native one, so that an edit let through is
  never put off (`Counted`, without which the generation would move before the nodes go).
  Lua: a handle that was not cleared denotes its node; this needs the clearing of a subtree
  to reach every handle below it. C++: a handle that saw the present epoch denotes its node,
  or else its address and identity are looked up again; edits in callbacks *are* put off
  there, and a document that waits to be freed is closed (`CppDocuments`).
  WebAssembly asks the native document alone, so its handles denote because identities are never
  used twice; its visits put entries on the call stack that are no evaluations (`WasmCalls`).
* `BindingHandlesKept` needs that a handle, once refused, stays refused: a generation or an epoch
  has moved on, or the handle was cleared, and none of these is ever taken back (`Outlast`,
  `LuaLast`, `CppLast`, `Newer`).
* `BindingOwnershipSafe` needs the count of leases and owners behind each lifetime (`Owned`: what
  is lent is what the program owns and what is leased). In WebAssembly it is a
  reference count, and the invariant `WasmInv` equates it with the cardinality of the set of
  its holders (`Sharing`), which every retain, release and failing call moves by the same amount.
* `FacadeInv` joins the four bindings' invariants. It is not inductive for Go: an edit through a node
  wrapped as another document's frees nodes and moves the wrong generation. The invariant of the
  theorems is therefore `TameInv == Numbered /\ (Tame => FacadeInv)`. `TameBefore` shows that a
  state is tame only if the one before it was, since a handle is never made anew and keeps both its documents;
  so the steps to be considered start in `FacadeInv`. `Numbered`, that Go's handles
  are a function of the handles, is all that has to hold once a behaviour is no longer tame. Each theorem says "in Go, Lua, C++ and
  WebAssembly" because a behaviour stays in the binding it starts in.

Before they were proved, TLC checked the inductive invariants on the instances of the runs:
`TameInv` on the 1,178,414 states of `bindings`, `WalkInv` on the 99,331 of `tree`, `StageInv`
on the 106,271 of `writer`. No cfg of the project repeats that.

Model-checked only:

* liveness (`EventuallyDecided`, `EventuallyWalked`, `EventuallyEncoded`);
* what is recursive on data. The modules `Wire`, `Canonical`, `DerSchema`, `QueryPlan`,
  `QueryEval`, `QueryExecution` and `MCQuery` use RECURSIVE operators, which the prover
  cannot reason about; the sibling chains, the preorder and the folds over events
  of `DocumentCore`, and the reference tree of `Staging` (`WritesTree`)
  are recursive functions or folds whose meaning needs induction over data. So the invariants
  of `Document` stay with TLC: already that no link leads to a freed node (`CursorsLive`) needs
  a subtree as computed to be closed under its links;
* the schema validators, whose properties compare with such references;
* the bindings' properties for Python, whose token paths are recursive functions.

## 6. Findings

Registered, each with a run of its name:

* `query_backends`: for `70//.`, `70//self::*` and others the streaming machine and the
  retained and Document evaluations select different elements (`execute.c:493`), where
  `docs/concepts/query-language.md:297` promises equivalent results.
* `der_schema_nested`: `encode_set_of_content` and `encode_sequence_of_content` keep their
  records in `wctx->scratch` from index 0 at every nesting level (`der_schema.c:1055`,
  `:1117`). A repetition inside a repetition is written, with success, as something else.
* `cer_levels`: with `max_depth` 0 a CER write never meets its depth limit, because its walk starts at
  depth 1 and compares for equality, and stores past `levels[TLV_CER_MAX_DEPTH]`
  (`cer_validation.c:180`, `:184`, `:376`); `cer_validation.h:23` says zero is a real limit.

Disagreements with a header that the properties of passing runs name as exceptions, without a run
of their own:

* *Go nodes* (`HandlesDenote`, `HandlesKept`, `OwnershipSafe`; `Tame`, `Strayed`).
  `EvaluateDocument(d2)` without `Reset` after one of d1 is refused natively, but the execution
  already names d2 (`program.go:650`). `NextDocument` wraps d1's nodes as d2's; an edit through one
  leaves the other handles of d1 valid over freed nodes, and expires handles of d2. And d1 may be
  closed while the execution, which checks d2, still pulls from it (`:697`). `document.go:90` calls a
  node "a checked reference" that any successful edit invalidates, and `program.go:689` what
  `NextDocument` returns "a checked snapshot handle".
* *DER schema writer* (`WritesSchema`). It refuses an ANY that is present (`der_schema.c:1234`,
  exception `HoldsAny`), whose content `der_schema.h:401`, `:411` and `:462` say is requested, and an
  untagged CHOICE in a SET (`:882`, `ChoiceInSet`), which the definition check and the reader accept.
  The content of an IMPLICIT leaf is held to its constraint only (`:1195`, `ImplicitLeaf`), so
  what was written with success may be refused when read.
* *DER schema reader* (`ReadsSchema`, `Loose`). The content of an ANY is admitted one level beyond
  `max_depth` (`der_schema.c:455`), against the conventions `der_schema.h:334` refers to.
* *CER writer* (`CanonicalForms`, `WriterLax`). The content of a constructed element is not
  compared with `max_value_size` (`cer_validation.h:61`), and with `max_depth` 0 children are
  written. A constructed element of a primitive-only type is written and cannot be read
  (`cer_validation.c:370`, `cer_validation.h:162`).
* *CER strings* (`CanonicalForms`, `SegmentsRewrite`). The initial octets of the segments of a BIT
  STRING count towards the threshold (`cer_values_internal.c:156`), so a full segment and one with
  no bits are accepted for a value that `cer_validation.h:41` wants primitive.
* *Schema report* (`ValidatesTree`, `DeeperThanPath`). `schema.h:581` documents LIMIT for a schema
  deeper than `TLV_DIAGNOSTIC_PATH_MAX`; the report goes on with a truncated path (`report.c:201`).
* *Identities* (`EditPreflight`). Running out of identities gives OVERFLOW (`document.c:208`),
  documented as LIMIT (`document.h:193`).
* *Visitors* (`ReaderSafe`, which admits both codes). An unknown visitor answer gives CALLBACK
  (`visitor.c:62`), where `visitor.h:67` documents VISITOR; so does the tree visit (`:41`,
  `visitor.h:108`).
* *Existence* (`ExistsHonest`). A retained execution whose results were pulled answers that nothing
  exists (`execute.c:1061`); `program.h:688` says matches observed earlier remain part of existence.

Also met while modelling, where no doc says otherwise, two texts differ, or the part is not modelled:

* *Queries.* The compiler accepts `70[following::5A and tag-mask(x'02',x'FF')]`
  (`compiler.c:769`) and `70[ancestor::70/.]` (`compiler.c:896`), whose plans
  `tlv_query_plan_open` refuses (exceptions `FoldedReverse`, `LoweredGlobal` of
  `PlanFits`). No execution calls it on them.
* *C++.* `reset()` leaves `has_document_`, so after one Document evaluation `exists` and
  `visit` on a reader answer INVALID_ARG for ever (`program.hpp:428`).
* *DER schema.* `max_set_elements` is never used.
* *Schema.* For an empty described container at the greatest depth `validate` and `validate_all`
  differ (`report.c:199`): the report answers the LIMIT it documents, at another depth.
* *CER.* The depth of segmented strings is not limited on writing. `strict` accepts constructed
  universal types without a rule.
* *EMV.* A primitive tag also inherits BASE, where `emv.c` says only templates do. Digits padded
  beyond a byte decode but may be too long to encode again (exception `PaddedDigits`).
* *Rust.* An embedded NUL silently truncates Track 2 data (`codec.rs:478`).
* *Document.* A path visit inside an evaluation callback is not rejected
  (`document/query.c:8`, `document.h:517`); it is harmless.

## 7. Not modelled, and the plan

Not modelled: the command-line tool, the generator and the diagnostics (text and I/O); the EMV
and other dictionaries (tables); the structure codec, DOL parsing, message checks of DHCP, Bluetooth and
LLDP; queries over schemas; the preserving copy of the writer; the conversions, readers, writers and
schema wrappers of the bindings, which forward to the C calls, and Rust, where lifetimes are checked by
the compiler. A large part of the repository's lines are such tables, wrappers and adapters: the map
covers the logic, and its share of all lines is lower than its share of what can go wrong.

Next theorems: a closed heap for `Document` (links lead to live nodes, and freeing a subtree
frees all that links into it), from which `CallbacksSafe` and `HandlesCurrent` follow; it needs the
chains of siblings as functions with a solution, in the way of `EntriesSolve`. Then the bindings'
properties for Python, from `Base` and the token paths.
