# A TLA+ model of zarr-inline

zarr-inline keeps a whole Zarr v3 hierarchy in one JSON document: every store
entry (a key and its bytes) is one member of the document. The repository
implements the store, the transform between bytes and members, the validator
and a codec three times, in Python, TypeScript and Rust. This directory holds
TLA+ models of that code, the TLC runs that check them on small instances, and
proofs, checked by TLAPS, of what matters most for instances of any size.

```
tlc -config MCPyStore.cfg MCPyStore.tla       # one run
tlapm PyStoreProofs.tla                       # the proofs of one component
```

`PROJECT.json` is the index: the components, the runs, the source lines of every
definition, the hazards with the properties that cover them, the disagreements
found between code and documentation, and for every property a mutation of the
model, written like a plausible bug, that the property catches.

## The system

| component | state | operations | interacts with |
|---|---|---|---|
| entry transform (`document.*`) | none | `encode_value`, `decode_value`, canonical serialization, strict parsing | called by every store |
| validator (`validator.*`) | none | `check_key` (R1, R2), `validate` | a store's constructor and its writes |
| Python store (`store.py`) | dict, skip set, shared by views; `asyncio.Lock` | construct, `with_read_only`, `get`, `set`, `set_json`, `delete`, `exists`, listing generators | calls `load` and `persist` of its backing |
| backings (`backing.py`, `backing.ts`) | the dict itself, a string, or a file | `load`, `persist` | called by a store; persist may raise |
| TypeScript store (`store.ts`) | object, skip set, promise-chain mutex | `get`, `getRange`, `set`, `setJson`, `delete`, `has`, `list` | as the Python store, by promises |
| Rust store (`store.rs`) | map and skip set, each in an `RwLock` | `get`, `set`, `set_json`, `set_partial_many`, `erase`, `erase_prefix`, listings, sizes | threads, no backing |
| document codec (`serializer.*`) | the counters of a walk over memory | gather, nest, flatten, scalars to tokens and back | array layer above the store |
| conversion (`convert.py`) | none of its own | `from_zarr`, `to_zarr`, `verify` | two stores |
| conformance (`conformance.*`) | the report being built | issues, decoded and re-encoded values, errors of a document | validator, transform |
| cross-check (`crosscheck/`) | one document, a trace | create, write and read arrays; read nested shards | zarrita, codec |
| browser page (`main.ts`, `jsonpanel.ts`, `url-state.ts`) | document, panels, cache of reads, address, timer | load, select, edit, display, write the address | TypeScript store, codec |
| browser tree (`model.ts`) | nodes by path | one pass over metadata keys, one over the others | page |
| browser viewer (`viewer.ts`) | which dimensions are drawn, where the others are sliced | choose a role, slide, show another array | page |

What makes each correct:

- *Transform*: bytes read are the bytes written, except that a metadata key
  returns the canonical form. Inlining must never lose a byte.
- *Stores*: the skip set of a lenient store stays exactly the set of keys the
  validator reports; hidden members survive every re-persist; a failed set or
  delete changes nothing; what the backing holds follows the document; the
  whole is linearizable to a map from keys to bytes.
- *TypeScript's mutex*: calls take effect in call order and all settle.
- *Rust's locks*: no lost partial write, no deadlock, reads see one instant.
- *Listings*: no key missed that stays, none twice.
- *Codec*: what nobody edited is read back as it was; an edited text decodes to
  what it says or not at all.
- *Conformance, cross-check*: the report speaks of every key; a trace of array
  operations keeps one contract, whatever chunks, edges and dtypes it meets.
- *Byte ranges*: the languages agree inside a value, and differ as documented
  outside.
- *Browser*: panels and address are of the document the page holds, whatever
  overtakes what; every key has one place in the tree; what is drawn is in
  the array.

What is hard in it: a `persist` that raises in the middle of a mutation, a file
that is truncated before it is written, a process that dies in between, calls
queued behind one another with buffers still owned by the caller, two locks for
one piece of state, generators suspended while the store changes, and an
invariant (the skip set) maintained by hand instead of recomputed. In the
browser: timers, compressions, fetches and reads that settle in any order, each
guarded by an epoch or a comparison of its own.

## Modules

| module | models |
|---|---|
| `StoreKeys` | keys as sequences of segments, R1, metadata keys, directories |
| `InlineDocument` | JSON values, byte strings, `encode_value`, `decode_value`, R2 |
| `JsonDocument` | the document with the order of its members; put, remove, undo; what validating it reports and what it contains |
| `ByteStore` | abstract specification: what any of the stores promises, of what is read and of what is kept |
| `PyStore` | the Python store over its backings |
| `PyListing` | the listing generators of the Python store, beside all its other methods |
| `TsStore` | the TypeScript store with its mutex |
| `RustStore` | the Rust store with its two locks |
| `SharedDocument` | several TypeScript stores over one `MemoryBacking` |
| `ByteRange` | the partial reads of the three languages, and a reader that fetches a value by pieces |
| `TsDocument` | parsing, canonical printing and the entry transform of TypeScript, on JSON tokens |
| `CodePoints` | `compareCodePoints`, one turn of its loop at a time |
| `Conformance` | the conformance harness of TypeScript |
| `ChunkIndex`, `Scalars` | indices in C order; elements and JSON scalars |
| `ChunkWalk` | the walk over the elements of a chunk in strided memory (`chunkElements`) |
| `Codec` | the `json` codec of TypeScript, which begins with that walk |
| `ArrayTrace` | abstract specification: the contract of a trace of array operations |
| `Crosscheck` | the crosscheck harness of TypeScript over a document and chunks |
| `Sharding` | its reader of nested shards |
| `BrowserApp` | the page of the document browser |
| `ViewerRoles` | the array viewer's choice of dimensions |
| `Hierarchy` | the tree of groups and arrays made of a document's keys |
| `JsonDocumentProofs` | lemmas about documents, the transform, and what filtering keys leaves |
| `PyStoreProofs`, `TsStoreProofs`, `RustStoreProofs`, `SharedDocumentProofs` | the inductive invariant of each module and its theorems; `PyListing` is with `PyStore` |
| `BrowserProofs` | those of `BrowserApp` and `ViewerRoles` |
| `StringProofs` | those of `CodePoints` and `ByteRange` |
| `ArrayProofs` | those of `Crosscheck` with `ArrayTrace`, and of `ChunkWalk` |
| `MC*` | the instances for TLC |

`JsonDocument` extends `InlineDocument`, which extends `StoreKeys`. The three
stores extend `JsonDocument`, and each instantiates `ByteStore` with a
refinement mapping. `PyListing` extends `PyStore`, and its next-state relation
contains every action of it. `Crosscheck` instantiates `ArrayTrace` with a
refinement mapping. `Conformance` extends `TsDocument`, `Codec` extends `ChunkWalk`.

### Data

A key is the sequence of its segments, which loses nothing, so R1, the metadata
suffix and directories are exact. JSON contents are payloads without structure.
A byte string is the canonical serialization of an object or array, another
text that parses to one ("loose": spaces, escapes, `1.0`), or neither
("opaque"). That is what the code's decisions depend on: does it parse, is it an
object or array, does it serialize back to the same bytes. Payloads in
`Surrogate` hold a string with a lone surrogate, which parses but has no
canonical form and no UTF-8 form. In Rust strings have none: `Surrogate` is empty
there.

A document is a record of its members (`at`) and of their order (`order`),
because where a member stands is what several of the disagreements below are
about.

### PyStore

No critical section of the Python store awaits anything, so on an event loop a
method runs from call to return without interruption, and each is one action
whose disjuncts are its outcomes. `Persist` returns the set of the outcomes of a
backing: memory and string backings replace what they hold; a file may fail
before it is opened, after `write_text` has truncated it (`Torn`), or when it is
closed, with the whole new text in it. Whether a `persist` fails is
nondeterministic where a disk can fail, and forced where the text cannot be
encoded. `CrashWhileWriting` ends the process while the file is truncated,
`Close` anywhere else (a crash with the whole text in the file is a set that
fails like that, followed by `Close`); `Open` constructs a store again from what
the backing holds. `views` are the objects `with_read_only` makes, which share
one dict and one skip set; that the skip set is one variable is `store.py:81`,
and no property tests it. A caller's own backing is modelled in TypeScript only.

`ByteStore` therefore has two maps: `contents`, what reads return, and `kept`,
what the next store would find. An operation that reports an error changes
nothing of `contents`. Of a store on a `Fragile` medium, a file, it may change
`kept`, at its own key as if it had succeeded, or lose all of it.

### PyListing

A generator takes the keys when first asked and yields them one at a time;
between two yields every action of `PyStore` may happen. `began` and `steady`
are history variables: what was shown at the beginning, and all along.
Prefixes are directories (whole segments, which is how zarr calls these
methods); `list_prefix` with a prefix that ends inside a segment is not
modelled. `list` is `list_prefix` of the root.

### TsStore

A call checks what it checks before `#withLock`, then is appended to `calls` with
the promise it is chained to (`after`); it runs when that promise is fulfilled
and is told its result later (`Tell`). The order of `Tell`s is left open, which
allows more interleavings than the microtask queue. `Refill` is the caller who
writes into the `Uint8Array` it has passed to `set`, which the store reads only
when the call's turn comes. `StringBacking` fails whenever the document holds a
member without canonical form, before it replaces its text. "custom" is a
`Backing` of the caller's. The interface (`backing.ts:44`) promises nothing of a
`persist` that throws, and the model assumes nothing: it may throw at any call,
with the old document stored, the new one, or anything in `Debris`, a constant
that the proofs leave open (any documents, and `Torn`, which does not load).
One that returns is taken to have stored the document. So `DurableInSync` is
about the shipped backings always, and about a caller's whenever its last
`persist` returned (`Persisted`): the next success repairs what failures left.
`FailureChangesNothing` says of every backing that the members, after a `set`
also their order, and the skip set are restored; of what is stored only that the
shipped backings do not change it, nor does any when the call was refused before
its turn. `UnknownPreserved` speaks of what is stored between `persist`s that
returned. Nothing reopens a store here: `kept` of `ByteStore` is what is read.
JavaScript's own order of integer-like property names is in `TsDocument`.

### RustStore

A thread goes through the lock acquisitions of an operation one at a time;
`holds` is what it has. Reads and writes both take the document's lock first.
`expected` is a history variable: the contents that the writes that took effect
give one after the other. Offsets and values of a partial write are a patch,
and `Overlay` is what overwriting does to bytes; the theory of byte offsets is
abstracted. `RwLock`'s preference for writers only removes behaviours, and none
in which a thread acquires the same lock twice exists in the code. Listings, sizes
and poisoned locks are not modelled.

### SharedDocument

`MemoryBacking.load` hands every store the same object. A TypeScript call works
under its store's lock in one piece, so calls of different stores alternate as
a whole; `TsStore` has the interleavings inside one store. Each store computes
its skip set when it is constructed (`Open`, at any time) and maintains it in
its own calls only.

### ByteRange

`ApplyRange` is the slice of Python and TypeScript, which clamps; `Partial` is
Rust's, with checked arithmetic below `Width` and an error outside the value.
`GetNext` is a reader that fetches a value from the front on; `Replace` changes
the value under it.

### TsDocument and Conformance

A text is a tree of tokens that keeps what the transform distinguishes: an
integer literal, `-0`, a point, an exponent, a string that is spelled the
canonical way or not, spaces or none, base64 or not. Numbers are counted in
halves and the limits 2^53 - 1, 10^21 and the largest float64 are scaled down
(`Safe`, `Huge`, `Largest`). `ObjectOf` has the order JavaScript gives members:
index-like names first, a repeated name where it first came. `Conformance` walks
the members of a document one at a time; its maps are plain objects, so a key
`__proto__` is no member of them.

### CodePoints

A string is a sequence of 16-bit code units, surrogates in any places among
them. An action is one turn of the loop. `ComparesCodePoints` compares the result
with the order of what the strings spell: `Spelled` has one number for each place
that is not the second half of a pair.

### ChunkWalk, Codec

`Gather` is one turn of the loop of `chunkElements` with its counters, for any
strides. It is a module of its own so that it can be proved about; every other
action of `Codec` leaves its variables alone. `Encode`
nests and prints, `Replace` and `Edit` stand for a person who edits the text,
`Decode` flattens and checks. Widths are scaled down (`IntRange`, `FloatMax`), and
bigints are kept apart from numbers.

### Crosscheck, Sharding

A document is the metadata of its nodes and the chunks somebody wrote. zarrita
is external and modelled by what the harness needs of it: a write reads each
chunk its region meets, replaces the part inside and writes it whole. A region
may stick out of the array, a chunk out of its edge, a parent may be missing or
be an array. `Lawful` is what the input contract says of a request by itself,
whatever the document; the constant `Legal` of `ArrayTrace` is the set of those
requests. `Arrays` is the refinement mapping: each array as the elements its
chunks make up, zero where there is no chunk. `Sharding` reads a shard inside a
shard by its index; an entry may mark a missing chunk, half mark one, point
outside, or span several blobs. A span that ends in a shard is read as that
shard with the blobs before it as the head of its data (`ChunkAt`), because the
reader finds an index by counting from the end.

### BrowserApp

JavaScript runs one handler at a time, so an action is a handler up to its
first `await`, or what follows one when its promise settles. `loads`, `reads`
and `syncs` are the promises under way, `timer` the delayed write of the address;
they settle in any order. A document is a model value of which it matters
whether it can be printed, whether it can be serialized and whether it fits a
URL. The two ways of writing differ at a lone surrogate: `canonicalStringify`
throws on one in a string or in a name (`Unserializable`), `prettyJson` only on
one in a string (`Unrenderable`), because it prints names with `JSON.stringify`
(`jsonpanel.ts:39`). A document with a lone surrogate in a name is therefore
shown, but the timer throws (`main.ts:110`) after it has taken an epoch, and
writes no address. `editors` may go on writing into an older document object,
which is why it is a variable.

### ViewerRoles, Hierarchy

`ViewerRoles` has one action for each choice in the menus of `applyRole`, with
its swaps, and `Show` for another array at the same path, whose state was
saved. `Hierarchy` visits the metadata keys, then the others, in every order.
`EveryKeyInPlace` is about documents whose keys R1 accepts (`KeysWellFormed`):
another key may be handed to a node it is not below, as shown below.

## Runs

| run | instance | properties |
|---|---|---|
| `py_store` | 3 keys (metadata, chunk, malformed), 2 payloads, 2 byte strings and 2 JSON values, 3 initial documents, 2 views, memory and file | `TypeOK`, `SkipExact`, `DurableInSync`, `FailureChangesNothing`, `UnknownPreserved`, `ImplementsByteStore` |
| `py_listing` | 3 keys in two directories, one hidden; one listing | `ListsSteadyKeys`, `YieldsOnce` |
| `ts_store` | 3 keys, 2 calls in flight, all backings; a caller's that throws holds either document, another one, or nothing that loads | as `py_store`, without `TypeOK` |
| `ts_queue` | 1 key, 3 calls in flight, persist may throw | `ReadsFollowCalls`, `EveryCallSettles` |
| `rust_store` | 3 keys, 2 threads, 4 operations, 2 patches | `SkipExact`, `NoLostUpdate`, `NoDeadlock`, `ImplementsByteStore` |
| `browser` | page: 5 documents (empty, good, too large, shown but not serializable, not even shown), 2 paths, 3 inputs; viewer: rank up to 3; tree: 7 keys | `TypesOK`, `DisplayFresh`, `PanelsShowDocument`, `EveryDisplaySettles`, `AddressOfTypingCatchesUp`; `RolesDistinct`, `PlaneOfThreeUp`, `NeverPastEnd`; `EveryKeyInPlace` |
| `arrays` | codec: chunks of 7 types and rank up to 3, edits at every place; shards of shards, with entries that span two; traces of 3 operations over 4 documents | `RoundTrip`, `DecodesWhatIsWritten`, `GatheredInOrder`; `ReadsSoundOnly`; `KeepsContract` |
| `documents` | 3 stores, 3 keys; reports of 2 members; strings of up to 3 of 5 code units; values of 4 bytes, ranges below 8 | `NothingInvalidShown`, `StaysShown`; `Lossless`, `EveryKeyReported`; `ComparesCodePoints`; `StoresAgree`, `PiecesMakeValue` |
| `py_failed_set_file`, `rust_member_order`, `browser_link`, `viewer_pixels` | as above, smaller | one documented statement each, which the code does not satisfy |

`browser`, `arrays` and `documents` each check several modules that share no
state, side by side: `part`, chosen by the initial state, says which module a
behaviour belongs to, and the variables of the others stay in one initial
state. The state space is the sum of those of the modules, not the product.
In `browser` the page is taken twice, once with the inputs that write the
address bar themselves and once with those that leave it to the timer.

Why the bounds are enough. Every store's operations concern one key at a time,
so one key of each class (metadata, byte, malformed) meets every branch; a
second member is needed for the order and for members that must stay as they
are. The payload with a surrogate reaches each failing serialization; in Python it
comes by `set_json` and in initial documents, canonical bytes by `set_json`
only. The Python run has no bound on its length at all, and neither have the
stores of `SharedDocument`. Two calls of TypeScript give every pair of an
operation and a failure before it; three give a failure between a write and a
read. In Rust a lost update takes two partial writes of one thread each, and the
cases with hidden members a third operation. Three inputs to the page give a
load, an edit in the flight of what the load started, and one more input that
overtakes either. Rank three is the first with a dimension that is neither X nor
Y, and in the codec the first with a counter between the first and the last.
Traces of three operations create, write twice and read; the initial documents
already have nested nodes, and arrays where groups are wanted. The five code
units are one below the surrogates, one above, and three that make two pairs
with one first half. Initial documents of the stores include hidden members of
each kind, a valid document whose chunk does not decode, and a chunk in base64
that is canonical JSON.

`MaxCalls`, `MaxListings`, `MaxInputs` and `MaxOps` are the only bounds on
behaviours; `ByteRange` bounds the pieces by the length of the value. Deadlock is
looked for in the Python and TypeScript stores. Elsewhere the
system stops when what it was given is done (`CHECK_DEADLOCK FALSE`): a report,
a trace, a tree, a page with no input left. In `rust_store` threads are idle once
`MaxCalls` operations are done, and `NoDeadlock` states what matters instead.
The type invariants of `TsStore` and `RustStore` are part of no run: they are
proved.

### Fairness

`TsStore`: weak fairness of running a call whose turn has come and of telling
its caller, which is what an event loop does with due microtasks.
`BrowserApp`: weak fairness of a timer firing and of each kind of promise
settling, with success or failure; one of the promises under way settles, not
always the oldest. Nothing obliges a program to make a call or a user to make
an input. `EveryCallSettles`, `EveryDisplaySettles` and
`AddressOfTypingCatchesUp` are the liveness properties.

### What the runs show

The stores are linearizable to `ByteStore`, with failed calls having no effect on
what is read, and keep the skip set exact. Stores that share a document never show an invalid
member, and never stop showing one that stays, though their skip sets differ.
The harness keeps the contract of `ArrayTrace`. The codec loses nothing
but the sign of zero. The page, once everything has settled, shows the document
it holds. The disagreements with what the repository says of itself:

- `py_failed_set_file`: a `set` on a `FileBacking` that fails while writing
  loses the document on disk, because `write_text` truncates first. The dict in
  memory is restored.
- `rust_member_order`: `erase` is `Map::remove`, a swap-remove under
  `preserve_order`, which moves the last member.
- `browser_link`: a compression begun for one document is not superseded by a
  load that does not begin another, and writes the older document into the
  address bar (`main.ts:109`).
- `viewer_pixels`: with two dimensions, slice for Y and then Y for the
  dimension that is X leave X without a dimension, and the image has width
  `shape[-1]` (`viewer.ts:170`).

Noted while modelling, without a run of their own:

- A failed `delete` puts the member back at the end of the document
  (`store.py:185`, `store.ts:209`). In TypeScript it needs no failing disk: a
  `StringBacking` over a document with another member it cannot serialize fails
  each time.
- `with_read_only` (`store.py:74`) reads the backing again, only to discard what
  it read, and raises if the file does not parse.
- A member another store made valid stays absent in a store that skips its key
  (`store.ts:194`): its skip set decides, not the shared object.
- `initFromLocation` (`main.ts:127`) does not look at the address again after
  its `await`: of two links followed in a row the first may be shown.
- A document with a lone surrogate in a name is shown, but never written to the
  address: the timer throws in `canonicalStringify` (`main.ts:110`), where
  `prettyJson` escapes names (`jsonpanel.ts:39`), and does so after it has
  superseded the compression under way. The address keeps an older document.
  `AddressOfTypingCatchesUp` therefore excepts the `Unserializable` documents.
- A document that cannot be printed replaces the one on the page before
  `updateStatus` throws (`main.ts:182`): the editors write into the old one.
  `PanelsShowDocument` therefore speaks of printable documents only.
- Slice chosen for X may make that dimension Y although a third is free
  (`viewer.ts:173`).
- An array of extent 0 saves the index -1 (`main.ts:245`), which stays when the
  array grows: the second way to break `PixelsAreElements`.
- A key that begins with a slash is handed to the node its later segments name
  (`model.ts:74`), and a node whose metadata has no known node type is drawn
  as one without metadata. `EveryKeyInPlace` is checked on keys R1 accepts.
- `toJsonScalar` encodes an int64 beyond the safe range exactly, and
  `fromJsonScalar` takes no number for a 64-bit type, where comments suggest
  otherwise.
- A member `__proto__`, as a key of the document, appears nowhere in the
  report of the conformance harness, or makes it fail when its value is an
  array or object (`conformance.ts:58`); `EveryKeyReported` excepts it.

## Proofs

Every theorem is of the specification of its module and holds for every set of
keys, bytes, threads, documents or paths that its constants may be. The
assumptions are the named ones of the modules: which sets the constants range
over, that keys are non-empty sequences of strings, that shapes are sequences of
naturals, that bounds are naturals, that `Empty` is a document that can be
serialized and what cannot be printed cannot be serialized, that strings are sequences of 16-bit code units, that a value's length
is below `Width`, that strides are naturals, one for each dimension, that the
requests of a trace are of the sorts JSON gives them with chunks of the rank of
their array, that `Legal` is the set of those that are `Lawful`, and that the
documents a trace starts from are trees of groups and arrays.

| module | theorems about properties of runs | others |
|---|---|---|
| `PyStoreProofs` | `TypeOK`, `SkipExact`, `DurableInSync`, `FailureChangesNothing`, `UnknownPreserved`, `ImplementsByteStore`; `ListsSteadyKeys`, `YieldsOnce` | |
| `TsStoreProofs` | `SkipExact`, `DurableInSync`, `ReadsFollowCalls`, `FailureChangesNothing`, `UnknownPreserved`, `ImplementsByteStore` | `TypeCorrectness` |
| `RustStoreProofs` | `SkipExact`, `NoLostUpdate`, `ImplementsByteStore` | `TypeCorrectness`, `SomeThreadProceeds` |
| `SharedDocumentProofs` | `NothingInvalidShown`, `StaysShown` | |
| `BrowserProofs` | `DisplayFresh`, `PanelsShowDocument`; `RolesDistinct`, `PlaneOfThreeUp`, `NeverPastEnd`; `EveryKeyInPlace` | `TypeCorrectness` |
| `StringProofs` | `ComparesCodePoints`; `StoresAgree`, `PiecesMakeValue` | |
| `ArrayProofs` | `KeepsContract`; `GatheredInOrder` | |

So for the three stores every safety property is proved, the refinements to
`ByteStore` included: linearizability does not depend on how many calls are in
flight, how many threads there are, or how long they run.

**PyStore.** `Inv` is `TypeOK`, `SkipExact`, `DurableInSync`, that only files
are torn, and `HiddenInSync`: a file that is ahead of the document, because its
`persist` raised with the text written, hides no member the document has
otherwise, or the next store could hide what this one shows. None is inductive
alone: `SkipExact` after `Open` needs the type of what the backing holds, after
a set it needs that what was encoded passes R2 (`EncodeIsMember`) and that the
key passed R1; `DurableInSync` after a failed mutation needs that the undo
restores exactly the members it found (`UndoneMembers`), though not their order.
`MutateInv` is the heart: any mutation whose undo restores the members and whose
result has the issues of the document less those of its key preserves `Inv`,
whatever `persist` does. `MutateSound` is the same argument for the refinement,
with the contents of the byte store in the place of the issues
(`ContentAfterPut`, `ContentAfterRemove`).
The hard step is a `persist` that raises: the file may then have the member of
that call as if it had succeeded, and no other member changed (`DurableInSync`),
so that what is kept is what `Fail` of the byte store allows (`KeptIsHeld`), and
the end of the process shows it.

**PyListing.** `ListingInv` adds to `Inv` what the generator took (`Takes`: the
keys shown at its beginning, each once) and what it has made of it (`Passes`:
what is yielded is the items of the places passed, each once). `YieldPasses` is
the only step that needs thought: the places skipped on the way to the next
are those whose item was yielded or is none. That the keys taken are those shown
rests on `OnlyLeaves`, about what filtering the document's order leaves. It is
an induction over the length of a sequence: no prover here takes an induction
schema, but the set form (`AllNumbers`: a set of naturals with 0 and successors
is all of them) follows from the library's theorem that inclusion of finite
sets is well founded.

**TsStore.** `Queue` says what the one promise variable `#lock` amounts to: each
call is chained to the last one before it that was not refused, so that the call
that runs is the first that waits. `StepKinds` reduces the actions to five kinds
of steps, `MutateEffect` and its companions the turn of a call to what it does
to the document: it is persisted, or undone with the backing as it was or, if it
is a caller's, spoiled in any way. With the queue in order, `LastWriteHolds`
(the last successful write of a key that has run is what readers find) and
`AllServed` (a get that has run was given that) are inductive, and
`ReadsFollowCalls` follows. The refinement takes the effect of a call at its
turn, or at its refusal. It and `SkipExact` ask nothing of the backing. What
`UnknownPreserved` says of the backing follows from the document's part and
`DurableInSync`, before the step and after it (`NothingChanged`,
`SuccessSound`).

**RustStore.** `Locks` says where a thread may hold which lock, and that a writer
is alone. The rest of `Inv` speaks of the thread between the two locks: its
keys are not counted as hidden although they are still in the skip set
(`SkipExact`), and what a partial write is about to store is what is expected of
its key (`StoresExpected`), which no other thread can change before it does, so
that `NoLostUpdate` holds again after it. `NoDeadlock`, which
TLC checks, uses `ENABLED`; `SomeThreadProceeds` says the same without it: while
an operation is under way some thread finds the locks it needs next free.

**SharedDocument.** The invariant is `TypeOK` and `NothingInvalidShown`.
`OneKeyInv` is the argument that carries over to any number of stores: a call
changes one member, and its own store's skip set at that key only; if the member
is valid or gone afterwards, no store can show an invalid one. That `Set` leaves
a valid member is `EncodeIsMember` again (`Written`); `StaysShown` follows
because no call adds a key to a skip set, and `Open` adds only keys of invalid
members, which by the invariant the store did not show.

**BrowserApp.** `DisplayFresh` is not inductive: it says nothing of a display that
is loading. `DisplayIsCurrent` strengthens it to every display, and to every read
whose epoch is the display's; `CacheIsCurrent` is what a read from the cache
needs. While the page holds a document it cannot print, the panels and the
reads of the one before stay, and what makes them harmless is that every way
back to a printable document renders anew and so begins an epoch. `ApplyInv`
needs `PanelsShowDocument`: editors of an older object exist only beside a
document that cannot be printed.

**ViewerRoles.** The invariant is `RolesTypeOK`, the three properties and
`OneDimension`: with one dimension X is it and Y is none. Without it a choice in
a one-dimensional array could make both none. `MaxIsMember` is where the choice
of the next dimension, the largest that is free, is shown to be one.

**CodePoints.** The invariant is `SameBefore`: the strings are the same up to the
place the loop is at, no pair of either lies across that place (`Border`), and
the code points before it are counted without a gap (`Counted`), so that the
n-th of what is spelled is found (`NthOfCount`). The border is what lone
surrogates threaten: without it a first half before the place and a second half
after it would spell one thing in the loop and another in the string. That the
loop moves the same way in both strings rests on a pair's number determining
both halves (`CombinedInjective`). When the loop stops, the next code point or
the end decides (`NextDecides`, `EndDecides`), because what was spelled before
is the same (`SameSpelled`).

**ByteRange.** `AskAnswers` is about one range: in the value all three stores cut
the same bytes, past it Rust's checks refuse and what the others cut is the end
(`SliceToEnd`). It needs that a length is below `Width`, so that the addition
Rust checks never refuses a range that is in the value. `PiecesMakeValue` is
inductive with the types. `FlattenSeq` of the community modules is a recursive
function; that it exists, is unique, and what one more piece adds
(`FlattenAppend`) is by induction in the set form (`EveryNumber`).

**Indices.** `ArrayProofs` begins with arithmetic that no prover has: products
of shapes, strides, and the place of an index in C order. `FoldLeft` of the
community modules is a recursive function on sets of places; `FoldExists` shows
that there is one, and `ProductByPlace` and `OffsetByPlace` that it grows
dimension by dimension, each by induction in the set form (`EveryNumber`). From
the strides (`StrideByDimension`: each is the next times the extent there)
follows what the codec and the harness rely on: the place of an index in range is
one of the shape's, and `Unravel` of it is the index again (`IndexOfPlace`); and
what `Unravel` gives is in range (`PlaceInRange`). So `Unravel` and `Place` are
inverse to each other on shapes of every rank. Products of two variables
are kept to small lemmas over plain numbers (`QuotientAndRest`, `Regrouped`),
because the provers lose themselves in them anywhere else.

**Crosscheck.** The refinement needs `TraceInv`: nodes are groups or arrays with
chunks of their rank, and only arrays have chunks. Without the second part an
array that is made could come up with elements instead of zeros. `WriteImplements`
is the heart: an element that was written is found where the place in its chunk
says (`ElementInChunk`), an element that was not is as before although its chunk
was written back whole (`ElementAfterWrite`), and `ArraysAreArrays` gives the ranks
that both need. `LegalIsLawful` and `FreeIsNotRefused` relate the guards, so that
the trace fails where the contract refuses and nowhere else.

**ChunkWalk.** `GatheredInOrder` says what was gathered, not where the counters
are. `WalkInv` adds that they are the index whose place comes next.
`NextIndex` is the inner loop: with a counter that has room, the index after
`Advance` is the one at the next place, because the counters that start again
give back what the one that moves on takes (`FullDimension`). With none the place
was the last (`LastIndex`), and the outer loop ends. A shape with an extent of
zero is never walked (`PositiveExtents`).

**Hierarchy.** `EveryKeyInPlace` speaks of the finished tree; `TreeInv` says what
holds while it is made. `IsTree`: the ancestors of a node are nodes, and each
node but the root is listed once, by its parent. `Ensured` is what `ensure` does
to a map of nodes, and `EnsureKeepsTree` the argument: a node is either old, and
listed where it was, or new, and listed by what is appended (`SequenceOfSet`,
`OnceInConcat`). `MetadataInPlace`: the metadata keys visited, and no others, are
what describes the nodes at their paths; two keys never describe one path
(`KeysOfDocument`), so none is overwritten. `DataInPlace`: no other key has a node
before all metadata keys have. From there `ownerOf`, which asks the nodes, finds
what the document says (`OwnerIsDeepest`), whatever the order of the keys; asked
before the first pass is over it would not, which is why there are two passes.

### Model-checked only

- Liveness (`EveryCallSettles`, `EveryDisplaySettles`,
  `AddressOfTypingCatchesUp`) and `NoDeadlock` as stated with `ENABLED`, which
  the provers do not reach.
- The properties of `Codec`, `Sharding` and of `Conformance` with `TsDocument`
  (`RoundTrip`, `DecodesWhatIsWritten`, `ReadsSoundOnly`, `Lossless`, `EveryKeyReported`): nested values are read and written by
  recursive operators (`Nest`, `DecodeNested`, `Write`), and the provers reach
  nothing in a module that declares one.
- `TypesOK`, which only joins the types of the parts of the browser, each a part
  of a proved invariant.

## Plan

1. Done: the transform, the document, `ByteStore`, `PyStore`, `PyListing`,
   `TsStore`, `RustStore`.
2. Done: `SharedDocument`, `ByteRange`, `TsDocument`, `CodePoints`, `Conformance`,
   `Codec`, `Crosscheck` with `ArrayTrace`, `Sharding`, `BrowserApp`,
   `ViewerRoles`, `Hierarchy`.
3. Done: the proofs of the three stores, of the listings, of shared documents, of
   the page, the viewer and the tree, of the order of strings and of byte ranges,
   of traces of array operations and of the walk over a chunk.
4. Left to model: two stores over one string or file; `RustStore` with listings,
   `size_prefix` and poisoned locks; the codecs and transforms of Python and
   Rust beside that of TypeScript; `Convert`.

## Not modelled

- The grammar of JSON, the digits of numbers and base64 itself: data below
  the abstraction. Recursion depth.
- The transforms of Python and Rust at the level of `TsDocument`, and the
  agreement of the three; their codecs (complex numbers among them), float16 and
  string types; their conformance and cross-check harnesses.
- `convert.py`: a loop over the keys of another library's store.
- In the cross-check, the modes that write or read one region of an array, and
  documents with stray chunks below a path where an array is made.
- Two stores over one string or file, where the last to persist wins, and
  shared documents in Python and Rust.
- In the Rust store, listings, sizes, and locks poisoned by a panic of the
  caller's iterator. Several threads in one Python store (zarr runs it on one
  event loop).
- In the browser, drawing, zoom and colour maps, the layout of the tree
  (`dag.ts`), the table of strings, and sorting within it.
- Documentation, examples, build and CI, which have no logic to model.
- Byte ranges from an offset to the end of the value, which only Python and Rust
  have (`store.py:28`, `store.rs:186`).
