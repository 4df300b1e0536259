# TLA+ models of redex's resource scanning

This directory holds TLA+ models of the parts of this repository that have
concurrency, loops with subtle termination, or byte-level algorithms: most
of `src/libredex/RedexResources.cpp`, and later `InlinerConfig.cpp`,
`InsertDebugInfoPass.cpp` and `ClassUtil.cpp`. Every module is translated
from the source. `PROJECT.json` maps each definition to the lines it models
and lists the runs, mutants, findings and hazards.

## 1. Inventory

### Components, their state and operations

| Component | Source | State | Operations |
|---|---|---|---|
| Parallel scan engine | `workqueue_run` (sparta, not in this repo), called at RedexResources.cpp:284, 359, 391, 450 | task queue, worker threads, one `out_mutex` and shared accumulator per call | seed task `""` → dispatcher pushes one task per file (`push_task`) while other workers drain; returns when the queue is empty and no worker is busy |
| XML class/attribute collector | `collect_layout_classes_and_attributes`, `find_resource_xml_files` (:226–354) | shared `classes` set and `attributes` multimap, `out_classes`, `out_attributes` | list res dirs one level deep skipping `anim`/`color`/`raw` prefixes; per-file extract; merge under lock if non-empty; after the join resolve references through the resource table |
| Attribute values / layout renaming | `collect_xml_attribute_string_values`, `rename_classes_in_layouts` (:356–416) | shared `*out` set; files rewritten in place | same dispatcher pattern; the rename uses the recursive `get_xml_files` and skips raw resources |
| Native library scanner | `extract_classes_from_native_lib` (:114–152) | `inptr`, `buffer[MAX+2]`, `length`, result set | one pass over bytes: start at lowercase or `L`, copy name characters up to `MAX_CLASSNAME_LENGTH`, keep if `length >= MIN_CLASSNAME_LENGTH`, skip one byte |
| Native scan driver | `get_native_classes`, `find_native_library_files` (:418–483) | `all_classes` under `out_mutex` | engine over `.so` files, 2 threads |
| Reference resolver | `resources_inlining_find_refs` (:607–631) | `past_refs`, growing `inlinable_resources`, per-chain `visited_refs` | follow each redirect chain to the first resolved id, stop on cycle or dead end |
| Style graph | `load_style_info`, `get_roots`, `get_children`, `get_unambiguous_parent`, `print_as_dot` (:533–802) | style map, boost graph, `id_to_vertex` | build vertices then edges parent→child; queries; sorted DOT export |
| MUTF-8 encoder | `convert_utf8_to_mutf8` (:569–605) | output stream | per code point: `C0 80` for 0, UTF-8 below 0x10000, two 3-byte surrogates above |
| Keep directives | `parse_keep_xml_file`, `get_all_keep_resources` (:501–526, 634–671) | result set | split `tools:keep` on commas, trim, drop `type/` prefix; errors give an empty set |
| Inliner configuration | `InlinerConfig::populate` (InlinerConfig.cpp) | `m_populated`, blocklists, per-method `dont_inline`/`force_inline` | class walk, parallel method walk, parallel walk over force-inline classes |
| Debug-info insertion | `InsertDebugInfoPass` | per-method cfg and debug item, 4 atomic counters | entry cover (not needed / done / file ambiguity / no position), then generic insertion |
| Authorities, obfuscatable directories | `parse_authorities` (:155–166), `can_obfuscate_xml_file` (:484–494) | `start`, the caller's `authority_classes`; the allowed types left | split at `;` and insert each piece's internal name; return true at the first allowed type whose `res/<type>` occurs in the directory name |
| Class utilities | `ClassUtil.cpp` | class methods | `get_or_create_clinit` (check then create), `has_hierarchy_in_scope` (walk supers), `maybe_anonymous_class`, `get_serdes` (four name lookups) |
| Pass plumbing, test | ConstantPropagationPass, LocalDce/PerfMethodInline/InterDexReshuffle headers, MaterializeNullchecksVerify | — | declarations and calls outside this repo |

### How they interact

The collectors call the engine with a handler; the handler calls the
external per-file extractor, takes the call's single mutex to merge into the
shared accumulator, and after the engine returns the collector calls the
external resource table. The native driver composes the engine with the
native scanner. The resolver and the style graph run single-threaded on maps
the caller owns. The inliner configuration and the debug-info pass run on
redex's parallel walkers, where each method is touched by one worker.

### What is hard

* **Interleavings**: the dispatcher pushes while workers drain; merges into
  one shared container; the termination of a self-feeding queue.
* **Ordering**: hash-order iteration in the resolver while the map it reads
  grows; sorted output from unordered graphs.
* **Boundaries**: buffer size and min/max lengths in the byte scanner;
  surrogate arithmetic in MUTF-8.
* **Termination**: cyclic redirects; cyclic super chains.

### What makes each component correct

* Engine + collector: no merged result is lost; the run does not return
  while a file may still be pushed; the result is exactly the resolved
  union/multiset sum over the files the contract names.
* Native scanner: no write past `buffer`; every name between the limits is
  found; every result has the dex shape.
* Resolver: the result does not depend on iteration order; each id gets the
  value its chain leads to; existing values are kept; the loop ends.
* Style graph: one vertex per key, an edge per definition with a known
  parent; roots have no incoming edge; DOT output sorted and only isolated
  nodes dropped.
* MUTF-8: no zero byte; round trip through a UTF-8/UTF-16 decoder.
* Inliner configuration: no method ends both `dont_inline` and
  `force_inline` through `populate`; populating twice changes nothing.

## 2. Plan

In order of importance; each later module reuses the patterns of the first.

1. **ResourceScan** + **ResourceCollect** (done): the engine and the layout
   collector, refining the one-step collection of the spec.
2. **NativeLibScanner** (done): the byte loop.
3. **ReferenceResolver** (done): the chain loop.
4. **StyleGraph** (done): build loop over an unordered style map,
   queries as operators, DOT node/edge sets; properties: roots/children
   against a reference, independence of iteration order.
5. **Mutf8** (done): encoder as operators over code points with
   `Bitwise`, checked against a reference decoder at plane and surrogate
   boundaries; `always_assert` as a reachable failure state.
6. **StringSetScan** (done; planned as NativeClassScan and AttributeValueScan): the engine
   instantiated for `get_native_classes` (composing NativeLibScanner's
   result per file) and `collect_xml_attribute_string_values`; both refine
   ResourceCollect-style abstract collections.
7. **InlinerConfig** (done): three phases with the parallel phases as
   interleaved per-method steps; property: no method ends both flags;
   `m_populated` idempotence.
8. **InsertDebugInfo** (done): the maybe_insert decision and counters;
   property: every method ends with a position or is counted as failed, and
   the counters add up.
9. **KeepList**, **LayoutRename** and **ClassUtil** (done): the keep
   walk and token parsing, the rename workqueue over the recursive XML
   listing, the super chain walk, `get_or_create_clinit` and
   `maybe_anonymous_class`.

## 3. Modules and runs

### ResourceScan / ResourceCollect

`ResourceScan` models `collect_layout_classes_and_attributes`:

* `queue`, `pc`, `task`: the engine's queue and each worker's position.
  The engine's code is not in this repository, so its contract
  (`WorkQueueDone`: no queued task and no busy worker) is taken from
  spec.md 4.1.
* `TakeSeed`, `DispatchEntry`, `DispatchDone`: the seed handler; each
  directory entry is one step, pushed when `IsResourceXml` (top-level `.xml`,
  or `.xml` one level down in a directory not starting with a skip prefix).
  Directory names are sequences of name parts so that prefix matching is
  `IsPrefix` (`colorful` = `<<"color","ful">>` is skipped, like the code's
  `str.find(prefix) == 0`).
* `TakeFile`: the extractor's result is a constant per file; an empty one
  returns without locking.
* `LockAndRead`, `MergeAndUnlock`: `insert_unordered_iterable` and
  `multimap::insert` under `out_mutex`, as a read and a write so that
  interference would be visible if the lock did not exclude it.
* `ResolveReferences`: the post-join loops; `attributes` and
  `outAttributes` are bags because the multimap keeps duplicates.
* `merged` is a history variable (the files whose merge has completed).

`ResourceCollect` is the abstract specification: one step hands the caller
the result. `ResourceScan` maps to it with `returned <- finished` and the
output containers; its `Classes`/`Attributes` are computed from
`ContractFiles`, the files spec.md 4.6 names.

| Run | Checks | Shows |
|---|---|---|
| `layout_scan` (MCResourceScan.cfg, pass) | `TypeOK`, `NoLostMerge`, `ImplementsCollect` | with 2 workers and 8 entries (top-level, layout, layout-v21, anim, colorful, empty, non-XML, nested non-XML), no merge is lost, the run returns only after the dispatcher finishes, and the result is the contract's |
| `layout_scan_nested_xml` (MCResourceScanDeep.cfg, violation) | `ImplementsCollect` | `res/layout/sub/x.xml` is never read: the listing is one level deep, unlike spec.md 4.6 |

Bounds: 2 workers are enough for every pair of racing merges and for a
worker draining while the dispatcher lists (the code uses at most 4). Two
files report the same attribute pair, one reference resolves to two
literals and one to none, so multiplicities and dropped references matter.
Fairness: weak fairness per worker thread and for the post-join step; the
threads are OS threads and the total work is finite, so a waiting worker
finds the mutex free forever once the others are done.

### NativeLibScanner

One action per loop step: `SkipByte` (non-start byte), `StartName` (writes
`'L'` unless the byte is one), `CopyByte` (inner loop body), `EndName`
(length check, insert, `inptr++`), `Finish`. The input is any string up to
6 bytes over one byte of each class the code distinguishes. The limits are
scaled from 10/500 to 3/4, so inputs reach names below, between and above
the limits.

| Run | Checks | Shows |
|---|---|---|
| `native_scan` (pass) | `TypeOK`, `NoBufferOverflow`, `ShortRunsFound` | the copied bytes (with the added `'L'`) never exceed `MAX_CLASSNAME_LENGTH`, and every name run between the limits is found, against a reference defined from maximal runs |
| `native_scan_spec_shape` (violation) | `SpecNameShape` | a returned name can be `MIN_CLASSNAME_LENGTH + 1` bytes long (`"Labcdefghi;"` for the real limit), while spec.md 8 says at least 12 |

### ReferenceResolver

`NextRef` picks any entry not yet visited (hash order is unspecified); the
chain loop's four exits/continuation are `CycleDetected`, `FoundResolved`
(insert keeps an existing entry), `DeadEnd` and `FollowRef`. Init ranges over
every `past_refs` and `inlinable_resources` on ids 1..4 and values x, y. The
reference `Resolved` computes each id's value from the map as found.

| Run | Checks | Shows |
|---|---|---|
| `reference_resolution` (pass) | `TypeOK`, `ResolvesToChainValue`, `Terminates` | the in-place growth does not make the result depend on iteration order; existing values are kept; cycles end the loop |

Fairness: weak fairness of `Next`; the loop runs on one thread.

The spec (4.3) says the recorded value is aliased, not copied; the code's
`insert({id, it->second})` copies the value. With values as plain model
values this cannot be observed and is not checked.

### StringSetScan

`StringSetScan` models the two scans that collect one set of strings,
selected by `Operation`: `get_native_classes` (the dispatcher lists every
regular `.so` file under the lib directories at any depth, as
`find_native_library_files` walks them with `rdir_iterator`) and
`collect_xml_attribute_string_values` (the dispatcher is
`find_resource_xml_files(dir, {})`: top-level and one-level-down `.xml`
files, no prefix skipped). The actions are those of `ResourceScan`
(`TakeSeed`, `DispatchEntry`, `DispatchDone`, `TakeFile`, `LockAndRead`,
`MergeAndUnlock`) and `Return`, when the queue is empty and every worker
idle. The per-file result is a constant. For native libraries it stands
for `NativeLibScanner`'s result on the file's bytes. The refinement is
again `ResourceCollect`, with the files spec.md 6 names ("recursive
enumeration of regular files by suffix").

| Run | Checks | Shows |
|---|---|---|
StringSetScan has no run of its own: it is checked in
`resource_file_walks`, with KeepList and LayoutRename (see below), once
per `Operation`. For native classes, 2 workers (`kReadNativeThreads`)
scan `.so` files at depths 0–2, one with no class and two sharing one.
For attribute values, the files are at most one level deep, so a deeper
file would be missed, as in `layout_scan_nested_xml`.

### StyleGraph

`load_style_info` is two loops over the style map: `AddVertex` (one per
key) and `LinkDefinition` (one per definition, adding `parent -> id` if
the parent is non-zero and has a vertex). Each loop's iterations are taken
in any order, standing for the unspecified order of the map; the second
loop starts when the first is done (`VerticesAdded`). Edges are a bag
because the boost adjacency list keeps parallel edges. `get_roots`,
`get_children`, `get_unambiguous_parent` and the node and edge sets of
`print_as_dot` are operators on the built graph. The DOT text's layout,
labels and the sort are not modelled: the node and edge sets are what
the sort is applied to. Init ranges over every style map on ids 1..3
with one or two configurations each, whose parents are 0, one of the ids
(self-parents and cycles included) or a platform id 9 that is not a key.

| Run | Checks | Shows |
|---|---|---|
| `style_graph` (MCStyleGraph.cfg, pass) | `TypeOK`, `GraphMatchesStyleTable`, `RootsAreParentless`, `DotNodesCoverEdges`, `UnambiguousParentAgreesWithGraph` | the graph has one edge per definition with a known parent in every iteration order; roots are the styles with no known parent; every DOT edge names declared nodes and `exclude_nodes_with_no_edges` drops only isolated styles; a parent `get_unambiguous_parent` names is the style's only parent in the graph |

`get_unambiguous_parent` returns the parent even when it is 0 ("no
parent"), unlike `std::nullopt` for an ambiguous style; the property
covers parents that are styles of the table.

### Mutf8

The loop of `convert_utf8_to_mutf8` over decoded code points:
`EncodeNull` (`C0 80`), `EncodeBmp` (the standard UTF-8 form of
`utf32_to_utf8`) and `EncodeSupplementary` (`code_point -= 0x10000`, the
high and low surrogates, each in `pack_to_3_byte_form`), with the code's
shifts and masks written with `Bitwise`. `boost::u8_to_u32_iterator`
throws on malformed UTF-8, surrogates and values above U+10FFFF, so the
input is any sequence of up to three scalar values taken from the
boundaries: 0, 0x41, 0x7F/0x80, 0x7FF/0x800, 0xD7FF/0xE000, 0xFFFF,
0x10000, 0x1F600 and 0x10FFFF. The reference is a Modified UTF-8 reader
(`Utf16Units`, `JoinSurrogates`).

| Run | Checks | Shows |
|---|---|---|
| `mutf8` (MCMutf8.cfg, pass) | `TypeOK`, `NoZeroByte`, `RoundTrips` | no zero byte is written, and the reader reads back exactly the input at every boundary |

`always_assert(len != -1)` cannot fail: `utf32_to_utf8_length` returns -1
only for an empty source, and it is called with one code point.

### InlinerConfig

`InlinerConfig::populate` as its three walks, one step per class or
method: `VisitClass` (the three class prefix lists, the
`no_inline_blocklist` match with the entry truncated to the class name,
the class no-inline annotation, and the `force_inline_prefixes` match
that fills `classes_matching_force_inline`), `VisitMethod` (the method
annotations, skipped for a method already `dont_inline`) and `ForceClass`
(walk 3 over the matching classes only). `ClassesWalked`,
`MethodsWalked` and `ForceWalked` are the joins between the walks;
`PopulateAgain` is the early return on `m_populated`. Class and method
names are character sequences (`"a;"`, `"ab;"`, and show() strings that
extend them), so `starts_with` is `IsPrefix`, and a class name that is a
prefix of another's is in the model. The configuration (which prefixes
and annotations are set) ranges over every subset of three entries in
Init. The reference `ExpectedDontInline` / `ExpectedForceInline` states
what the configuration asks for.

| Run | Checks | Shows |
|---|---|---|
| `inliner_config` (MCInlinerConfig.cfg, pass) | `NeverBothFlags`, `FlagsAsConfigured` | over every configuration and order of the per-class and per-method steps, no method ends with both flags, and once populated each method has exactly the flags asked for; a second call changes nothing |

### InsertDebugInfo

`InsertDebugInfoPass::run_pass`: `walk::parallel::code` over the methods
with code, which share only the four atomic counters, so a method is one
step per outcome of `maybe_insert`: `NotNeeded`, `CoverDone` (a copy of
the smallest position inserted before the first non-load-param
instruction), `CoverFileAmbiguity`, and `InsertDebugInfo` (kNoPosition
falling through to `insert_debug_info`). A method's code is its entry
block as a sequence of load-param, other-opcode and position items, and
the positions of its other blocks in `blocks_view()` order; positions are
records of method (the method itself or another), file and line over two
files and two lines. `find_smallest_pos_filtered` is the recursive
`FindFrom`. `insert_debug_info` inserts after the last load-param, or
before the first other instruction when there is none; load-params lead
the entry block, so both are `FirstNonParam`. The `always_assert_log`
that a method without positions has no debug item is an assumption on
Init for the first run (the dex loader guarantees it, outside this
repository); if it fails, the step sets `aborted` and nothing moves
after it. `RunPassAgain` runs the pass once more over its own output,
up to `MaxRuns` = 2, with the counters reset, since a redex pipeline may
list the pass twice.

| Run | Checks | Shows |
|---|---|---|
| `insert_debug_info` (MCInsertDebugInfo.cfg, pass) | `EntryCoveredAfterPass`, `CoverIsSmallestPosition`, `PassIdempotent` | for five entry shapes and every list of up to two later positions, each method ends with its entry covered after the load-params unless its positions are in two files, and a copied position is a smallest-line one of the method's own positions, or of all of them; a second run over the output reports only kNotNeeded or kFileAmbiguity and never reaches the `always_assert_log` (an artificial position inserted on the first run keeps the second run away from `insert_debug_info`, which would abort on the debug item the first run set) |

When the positions naming the method are in two files, the code falls
back to the generic search; that search then always reports a file
ambiguity too, so the fallback only matters when the method has no
position of its own.

### ClassUtil

`has_hierarchy_in_scope` is its loop: `HierarchyStart` (`super =
nullptr; super_cls = cls`), `HierarchyStep` (`super =
super_cls->get_super_class(); super_cls = type_class_internal(super)`)
and `HierarchyDone` (`super == java_lang_Object()`). The super relation
ranges over every acyclic function from three internal classes to the
internal classes, `Object`, a library class, an undefined type and
`nullptr` (a dex hierarchy has no cycle; the loader outside this
repository rejects one). The walk runs on its caller's thread, so it has
weak fairness. The reference `ReachedFrom` collects the chain inside the
scope. `get_or_create_clinit` is one step: the early return on an
existing clinit, or creation with `cfg` built iff `need_cfg` and
`add_method`. `maybe_anonymous_class` is `RFind` and `Check` over a
name of up to five symbols from `a`, `$`, a digit, and the words
`Lambda` and `ExternalSyntheticLambda` as single symbols (they only
occur whole in the two patterns). The reference says when javac or
D8/R8 name a class as anonymous or lambda: the innermost `$`-segment
starts with a digit, or a marker is present. `get_serdes` is one step
per class (`GetSerdes`): `Serdes` drops the `;`, makes the flatbuffer
name with `$` as `_`, and looks the four names up with `GetType`, which
finds a set of defined descriptors. The classes are every name of one or
two of `a`, `$`, `_`. The nested and flatbuffer classes are defined for
the names that start with `a` only, so lookups that fail occur too.
The flatbuffer types of `La$b;` and `La_b;` are the same; nothing in
this repository says whether that is intended, so it is documented and
not checked.

The four functions share no state. The variable `fn` names the function
a behaviour calls. It is fixed by one of four initial predicates
(`InitHierarchy`, `InitClinit`, `InitAnonymous`, `InitSerdes`), and
`Next` takes only that function's actions. The four state spaces add up
instead of multiplying.

| Run | Checks | Shows |
|---|---|---|
| `class_util` (MCClassUtil.cfg, pass) | `HierarchyAgrees`, `MatchesNaming`, `HierarchyWalkTerminates` | every hierarchy walk returns, and is true exactly when the chain leaves the scope at Object; the rfind/digit/pattern test agrees with the naming rule, including names that end in `$` and the nested `$1$Inner` |

`get_or_create_clinit` and `get_serdes` are modelled and their actions
run, but no property is checked of them. With each call one atomic
step, "one clinit per class" only restates the early return at
ClassUtil.cpp:42-43. Distinct classes get distinct `$Deserializer`
names by construction of the suffix. What is worth knowing is
documented instead:
* a `need_cfg = true` call on a class whose clinit has no cfg returns
  it without one (ClassUtil.cpp:43);
* `La$b;` and `La_b;` share their flatbuffer types.
Nothing in this repository says whether either is intended.

### ResTree, KeepList and LayoutRename

ResTree holds the helpers both walks use: `GetXmlFiles` is the recursive
`get_files_by_suffix(dir, ".xml")` over a tree of paths (sequences of
segments), and `IsRawResource` the two substring searches, read on
segments ("/res/raw/" is a segment `res` followed by a directory `raw`).
Its reference `InRawType` is Android's rule: the directory directly
under `res` is `raw` or `raw-<qualifiers>`.

KeepList is `get_all_keep_resources` (`NextDir`, `SkipFile`, `KeepFile`,
`Return`) with `parse_keep_xml_file` as operators: a malformed file or
no `tools:keep` gives nothing; otherwise `SplitString` (keeps empty
pieces), `TrimWhitespaces`, then `StripType` (after the first `/`). A
file's contents range over six documents, among them `"t/a, b"` and
`"t/ a"`. LayoutRename is the `rename_classes_in_layouts` workqueue
with two workers: the seed task lists each res directory (`ListDir`) and
pushes the non-raw files (`PushFile`); a task (`Rename`) calls the
external rewrite, whose failure is only traced. The queue is a bag, so a
file pushed twice would be renamed twice.

| Run | Checks | Shows |
|---|---|---|
| `resource_file_walks` (MCResourceFiles.cfg, pass) | `NoLostMerge`, `KeepFromRawFiles`, `LayoutsRenamedOnce`, `AuthoritiesSplit`, `AllowedTypeObfuscated`, `ImplementsCollect`, `RenameReturns` | both StringSetScan operations lose no insert and return the union over the contract's files; the keep set comes from every raw file (raw, raw-v21, raw/sub) and from no layout; every non-raw XML file of two res directories, at any depth, is rewritten exactly once, and no raw file is touched; `parse_authorities` adds exactly the internal names of the `;`-separated pieces (empty ones give `L;`); `can_obfuscate_xml_file` accepts every directory of an allowed type, qualified or not, in every iteration order; the rename run returns under fair workers, whichever rewrites fail |
| `keep_list_spec_whitespace` (MCKeepListSpec.cfg with MCKeepList, violation) | `KeepNamesTrimmed` | `"t/ a"` gives the name `" a"`: the token is trimmed before the type is cut, unlike spec.md 4.6 |

`MCResourceFiles` instantiates StringSetScan twice (`N` for native
classes, `X` for attribute values), KeepList (`K`) and LayoutRename
(`L`), each with its own variables. `walk` names the function a
behaviour calls, and only that instance moves. The others stay in their
initial states, and a keep walk that is not called reads no file. The
four walks share no state, so this is each walk's own state space, side
by side.

StringSetScan's fairness is kept: weak fairness of each worker and of
`Return`, guarded by `walk`, with the instance's variables as the
subscript. LayoutRename has the same fairness: a sparta worker takes
tasks while any is queued, and the run joins once all are idle.
`RenameReturns` checks that the rename walk returns, and that a failed
rewrite ends its task like any other. With a seed task that never
finished, the run would hang. KeepList is a sequential loop and has no
fairness.

`ImplementsCollect` states StringSetScan's refinement of ResourceCollect
for the scan that is called. TLC cannot check a refinement under an
implication, so each of the three parts is written out, using the
instance's `Collect`:
* `Init`;
* `[][Next]_vars`;
* eventually returned, which is what `WF(Collect)` comes to.

In this composite the keep documents are no `tools:keep`, `"a"` and
`"t/a, b"`. The six-document set (malformed and `"t/ a"` among them)
stays in `MCKeepList`, for the violation run.

### ResourceStrings

`parse_authorities` is its while loop: `AuthorityPiece` (a `;` found at
or after `start`: insert the piece's internal name, `start = end + 1`)
and `AuthorityTail` (npos: insert the rest, return). Positions are kept
0-based as in the code; `FindSemicolon` is `text.find(';', start)` and
`Substr` is `substr`. `external_to_internal` (outside this repository) is
`InternalName`: `L`, dots as slashes, `;`. The inputs are every value of
up to four characters over `a`, `.`, `;`, so empty, leading, trailing
and doubled separators all occur, with one class already in the set.

`can_obfuscate_xml_file` is its for loop: `CheckType(t)` for whichever
allowed type `UnorderedIterable` hands out next (any one left), and
`NoTypeMatches`. Names are sequences of atomic chunks, so a directory is
a sequence of segments and `animator` is `<<"anim", "ator">>`;
`ContainsTypePath` is the substring test at chunk granularity. The
reference `TypeDirectory` takes the segment after `res`, equal to the
type or the type plus a qualifier chunk. The check is one way only: the
substring test also accepts `res/animator` for `anim` and `myres/layout`,
and nothing in this repository says those must be refused.

These run in `MCResourceFiles` as a fifth value of `walk`, `"strings"`;
in the other walks their inputs are empty.

The res directories are assumed disjoint (`find_res_directories` is
external); nested ones would make a layout be listed, and renamed, twice.

## 4. Not modelled and why

* The engine's internals (per-worker queues, work stealing): not in this
  repository; only its contract is used.
* The per-file XML extractor, the resource table reader, directory
  discovery, `read_file_with_contents`: external; given as constants.
* String helpers and formatting (`configs_to_string`, service loader
  reading): string and file I/O without
  control of interest; none keeps state between calls.
* `rename_classes_in_layout` (the per-file rewrite) and `split_string`,
  `trim_whitespaces`: outside this repository; the first is a step with
  a nondeterministic result, the other two are modelled by what they do.
* Pass declarations and the instrumentation test: no state changes.
* `create_resource_reader`, `get_service_loader_classes_helper`,
  `configs_to_string`, `valid_xml_element` and the `finalize_*`
  helpers: a file test, line reading and formatting, with no loop or
  branch a property could tell apart from the code itself.
