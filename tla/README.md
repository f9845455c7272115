# A TLA+ model of biscuit-go

Biscuit tokens are signed chains of datalog blocks. A holder may append blocks
that attenuate a token; a verifier checks the chain, loads the blocks and its
own facts, rules, checks and policies into a datalog world, saturates it, and
decides. This directory models the parts of this repository where that can go
wrong in ways a unit test would hardly reach, model-checks them with TLC, and
proves the central ones with TLAPS.

## Inventory

| Component | State | Operations | Hard behaviour | What makes it correct |
|---|---|---|---|---|
| `datalog.World` and `Run` (datalog/datalog.go) | facts by origin, rules by trusted origin, limits; per run: a context, a channel, a goroutine with its locals | AddFact, InsertFacts, AddRule, ResetRules, Run, QueryRule | a goroutine that outlives its timed-out Run and shares an unlocked map with the caller; map iteration order; limits | nil means fixpoint; facts depend only on trusted blocks; Run returns; the goroutine stops |
| Rule application (datalog/evaluator.go, datalog/origin.go) | none (per call) | Rule.Apply, combinations, combineIt.matches, evaluator | odometer with pruning; a flag shared by two closures; origin union | every match found once; origins complete |
| Token life cycle (biscuit.go, third_party.go) | container (signed blocks, proof, root key id) | New/Build, Append, ThirdPartyBlockRequest, SignRequest, AppendThirdPartyBlock, Seal, AuthorizerFor, RevocationIds | stale or misplaced third-party contents; v0/v1 mixes; sealed tokens; spliced chains | verification accepts exactly the chains that were built |
| Symbol and key tables (datalog/symbol.go, datalog/publickeys.go, builder.go, types.go) | slices of strings and keys per token, block, authorizer | Insert, Extend, SplitOff, Clone, UpdatePublicKeys, Unmarshal | shared backing arrays; private tables of third-party blocks | an index always names the string or key it was made for |
| Scopes, authorizer (authorizer.go, datalog/origin.go) | world, registry, translated checks and scopes | Build, Authorize, Query | registry filled while it is used; repeated Authorize/Query | a decision depends on trusted facts only; a failed check never authorizes |
| Check kinds (datalog/datalog.go, evaluator.go) | none | Check.Verify, verifyAny/All/NoMatches | `break` inside `switch`, several expressions | the documented meaning of one / all / reject |
| Expressions (datalog/expressions.go, parser/grammar.go) | a stack of terms, a stack of texts | Evaluate, unary and binary operators, Print, ToExpr | int64 overflow, division by zero, stack limit; precedence | errors instead of wrapped values; the text shown is the expression evaluated |
| Hash sets and orderings (internal/set, Compare and Hash of every type) | buckets by hash, a size | Insert, Remove, Contains, Union, Intersection, Equal, Contained | hashes that depend on map order, collisions, a value that does not equal itself | sets, up to the copies a term may leave |
| Builders (builder.go, authorizer.go) | lists of facts, rules, checks, policies, scopes; a symbol table | Add*, AddBlock, AddAuthorizer, Build, SerializePolicies, LoadPolicies | additions and loads that fail half way, duplicates | what was added is what a reader reads |
| Conversions (types.go, converters.go, converters_v2.go) | none | author's form to indices to the wire and back | three numberings of operations, dates cut and unsigned, sets that may not be written | a round trip loses nothing but fractions of seconds |
| Parsing of statements, inspection, crypto, generated protobuf | none | – | – | – |

Interaction: `AuthorizerFor` verifies a token and yields a builder; `Build`
fills a new world from the token's blocks and the builder's lists, translating
symbols and keys into its own tables; `Authorize` and `Query` call `World.Run`
and then read the world directly (`w.Facts`, `QueryRule`, `Check.Verify`),
relying on Run's nil to mean that nothing touches the facts any more.

## Modules

| Module | What it is |
|---|---|
| `Datalog` | facts with origins, rules with trusted origins, application of a rule: pure definitions |
| `Saturation` | abstract specification: what Run promises |
| `World` | the caller, Run and its goroutines, step by step; implements `Saturation` |
| `MCWorld` | instances of `World` for TLC |
| `DatalogProofs`, `WorldProofs` | lemmas and theorems about `Datalog` and `World`, which implements `Saturation` |
| `Combine`, `MCCombine`, `CombineProofs` | the search for matches, against unification |
| `Token`, `MCToken`, `TokenProofs` | the token life cycle with symbolic signatures |
| `Tables`, `MCTables`, `TablesProofs` | symbol tables (slices over shared arrays) and key tables of tokens and blocks |
| `Authorizer`, `MCAuthorizer`, `AuthorizerProofs` | Build, Authorize, Query, scopes, checks of all kinds, policies; over `Datalog` |
| `Ordering` | how values compare and hash: pure definitions |
| `Sets` | abstract specification: what hash sets promise |
| `HashSet`, `MCHashSet`, `HashSetProofs` | hash sets, loop by loop; implements `Sets`, with hashes and comparisons from `Ordering` |
| `Conversion` | the three forms of facts, rules, checks and policies, and the conversions between them: pure definitions, over `Ordering` |
| `Builders`, `MCBuilders`, `BuildersProofs` | builders of blocks and authorizers, blocks read back, policies saved and loaded; over `Conversion` |
| `Terms` | the operators of expressions on terms: pure definitions |
| `Grammar` | an expression written as text and read from it: pure definitions |
| `Expressions`, `MCExpressions` | an expression's tree, its postfix program and the stack machine |

Definitions introduced by a comment "Seeded fault" are not part of any
specification: each is a mutated form of the definition that follows it, and
shows that some property notices the fault.

### Datalog and World

A fact set is a set of entries `[fact, origin]`, as `FactSet` maps an encoded
origin to a set of facts. A rule is reduced to its ground instances whose
expressions hold, and to the bodies on which evaluation is an error
(`expression.Evaluate` fails, or a head variable is unbound). This keeps what
World tells apart: which facts match, which origins are united, whether Apply
fails. How a body with variables is searched is `Combine`'s subject.

`World` has one caller and one goroutine per call of Run. The goroutine's steps
are cut where another process can be noticed: the loop head with its context
check (`Iterate`), the read of a group's visible facts (`NextGroup`), one rule
with its context check (`ApplyRule`), the count before the merge
(`CountFacts`), the insertion of one origin's new facts (`MergeOrigin`), the
count after it (`Decide`). The channel is the program counter `"send"`: done is
unbuffered, so the goroutine stays there until `ReturnVerdict`, for ever if the
caller has taken `ReturnTimeout`. `Deadline` may happen at any time while the
caller waits. Since `select` chooses among ready branches, both returns are
enabled together.

Unsynchronised accesses to the Go map `w.Facts` are interleaved at the
granularity above; in addition `MapFault` is enabled whenever one goroutine
writes while another process may access the map, and ends the behaviour, as the
runtime's "concurrent map" error ends the process.

The caller loads before it first runs, as `authorizerBuilder.Build` does, and
then runs and reads in any order, as repeated `Authorize` and `Query` do.
`AllowOverlap = FALSE` restricts it to call Run only when no earlier goroutine
is active, which holds for every caller that stops after a timeout error.

### Combine

State: the index vector, its `done` and `failed` flags, and where the loop and
its consumer stand. `Reject` is a call of `failedAtIndex`, `Accept` a yielded
match, `Advance` the loop of `combinations.iter`. The consumer may stop at any
match, as `verifyAnyMatches` does.

### Token

Tokens are values in a growing sequence; each operation makes a new one from an
old one, so forks (two holders appending to the same token) are covered. A
signature is the pair of key and message. Payload layouts are tuples that keep
what the code distinguishes: labelled parts for v1, no previous signature in v0.
The unlabelled v0 and sealing payloads carry a tag each in the model; whether
two byte strings of different layouts can coincide is not modelled.
`AppendLegacy` is a holder with another Biscuit implementation: this library
verifies v0 blocks but never makes them. The symbol and key tables its
operations also carry are module `Tables`.

### Tables

A Go slice is a header (array, length) into a heap of arrays, so that two
headers may share an array as `SymbolTable.Clone` makes them do; `Push` is Go's
append, in place while the array has room. A block keeps, beside what it
carries (indices, its own symbols and keys), the strings and keys its author
meant, which the properties compare with what `ReadWords` and `ReadScopes` make
of it. Key tables are copied by the code and are plain sequences. `Forks` and
`ReloadThirdParty` restrict the holder: derive only from the latest token, and
reload only tokens without third-party blocks.

### Authorizer

Built on the same `Datalog` operators as `World`. `LoadBlock` is one turn of
Build's loop, with the signature registry as far as it is filled. A scope names
a key, where the code holds an index (`Tables`' subject); `Hydrates` is the
outcome of resolving them.

A call of Authorize or Query begins with a run: `StartCall`, then the groups of
rules one by one in map order (`ApplyGroup`), then the merge and the comparison
of counts (`NextRound`, `RunDone`). `RunError` is a failing rule or a limit,
which is looked at after the merge and before the test for a fixpoint, so that it
may end a run on a saturated world; `RunTimeout` may end a run at any time, its
verdict being ready included. If the groups were all visited by then, the
goroutine goes on: its facts become `stale`, and `StaleMerge` adds them one by
one at any later time, in the middle of another run or between two checks.
`NextRound` and `RunDone` compare counts of the shared facts as the code does,
so a late merge between the two counts makes them differ, and one before them
may make them agree short of the fixpoint. Each check and each policy is then a
step of its own (`EvaluateCheck`, `EvaluatePolicy`) that reads the facts of its
moment. `Outcomes` is a set because `verifyAnyMatches` and its siblings visit
matches in the order of a Go map and return at the first that decides or fails.
What is coarser than in `World`: a group is read and applied in one step, a
round is merged between the two counts in one step, and a goroutine that has
timed out merges no second round, since it consults its context between rounds.
The runtime's abort on concurrent map accesses is `World`'s subject.

`overlapped` is a history variable: did a run begin while the goroutine of an
earlier one still had facts to merge? `Attenuation`, `AllowJustified` and
`VerdictStable` are stated for behaviours in which none did, by the same
hypothesis as `World`'s `~AllowOverlap`. It is needed: with it left out TLC
finds all three violated, by the mechanism `world_overlap` shows. A caller meets
it by not calling again after a timeout; authorizer.go:487 and 602 do not ask
for that. `AllowSupported` is what remains without any hypothesis: a yes lacks
no match it needs, and can only have missed what a later fact would have refused.

### Ordering, Sets and HashSet

`Ordering` has Compare and Hash of terms, predicates, expressions, scopes, rules
and origins. A hash is the stream of bytes it is made from; a term that holds a
set yields one stream for each order of the set's elements, as the Go code
hashes them in map order. In `HashSet` an element has a set of hashes and every
lookup draws one of them. Operations that loop over buckets (union,
intersection, inclusion) take one element per step
and visit the buckets in any order; the others are one step. `Sets` says what users may
rely on: elements that are `Exact` (they equal themselves and have one hash) are
found whenever they are there; about the others an answer may be wrong in one
direction only. `MCHashSet` takes the hashes and comparisons of four rules, and
an `ASSUME` checks its tables against `Ordering`.

### Conversion and Builders

A conversion is an operator, and the conditions under which the code returns an
error are predicates (`TermEncodes`, `TermDecodes`, ...). Indices and keys are
interned over tables in the code's order; operations are renumbered between the
three enumerations of the code; a date of the author has `Ticks` to a second and
becomes one of `Seconds` unsigned values. `Builders` keeps what callers added.
A fact set is a bag, since a fact holding a set may be stored twice (`HashSet`);
`AddBlock` adds facts in any order and stops at the first it has. `Build` makes
the block over a base table and keeps what the builder held, which
`BlockReadsBack` compares with what a reader makes of the bytes. `LoadPolicies`
is one action, since the loader runs alone; it adds section by section and item
by item until one does not convert. A behaviour builds an authorizer, an
authority block or a later block, as these builders share nothing.

### Terms, Grammar and Expressions

`Terms` gives each operator the pairs of types it accepts. Strings are indices
into the symbol table, which concatenation extends; integers have `Width` bits.
`Expressions` runs the program of a tree, or any program a token may contain,
one operation per step. The reference `Meaning` knows neither stack nor shared
table: it joins the meanings of subtrees.

In `Grammar`, `Printed` is `Expression.Print`, a fold over the program with a
stack of texts. A text has words, literals, and the letters of strings with
their quotes, as Print writes them raw (expressions.go:102). `ReadText` lexes it
(a string ends at the next quote, parser.go:30), unquotes each string as
participle does (a backslash and a letter are a control character or an error)
and descends through the seven levels of the grammar, each leaving the program
its `ToExpr` would write. The reference in `Expressions` has two parts:
`Grammatical`, a table of precedences, and `Writable`, the literals that have a
text of their own. There is none for an integer below zero or a date past the
year 9999, in a set or alone, for a string with a quote or a backslash, and for
one that begins with "hex:", which `HexString.Parse` (grammar.go:586-593) takes
for bytes whatever the token's type. A string that is "!" is taken for the
operator (`Mistaken`), since participle compares a literal of the grammar with a
token's value only. `PrintsBack` says that exactly the remaining expressions
read back. In the model "hex:" is one letter, a string "," does not occur (in a
set it would be read as the comma), variables have names that are words, and no
date lies before the year 0.

## Runs

| Run | Question | Bounds | Result |
|---|---|---|---|
| `world_run` | Is Run's nil a fixpoint made by trusted blocks only? Does World implement Saturation? | 4 block ids (authority, two blocks, authorizer), 4 facts under any origin, 3 rules in 3 groups, one of them failing, fact limit 5, 3 iterations, 2 runs | passes |
| `world_liveness` | Does every Run return and every goroutine stop, even with overlapping runs? | 3 rules in 2 groups, the same limits, 2 runs, overlap allowed | passes |
| `world_overlap` | The same promise of nil when a caller retries after a timeout | fact limit out of reach, overlap allowed | `SuccessIsFixpoint` violated |
| `token_chain` | Do signing and verification agree on exactly the chains built? | 2 root keys, 1 third party, 4 tokens of up to 3 blocks, 3 generated keys | passes |
| `combine_search` | Does the search yield every match exactly once, in order, and end? | all bodies of up to two binary predicates over two variables and a constant, two three-predicate joins, up to 3 facts, repeats and another arity included | passes |
| `tables_chain` | In a token attenuated along one line, does every block read as it was written, is a block just built always accepted, and are keys and signers numbered alike by holder and reader? | 5 tokens, 5 contents, 3 keys, 2 signers | passes |
| `tables_forks` | The same for strings when two tokens are derived from one | 4 tokens | `SymbolsResolve` violated |
| `tables_reload` | The same for strings when tokens with third-party blocks are unmarshalled | 4 tokens | `SymbolsResolve` violated |
| `authorizer_verdict` | When no run began beside a stale goroutine: does appending only take rights away, is every yes justified, do repeated answers agree? Always: does a yes have the matches it needs, and a rule read only what it names? | tokens of 1 to 3 blocks out of 2 authority and 8 further blocks, 7 authorizers, 3 facts, 2 keys, any number of calls | passes |
| `expressions_eval` | Does the stack machine compute what the tree means, and which expressions are shown as a text that reads back as the same program? | 3-bit integers, 3 dates, one too late, 11 strings, stacks of 3, trees of up to 4 operators, every operator over every other with and without parentheses, all programs of up to 4 of 5 operations | passes |
| `hash_sets` | Do sizes, lookups, loops and copies behave as sets, whatever the hashes? | 2 sets, 4 rules (two collide, one has two hashes, one does not equal itself), up to 3 elements in each | passes |
| `builders_roundtrip` | Does what was added read back, and what do refused and failed calls leave? | 2 additions to each of 2 authorizer builders, 3 to a block, 1 load, 4 facts, 2 rules, 3 checks, 2 parsed blocks, 3 messages of other implementations, 2 base tables | passes |

Why the bounds are enough. `world_run`: the rules form a chain through three
blocks of which one is not trusted by the others, so a derivation needs several
rounds and origins are united twice; the fact limit and the iteration limit are
both reachable, and so is a rule error after a successful round; two runs let
the second start after the first has timed out, succeeded or failed.
`world_liveness` uses the rules without an error so that the worst overlaps
stay within reach. `token_chain`: four tokens suffice for a fork, a stale
third-party answer, an append to each, and a seal; three blocks give the
verification loop two iterations with different predecessors. `combine_search`:
three facts make every carry, reset and end-of-odometer case happen, three
positions make a carry skip a position. `tables_chain`: five tokens are an
authority and four derivations, enough for a third-party block between two
first-party blocks, a seal or reload after them, and an array that grows twice.
`authorizer_verdict`: two appended blocks cover a block that trusts an earlier,
a later and a missing signer; three facts give a chain of two derivations, and
so a run that returns nil one round too early, before a check or a deny policy
that would have matched; calls are not bounded, so stale facts of several runs
may wait at once.
`expressions_eval`: three bits put the least integer, -1 and every overflow
within reach of two operators; a stack of 3 is exceeded by one of the trees;
precedence is a relation between two operators, and all pairs occur on both
sides; the strings hold each kind of backslash (escape, no escape, itself), a
quote at either end (so that two of them can close each other), "!", "hex:" and
nothing, and they are joined with one another and put in sets. `hash_sets`: three elements fill a bucket past a collision, so removal
swaps, and an elusive element can be stored under both its hashes; two sets are
what a binary operation needs. `builders_roundtrip`: two parsed blocks share one
fact, so the second is refused with or without part of it added; dates fall
within one second and before the epoch; messages fail at the first, a middle and a later item, and for a version.

`hash_sets` and `builders_roundtrip` declare the sets, or the builders, a
symmetry: no definition names one of them, and every property they check is a safety
property.

`CHECK_DEADLOCK FALSE` is set where the system may stop: a caller may make its
last Run, a goroutine stays blocked in its send, a token holder, a search or an
evaluation is done, or Build has failed.

### What the violations show

`world_overlap`: Run 1 times out while its goroutine is between `prevCount` and
the merge, where the context is not consulted. Run 2's goroutine reads the
facts, applies its rules, then the first goroutine merges the same facts, and
only then Run 2 reads `prevCount`. Merging adds nothing, the counts agree, and
Run 2 returns nil though the rules derive more from what was merged. The code's
comment "last iteration did not generate any new facts, so we can stop here"
(datalog/datalog.go:1037) is then wrong.

`tables_forks`: `CreateBlock` and `append` work on a clone of the token's symbol
table, and `Clone` copies the slice header only (datalog/symbol.go:125-128).
While the array has spare capacity, two blocks built from one token write their
symbols to the same cell, and the token appended first reads the other's
strings.

`tables_reload`: `append` keeps a third-party block's symbols out of the token's
table, as biscuit.go:240-241 says; `Unmarshal` extends the table with them
(builder.go:180, after the `if` that just did the right thing). The next
first-party block then resolves to other strings.

### Other differences from the documentation, not run

The models contain these behaviours; no run asks about them.

- `append` and `Seal` build the container without `RootKeyId`
  (biscuit.go:309, 407), although biscuit.go:441-443 promises selection by "the
  key ID embedded within the biscuit when it was created".
- A first-party block that names a key when the token already has keys cannot be
  loaded: its indices count the token's keys, and Build looks them up in the
  block's own (authorizer.go:342-343, "Hydrate the scope with biscuit's symbol
  table."). `KeysNeverConfused` shows that the lookup never finds another key.
  The model calls every failed lookup refused; after `Unmarshal` a block without
  keys of its own has a nil table (converters.go:138, 156), so there the code
  dereferences nil where the model refuses.
- `append` refuses third-party contents that share a symbol with the token
  (biscuit.go:219), although third-party blocks have tables of their own.
  `OwnBlocksFit` is about one's own blocks.
- The authorizer's own checks are evaluated as `check if` whatever their kind
  (authorizer.go:496-513), and a `reject if` without expressions never fails
  (datalog/evaluator.go:284-299). `AllowJustified` leaves out both cases.
- `SerializePolicies` writes no public keys, so `LoadPolicies` refuses every item
  that trusts one, and drops the authorizer's scopes (authorizer.go:175-202).
- The least int64 divided by -1 wraps (datalog/expressions.go:1100) where the
  other operators report `ErrInt64Overflow`. `QuotientsExact` names the wrapped
  quotient as what the code yields.
- `Build` registers the signers block by block and computes each rule's trusted
  origin on the way (authorizer.go:333-334, 379), so a rule trusts the earlier
  blocks of a key and not the later ones, unlike the checks of the same block.
  The sample at samples/data/current/README.md:2142 derives a fact from a later
  block of the key; samples/samples_test.go:198 skips it. No property takes a
  side: `RulesReadOnlyNamed` says that a rule reads no block it does not name,
  which holds of both readings.
- A scope added to the authorizer applies to its rules and checks, not to its
  policies (authorizer.go:564).
- A fact that holds a set may be stored in as many copies as its set has orders
  (datalog/datalog.go:82), so `FactSet.Count`, which decides Run's fixpoint and
  its fact limit, can grow though nothing new was derived. `CopiesBounded` gives
  the bound; `World` counts facts as if each were stored once.
- The authority builder's `AddBlock` leaves out the scopes of the parsed block
  (builder.go:55).
- A scope type of a later version is read as the authority
  (converters_v2.go:538), where unknown kinds of checks, policies and operations
  are refused.
- Dates lose their fraction of a second (types.go:1043).
- The grammar names `==`, `!=` and `!==`, but the lexer (parser/parser.go:29)
  makes no token of them and `Operator.ToExpr` (parser/grammar.go:539) has no
  operation for them.
- A negative integer, a date past the year 9999 and a string with a backslash or
  a quote are printed and not read, or read as something else: the lexer takes
  `-` for an operator and ends a string at the next quote (parser/parser.go:29-30),
  and the parser unquotes what Print has not quoted (parser/parser.go:45,
  datalog/expressions.go:102). So the text shown for an expression that matches a
  string against `\d+` cannot be parsed. `PrintsBack` states which texts can.
- A method call with a missing or an extra argument, and an empty pair of
  parentheses, are read (parser/grammar.go:429-437) as a program that is no
  expression; evaluation refuses it (`OnlyPostfixEvaluates`).
- An expression with an unbound parameter is read as one with a nil term
  (parser/grammar.go:497, "FIXME: error management"). A fact with a variable is
  accepted in the text of a block, where parser/parser.go:15 has "a fact cannot
  contain any variables" for a fact alone.

### Fairness

`FairSpec` of World assumes that each goroutine is scheduled
(`WF(WorkerNext(r))`: the Go scheduler is preemptive and no step waits for a
lock), that a deadline passes (`WF(Deadline(r))`: `context.WithTimeout` arms a
timer when Run starts) and that a ready `select` is taken (`WF(Return(r))`).
Nothing is assumed about the caller, nor that the goroutine is ever faster than
the timer. `Combine` is sequential: weak fairness says that it runs on.

## Proofs

TLC checks the instances above; the theorems hold for every value of the
constants the modules' named assumptions allow. Each comes from one inductive
invariant of its component, which says of every program point what the property
says of the ends.

| Theorem | States | Needs |
|---|---|---|
| `WorldProofs!TypeCorrect` | `TypeOK` | |
| `RunReachesFixpoint`, `RunKeepsRound` | `SuccessIsFixpoint`, `FixpointInv` | `~AllowOverlap` |
| `ScopeDetermined` | `DeterminedBy(S, T)` for all `S`, `T` | |
| `BlocksDoNotInterfere` | `Noninterference` | `~AllowOverlap` |
| `NoFaultWithoutTimeout`, `FactsOnlyGrow` | `FaultNeedsTimeout`, `FactsStable` | |
| `RunImplementsSaturation` | `Saturates` | `~AllowOverlap` |
| `HashSetProofs!CountsExact`, `CopiesLimited` | `SizeExact`, `CopiesBounded` | |
| `HashSetProofs!HashSetsAreSets` | `Implements` (the refinement of `Sets`) | |
| `TokenProofs!TypeCorrect`, `BuiltTokensVerify`, `ContentsNeverMove`, `SealingIsFinal`, `IdsNameHistories`, `NoSpliceVerifies` | `TypeOK`, `TokensVerify`, `ThirdPartyBlocksBound`, `SealedIsFinal`, `RevocationNamesHistory`, `OnlyBuiltChainsVerify` | |
| `AuthorizerProofs!DroppingBlocksKeepsYes`, `YesIsJustified`, `AuthorizeIsStable` | `Attenuation`, `AllowJustified`, `VerdictStable` | `~overlapped`, in the properties |
| `AuthorizerProofs!NoRuleReadsMore`, `YesIsSupported` | `RulesReadOnlyNamed`, `AllowSupported` | |
| `CombineProofs!NothingSkipped`, `InOdometerOrder` | `SearchExact`, `YieldedInOrder` | |
| `TablesProofs!KeysNamed`, `NumberedAlike`, `SignersRegistered`, `BuiltBlocksFit` | `KeysNeverConfused`, `TablesCanonical`, `RegistryNamesSigners`, `OwnBlocksFit` | |
| `TablesProofs!LinesResolve` | `SymbolsResolve` | `~Forks`, `~ReloadThirdParty` |
| `BuildersProofs!RefusalsLast`, `FailedLoadsAreStrict` | `RefusedForGood`, `FailedLoadIsStrict` | |
| `BuildersProofs!BlocksReadBack`, `LoadsRestore` | `BlockReadsBack`, `LoadRestores` | |

The hypotheses are those under which the runs pass; `world_overlap`,
`tables_forks` and `tables_reload` show that the statements are false without
them (for `~overlapped`, see Authorizer above). The inductive invariants of
HashSet, Token, Authorizer and Combine are theorems too (`HashInvariant`, `ChainsAreSound`, `WorksOnLeastModel`,
`SearchAccounts`), those of Tables and Builders too (`TablesSound`,
`BuildersTypeCorrect`), as are the type invariants that no run checks.

### Assumptions

Finitely many blocks and facts (evaluation only recombines terms that were
loaded); finitely many hashes; a comparison that answers 0 only for the same
element; disjoint root, third-party and generated keys; an injective
choice of root key ids, as a caller of `WithRootKeyID` must make it; an
authorizer block id above those of blocks (the code's is the largest uint64);
a value to give to a variable; default symbols below `Offset`; a
parser that returns lists and finitely many facts; and the types of
the other constants. `ValuesAssumption` says that what callers add are values
of the Go types (`Conversion!IsPredicate`, `IsRule`, ...): an operation one of
the enumerated ones other than `Undefined`, a set a finite one, a date one
whose seconds fit an int64, a scope with a key exactly when its type is
`PublicKey`. `ForeignAssumption` says of another implementation's message only
what the protobuf types say of any message (`IsWirePredicate`, ...): a term,
operation or scope may be of a type, and an index or operation a number, that
this implementation does not know. No proof bounds the number of tokens, blocks, facts, rules,
runs, strings or keys otherwise than by these and the modules' bounds, which
are any numbers.

### Arguments

**Datalog.** `DatalogProofs` has the facts about operators: entries are finite,
matching, application and contribution are monotone in the facts, and
`ApplyLocal`: what a rule with a trusted head origin derives was matched from
facts whose origins are within that head's. `LeastModel` is a recursive
function on sets of facts; `LeastModelIsClosure` proves it equal to the
intersection of the closed sets that contain the base, from a set of facts for
which it is not and that is maximal (`WFMin` on a finite set), and all other
proofs use that intersection.

**World.** `SuccessIsFixpoint` is not inductive: it needs what the goroutine
knows in the middle of a round. `FixpointInv` says that at most the latest run's
goroutine is active (`Sequenced`), and, for each program point (`Round`), that
every rule already applied this round has its contribution in `fresh`, that
during the merge there is a subset `G` of the facts with `Count(G) = prev` whose
consequences are all in facts and `fresh`, and that at the decision equal counts
therefore make `G` the whole set. The step needs that counting is injective on
subsets of a finite set. `ScopeDetermined` carries, for all `S` and `T`, the
bound "what scope `T` sees is in `S`" for the facts and for `filtered` and
`fresh` of every goroutine; with `S` the least model it gives one half of
`Noninterference`, and `SuccessIsFixpoint` the other. `AccountedInv` says that
an active goroutine is the caller's or that of a Run that timed out. The
refinement adds `GrownInv`: what a goroutine holds in `fresh` is derivable from
the facts, and the verdict it sends is justified by them. Loading and timed-out
goroutines that still merge map to `Load` and `Grow`, the rest of a round to
stuttering.

**HashSet.** `HashInv`: at every step of a loop each set and the set under
construction keeps elements under one of their own hashes, holds no element
that equals itself twice in a bucket, and counts its places; a copy is then
named by its hash, which bounds them. Removal moves the last element of a bucket
into the hole, and `Sized` survives because the places lose exactly the last.
The refinement adds `LoopInv`: what the loop has kept and what is pending make
up the result.

**Token.** `TokenInv`: each token's blocks are signed as the verifier checks
them, its proof matches the last block, it extends its parent (`Derived`), and
of any two chains a shared next key means a shared history (`Related`). The last
is what makes splices fail: a signature names the previous block's next key, so
a block that verifies after another was made after it. Signatures are pairs of
key and message, so these proofs assume ideal signatures.

**Authorizer.** `WorldInv`: rules, facts and registry are those of the blocks
loaded so far; after Build, the facts, what the round derived and what is stale
all lie in the least model, whatever overlaps. `RunInv` adds, while
`~overlapped`, that nobody else merges during a run or the decision after it and
that the groups visited have contributed what they can; a round whose facts are
all there already then leaves a closed world, which is the least model.
`AnswerInv` ties checks, policies and phase together. `DecisionInv` says of the
checks evaluated and policies passed so far that they came out as they do on
the least model, so a verdict is one of `Verdicts` there; two of these differ
only if one is an error, since the matches of one check disagree
only if one errs. `SupportInv` is the half that needs no closed world: a match
found in some facts is found in the least model, which contains them.
Attenuation compares the least models of a token and of its prefix: what scopes
of the prefix see is the same in both, because no rule of a dropped block has a
head within their trusted origins (`LeastModelKept`); the rest follows check by
check and policy by policy.

**Combine.** `CombineInv`: matches found are the solutions not ahead of the
odometer. A rejected prefix excludes exactly the vectors that `Advance` skips:
the order of two vectors is decided at their least difference, and what lies
between the vector rejected and the next one shares the rejected prefix.

**Tables.** `TablesInv`: heap and slices fit, every token's registry and keys
are those its blocks give, every block's scope indices were made in one key
table whose end the block carries. `Later` says what appending through a slice
leaves alone: all cells but those of its own array beyond its length.
`SymbolsInv` adds, for tokens in a line, that the latest token's slice is the
longest in its array (`Longest`), so nothing a token shows is overwritten; that
each block reads as meant in its table and every extension of it; and that the
tables of first-party blocks, extended one after the other, are the token's
(`ReadBack`), which is what a reload computes. Loops over lists (`Extend`,
`ExtendKeys`, `Unmarshal`) are recursive functions; that each exists and unfolds
is `Recursion`, proved from a least counterexample since the library's
induction theorems cannot be used here.

**Builders.** `BuildersInv`: what a builder holds, and what was saved, are lists
section by section. `Remembered` is what `RefusedForGood` needs: a refused block
found a fact it knows, that fact is in the builder, and nothing removes a fact,
so an `Insert` that cannot miss it finds it again. A load adds to a section what
`Accepted` keeps of it, a beginning of the message's list (`AcceptedIsPrefix`,
from the least refused position), and nothing unless the sections before it were
complete; policies come last (`Positions`) and are loaded with their kinds. No lemma of
this part looks inside a fact or a rule.

*Round trips.* A value goes through four conversions (to indices, to the wire,
from the wire, to values), and `WholeTerm` and its siblings say what comes
out: the value, dates cut to seconds. There is a lemma for each conversion of
each part of a value, scalars first, then terms, predicates, operations,
expressions, scopes, rules, checks. They need the following, each shown on its
own. A string or key that is in a table keeps its index when the table grows,
and `Words` and `Keys` put every one a value holds into it, over any base. Each
of the renumberings of operations undoes the other one, on the numbers an
author may use. The seconds of a date that fits are recovered from the unsigned
number. A set of one type of scalars is sorted into a list that has each
element once, because `CompareScalar` is a strict total order on each type (for
bytes: lexicographic, by the least position that differs). What a reader
refuses (`BlockDecodes`, `BlockResolves`), no writer that encodes produces.
`BuiltTrip` is the invariant for blocks: `built` reads as the builder's contents
it was made from.

For policies the invariant is `BuildersHold`: every authorizer builder holds
what an author may write, and `saved.policies` is `Serialized(saved.of)`, which
was encodable. It is inductive only because what a load adds is again such a
value, whoever wrote the message: a foreign term that passes `TermDecodes` reads
as an author's term, a foreign operation as one the enumeration has, and an item
that cut dates leave is still an item. `LoadsRestore` then follows from two
facts about one item of `saved`: it loads exactly when it names no key, and what
is loaded is `Whole` of what was saved.

### Only model-checked

- Liveness: `RunReturns`, `GoroutineStops`, `SearchEnds`.
- `Grammar` and `Expressions` (`PrintsBack`, `EvaluatesTree`, `SumsExact`,
  `QuotientsExact`, `OnlyPostfixEvaluates`): they declare recursive operators,
  for which the prover has no backend, and what they claim of trees of any
  depth is an induction over data.

Every other property of a passing run is stated by a theorem.

## Not modelled

Listed with reasons in PROJECT.json. In short: the parser's conversion of facts,
rules, checks, policies and parameters, the texts of anything but expressions,
and inspection have no state and little control; the descent through the
grammar is done by a library; key algorithms and generated code are outside.
Within modelled parts: sets nested deeper than one, the inside of regular
expressions, the bytes of protobuf messages and of keys, required fields that
are missing, a block's version and context (so also the test of the datalog
version of third-party contents, third_party.go:72), the default symbols in
`Conversion` (they are in `Tables`), keys that a block's base already holds (also
there), and coincidences of v0 and sealing payload bytes.

## Plan

1. Proofs: the arithmetic of `Terms` (`SumsExact`, `QuotientsExact`), once
   it is apart from the recursive operators.
2. An abstract specification of a decision that `Authorizer` implements, and
   `Authorizer`'s runs tied to `Saturation` as `World`'s are.
3. Copies of facts in `World`'s count, now that `HashSet`'s bound is proved.
