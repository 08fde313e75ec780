# luv60 in TLA+

luv60 is a one-pass compiler: `luvc` reads a source file, `lex_indexer` finds the offset where every token
starts, `token_categorize` says what stands at an offset, and `parse.c` parses, resolves names, checks types
and emits IR in the same recursive descent. At the end of each function body the vendored IR library
compiles it to machine code. There is one thread and no persistent state: what makes the compiler hard is
state that is shared between recursive activations (the cursor, the scope slots, the arenas, the emitted
control flow), each saved, reused or put back at the right moment by hand.

This directory holds TLA+ models of those parts, the TLC configurations that check them, and TLAPS proofs.
`PROJECT.json` says which definition stands for which lines.

## Inventory

| Part | Source | State | Operations | Correct when | Model |
|---|---|---|---|---|---|
| Arena allocator | `arena.c` | position, commit, reserve | create, push, pos, pop_to | live blocks are committed memory and share no byte, a pop restores its moment | `Arena` |
| Token cursor | `parse.c` 981-1060, 2301-2334, 2388-2427, `token.c`, `categorizer.in.c` | current and previous kind, `token_buffer`, `indent_levels`, bracket level | advance, match, peek, consume | INDENTs and DEDENTs balance, fixed arrays suffice, the grammar sees only its own kinds | `Cursor` |
| Control flow | `parse.c` 3328-3522, 3735-3841 | `pending_conds` of each scope, the IR's control | if, elif, else, for, return, def, end of block | one branch of an if runs, a return ends the function, every END is merged once | `Control` |
| Symbols of a scope | `parse.c` 100-130, 549-593, 2862-2879 | flat array or hash table | sym_new, find_in_scope | a name stands for its last declaration | `SymTable`, `Env` |
| Variable scope arena | `parse.c` 779-979 | open scopes, their tables, saved positions | enter and leave scopes and functions, growing tables | an open scope's table is never freed or overlaid | `VarScopes` on `Arena` |
| Names and upvalues | `parse.c` 2881-3162, 926-976 | `UpvalMap` of each scope | look up, capture, forward, `global`, call | a captured variable is the lexical one and reaches the function that uses it | `Upvals` |
| List literals, comprehensions | `parse.c` 240-298, 2301-2500 | saved cursors, `OpVec` | scan ahead, reread, append | what is reread is what was read, a list ends at its own bracket | `Expr` |
| Expression grammar | `parse.c` 1534-1604, 2275-2860, 3164-3320 | none | Pratt rules | operators bind as the precedences say, all of an expression is read | `Expr` |
| Operands, constants | `parse.c` 160-238, 1060-1830 | none | casts, unification, folding | a folded constant is exact or refused | `ConstFold`, `Expr` |
| Calls, struct lowering | `parse.c` 1900-2087 | none | C ABI | agrees with the platform's C compiler | arguments in `Expr`, lowering not planned |
| Structs | `parse.c` 2089-2260, 3610-3712, `type.c` 244-296 | field tables, initializer blobs | layout, literals | fields do not overlap | layout in `TypeTable` |
| Type table | `type.c` | word array, one table per kind | make and intern a type, rewind | equal types have equal handles, a handle keeps its meaning | `TypeTable` |
| Hash table | `dict.h` | control bytes, slots | find, insert, erase, grow, rehash in place | a set of keys, a lookup ends, a rehash ends | `Dict`, `KeySet` |
| Interned strings | `str.c` | insert location | intern, escapes | equality is equality of text | planned |
| Lexer index | `lex.c` | carries between blocks | index by blocks, index by tokens | both find where the tokens start | `LexIndex` |
| Categorizer | `categorizer.in.c` | bracket level | scan one token | generated by re2c | bracket level in `Cursor` |
| Driver, platform | `luvc_main.c`, `base_*.c` | options | files, memory, time | pure I/O | not modelled |
| Syntax-only parser | `parse_syntax_check.c` | cursor | a second grammar | same cursor as above | not modelled |
| Old backend | `gen.c` | | | not built (`configure.py` 12-33) | not modelled |
| IR library | `third_party/ir` | | END, MERGE, IF | vendored | as `parse.c` uses it |

How they interact. The parser calls `advance`, which calls `token_categorize`; the bracket level is the
categorizer's own static, changed as a side effect of looking at a token. Statements open and close scopes;
a scope is a slot of `Parser.scopes` that holds the function's IR context, its pending branches, its
upvalues and its symbols at once, and is reused without being cleared. `cur_scope` decides where IR goes
(`_ir_CTX` is a member of it) and which symbols are found, and `leave_function` switches it half-way.
The tables of symbols live in an arena that is popped as scopes close.

Hard behaviours, each with its line, are the hazards of `PROJECT.json`: reused slots, positions and cursors
saved and put back, a representation that changes when it is full, indexes that only the shape of the input
bounds, and the order in which branches are merged.

## Modules and how they correspond to the code

**`Arena`** - `pos`, `commit` are `cur_pos`, `cur_commit`. `live` and `marks` are kept beside: the blocks
handed out, and the positions callers saved with `arena_pos`. `Push` is `arena_push` whole: commit first,
then the request or the failed CHECK (`trapped`). Offsets are relative to the page-aligned base, so
alignments that divide the page mean the same as in the code. `base_mem_commit` succeeds.

**`Cursor`** - one action for every way through `advance` (a buffered token, a token of the line, a line
break, a blank line), and three for `peek` (`Peek`, `PeekLine`, `PeekBlank`). A token the grammar does not
tell apart is "word". The popping loop of 1011-1014 is the set `Kept`, of one element. `depth` counts the
blocks the parser has been told of; `ReadPastEnd` is the `advance` of `parse_precedence` at the end of the file.
A list comprehension (2301-2334, 2388-2427) is three actions: `BeginComprehension` where the scan finds a
`for`, `EndClauses` where the cursor goes back to the element, `EndElement` where it goes behind the clauses.
`comprs` has the cursors they keep. None of them puts back the bracket level, so that from the first one on
(`reread`) `paren` is any number, negative too, and line breaks can be counted while brackets are open.
`BeginComprehension` takes any level, as the scan counts brackets without looking whether they match: the
model has every level the code can leave, and more. `ScanFails` is the ASSERT at 2302.

**`Control`** - the emitted graph is abstracted to the set of paths of an execution that reach the point of
emission, and two facts of each: has it executed a return, has it taken a branch of the one if that is
watched. `pending` belongs to a slot, as in the code, and survives the function. Conditions may evaluate to
anything. Four history variables that no action reads say what the program has been so far (`deadCode`: a
statement followed a return in its block; `fellThrough`: a branch or loop ended without a return) and what an
execution of it may have done (`ranAfterReturn`, `ranSecondBranch`).

**`Env`, `SymTable`** - `Env` is what one scope promises. `SymTable` has the two representations and the
move between them; the callers of `sym_new` set type and reference apart from each other, so a symbol can
be half of one declaration and half of another. With `Redeclare` FALSE the programs are those in which no
name that stands twice in the array is moved into a table (`MovesOnce`).

**`VarScopes`** - instantiates `Arena` for `var_scope_arena`; each open scope is one saved position.
A table's size is a parameter. `Leave` is `leave_function` with the `leave_scope` it ends in. `exposed` is a
history: a function nested in this one has been left since, so that its table may have been freed.

**`Upvals`** - every open scope has its symbols' kinds and its `UpvalMap`. The recursion of `create_upval`
is written as the set of functions it visits (`Capturing`). The declaration an upvalue was made for is kept
beside it. Uses of an outer function as a value, other than calls, are left out.

**`TypeTable`** - `typedata` is the array of words, `num` is `num_typedata`, and `cached` is the four tables
of interned types in one (a handle has its kind). `Intern` is what `type_ptr`, `type_array`, `type_list` and
`type_function` share: write the words behind the last block, look them up, and keep or rewind. Sizes and
offsets wrap at `WordLimit` (2^32 in the code) wherever the code stores them in a `uint32_t`. The words of a
block that an operation does not write are read as they are, so types that were given back live on in them.
A struct is `type_new_struct` with the address of its initializer. The accessors of `type.c` are `Described`.
The tables are sets: where two types are equal by comparison and not by hash, both outcomes are allowed, as
only the bits of the hash decide. `made` remembers what was asked for and the handle it got, `reused` that a
type was entered over words of another that it did not write itself.

**`KeySet`, `Dict`** - `KeySet` is what a hash table promises: a set of keys. `Dict` is all of `dict.h`: the
control bytes with the clones behind the sentinel, the groups they are looked at in, the seed taken from the
address, and the operations. A table is a record (`tab`) beside `size` and `growth_left`; a probing is the
set of the steps it can take, so that "it finds an empty byte" is a question a property can ask. The loop of
`dict_drop_deletes_without_resize` is the one thing that is not a single step: `rehash` is its counter and the
key that waits, `RehashSlot` a round. `growth_left` is a `size_t` and wraps at `SizeMax`. The compiler makes
tables, inserts, finds and destroys; `MaxExtras` counts what only the header offers (erase, rehash, reserve),
and with `MaxExtras = 0` the model is the compiler's use of it. Keys of one hash are interchangeable, so a
new key takes the least free number.

**`LexIndex`** - a text is a sequence of character classes, padded with zeros as `base_read_file` does. A
mask of a block is the set of its bits. `SimdBlock` is one round of `lex_indexer_simd`, and `carry` its nine
`state_` variables; `Minus` is the subtraction of two masks, bit by bit with its borrow, which is how `NextEscape`
tells the odd backslashes of a run from the even ones. `FallbackToken` is one round of
`lex_indexer_fallback`. `Starts` is the definition of a token's start that both are held to, written from no
implementation: what a character is part of depends on the character before it only.

**`ConstFold`, `Expr`** - `ConstFold` has the integers: literals, casts, and folding, at widths that are
scaled down. `Expr` is `parse_precedence` with the functions of the rules table as operators that recurse as
they do; what is passed along is the cursor, the bracket level and the names in scope (`st`), so that a
comprehension, which puts back the first and not the others, can be seen to. An operand carries a tree of
operators in place of IR, and a constant carries what exact arithmetic would have made of it. `TreeOf` builds
the same tree top-down from an order of the operators, such as the enum `Precedence` has, without the rules
table. The scan for a comprehension counts square brackets and no others, as the code's does, so that a call or
`len` may stand in a list.

## Runs

| Run | Shows | Bounds |
|---|---|---|
| `MCArena` | blocks are usable and disjoint, pops restore, the commit stays on pages and never shrinks | a reserve of three pages, a commit step of two, so that the clamp and the failed allocation are met; two sizes, two alignments, two saved positions |
| `MCCursor` | levels are nested, arrays suffice, blocks balance, nothing is buffered where a scan starts before the first comprehension | the array sizes of the code and all eleven indentations; bracket levels from -2 to 2; one comprehension at a time, any number after one another |
| `MCControl` | ENDs are each merged once, at most one is pending, slots are left empty, dead code or not; in functions of guard clauses a return ends the function and branches exclude each other | four blocks, two functions one in the other, four ENDs (no state needs more) |
| `MCSymTable` | no name is lost, the newest declaration is found, and the module implements `Env`, for programs of `MovesOnce` | five names, an array of three and five declarations: the array fills, moves, and the table is used on |
| `MCVarScopes` | the table of an open scope is live and apart from the others unless a function nested in it has been left | a module and functions nested three deep; tables that fill and grow |
| `MCUpvals` | captures are lexical, forwarded, and refer to the parent | two names, three functions one in the other, two upvalues each, two declarations of a name in a scope |
| `MCTypeTable` | a handle keeps its meaning, types are interned once unless one was entered over words left by another, the fields of a struct lie inside it on their alignment exactly if what they need is below the limit of a size | six blocks behind the basic types, and parts from the first two of them: enough for a type to be found, its blocks given back and another put there; functions of five parameters take three blocks, a struct of two fields and an initializer four; sizes wrap at 128, so that two arrays of sixteen `i32` wrap a struct and arrays of arrays wrap an array; a count of 128 meets the assertion of `type_array` |
| `MCDict` | the table implements `KeySet`, a lookup ends unless `growth_left` has wrapped, a rehash in place ends | groups of four and a load of three quarters (for eight and seven eighths), so that the special case of one group, a table of two groups, growth to four, and the rehash in place are all met; two hashes, two seeds, seven keys, two erasures or reservations |
| `MCLexIndex` | both indexers find the tokens of a text | all texts of up to five characters over three alphabets, in blocks of two and of four: every construct of one to three characters lies across a block's end somewhere, and strings and comments span whole blocks; the proof covers the code's 64 |
| `MCExpr` | operators bind as listed but `or` behind `and`, folding is exact where it is checked, lists end where they should but for the `for` of an inner list | chains of up to four operands over one operator of each level, chains of up to three over literals at the limits of integers of 2, 3, 4 and 6 bits, lists and comprehensions nested two deep, with calls and `len` in them; `OpVec` holds three |

One thread runs to the end of what it does. In most models the program may stop at any point, and their
properties are safety properties. `Dict` states the one fairness that the code gives: once
`dict_drop_deletes_without_resize` has been entered its loop goes on (`WF_vars(RehashSlot)`,
`WF_vars(RehashDone)`), as nothing else runs and the loop has no other exit. Nothing is assumed of when a
caller inserts. Deadlock is not checked because a program, or a failed assertion, ends each model.

Two runs find a disagreement between the code and something it says of itself (`findings`):

| Run | The code |
|---|---|
| `MCControlReturn` | a branch that returned is merged at the end of the next inner block and overwrites its result |
| `MCVarScopesNested` | leaving a nested function frees its parent's table |

The passing runs of the same modules state the part that does hold, with the histories above as its
condition. More things that the code does are in the models and have no run of their own:

- the conditions of elifs are tested after the branch before has been merged, so two branches of one if can
  run (`BranchesExclusive` of `Control` does not hold; `parse.c` 3374);
- a redeclared name turns back into its first declaration when the flat array is moved into a table, since
  `dict_insert` leaves an entry that exists (`NewestFound` of `SymTable` does not hold with `Redeclare`; 573);
- a pointer type asked for twice, once over the words of an array type that was given back, has two handles,
  although `type.c` 324 speaks of "a set of intern'd Type" (`InternedOnce` of `TypeTable` does not hold; 332);
- after a rehash in place in which no element moved, `growth_left` stays 0 and the insertion that follows wraps
  it; the table may then fill, and a lookup of a key that is not there does not end (`Overdrawn` of `Dict`,
  `dict.h` 710). It takes erasures, so the compiler does not get there; `dict_rehash(0)` of an empty table
  leaves a table whose control bytes are NULL (`Destroyed`, 539);
- the block indexer takes `<==`, `>==` and `!==` for one token and the portable one for two; the portable one
  skips a character behind `\"`, and both differ on backslashes outside strings (`LexIndex`, `lex.c` 378, 496);
  with an unclosed string or comment the block indexer writes no end of file, and the portable one reads on;
- `a and b or c` is read as `a and (b or c)` (`OrInAnd` of `Expr`, `parse.c` 1595; `ParsesByPrecedence` says
  that an `or` behind an `and` is the one case in which the tree is not the enum's); infix `in` and `not` have a
  precedence and no implementation;
- a comparison that is folded has the type of its operands, so `if 1 < 2:` is refused (`Binary`, 1811); folding
  of unsigned constants is an error (`Fold`, 1662), and so is the least value of a type written with a minus;
- casts of constants are not checked below the least value, and not at all to `u64`; a shift into the sign bit
  of an `i64` or by a negative count is not checked, and the least `i64` divided by -1 stops the compiler
  where the machine's division traps, as on x64 (`tame` of `ConstFold`, 1207, 1715, 1701);
- two variables of one size and different signs fail an assertion (`UnifiedType`, 1656);
- from the 17th element of a list on, elements are stored through a pointer that was not set (`Elements`, 274);
- the `for` of a list inside a list is taken for the outer list's, which is then never read to its own end
  (`InnerFor`; `ListsEnd` says that this is the one case); what stands between the element and the `for` is never
  parsed; the iterator stays in scope (2388-2427);
- a bracket that begins the element of a comprehension is counted once and its end twice (`BracketFirst`), so the
  bracket level is one too low from there on, -1 behind `[[y] for y in a]` (2415, 2424; `ListsEnd` gives the
  level exactly). The next bracket then brings it to 0, a line break right behind that bracket is counted, and
  the scan's assertion that nothing is buffered fails (`ScanFails` of `Cursor`, 2302);
- the size of an array and the size and offsets of a struct wrap at 2^32 with no test (`Wrapped` of `TypeTable`,
  `type.c` 261-273, 342; the assertion at 338 is of the count only): a struct of two `[805306368]i32` has
  fields outside it, and `FieldsLaidOut` says that this is so exactly where the fields need 2^32 bytes or more;
- `>>` asks nothing of its operands but that they have values: a `bool` or an array may be shifted by anything,
  and constants are not folded (`Binary`, 1893);
- an array can be indexed in a local variable only (`Subscript`, an assertion, 2759), and parentheses are not
  implemented (2276);
- a line break right behind an opening bracket, or behind an operator inside brackets, is skipped by `advance`
  but left as `prev_kind`, and the expression that follows is refused (`Cursor`, `parse.c` 998; `tokens.inc`
  9-10 says that the parser turns these kinds into others before it consumes them);
- a file that ends where an expression is due makes `advance` read past the token offsets (`ReadPastEnd`, 994);
- the lookup from an inner function finds a `global` of the one around it, and fails an assertion
  (`LookUpCrossing`, 2894);
- a nested function is an upvalue inside itself and in functions beside it, and an upvalue has no `$up` to be
  called with, so the call fails an assertion (`CallUpvalue`, 2055);
- a function between a variable and its use collects an upvalue for each use, because only the using function
  looks for one it has already (`LoadUpvalue`, 3000), so the 32 slots fill early;
- `type_size` of a list is the handle of its element, and `type_align` of a list is a word that `type_list`
  does not write (`TypeTable`, `type.c` 121-158), so that an assertion stops most structs with a list in them.

Every property of a passing run has a mutated definition in the same module (marked "Mutant"), under which
TLC finds it violated.

## Proofs

`ArenaProofs` proves every property of `MCArena` for all page sizes, reserves, commit steps, request sizes
and alignments that satisfy `ArenaAssumption` (among them that the commit step is a multiple of the page, as
every caller's 128 KiB is). The invariant `ArenaInv` adds to the properties that saved positions are ordered
and lie between the header and the position (`MarksOrdered`): without it a pop could move the position up,
and blocks pushed afterwards could overlay what another mark still counts as live. The arithmetic of
rounding is a handful of lemmas at the start.

`LexerProofs` has the two halves of the lexer. For `LexIndex` it proves `FindsTokens` for every text, every
alphabet and every even width of a block, so for the code's 64. The indexers compute with masks over a block or
with positions, and `Starts` says of each character what it is, so the proof goes up in layers:
- *What the masks compute*, bit by bit: `EscapesAre` follows the borrow of the subtraction through a run of
  backslashes, `FlippedIs` the parity of the quotes before a bit, and `DelimitersAre` shows that `find_delimiters`
  finds just the quotes, hashes and newlines at which what is open changes.
- *What they are of the text*: `EscapesHere` and `RegionsAre` (the carry of a block is what was open at its first
  character), and `DoublesInText`: in a run of `<`, `>` and `=` the second characters of tokens are the escaped
  ones, which is where `~SimdExcepted` is needed and the only place.
- *Which bits are tokens* (`IndexesAreStarts`, `BlockIs`), and from block to block (`BlockStep`): what is written
  is the tokens up to here but the last, which the carry has relative to the next block.
- *From token to token* (`FallbackStep`): a string is passed up to its closing quote (`ClosingQuoteIs`, where
  `~FallbackExcepted` is needed), a comment up to its newline, and nothing between two offsets is a token's start.
- `AscendsUnique`: an ascending sequence is determined by its members, so both wrote the same offsets.

`IndexInv` is the invariant: of a text without the exceptions, `SimdInv` for the one indexer and `FallbackInv`
for the other. `Part`, the borrow and the closing quote are recursive functions; that they satisfy their
equations comes from `Recursion` (a function defined from each number to the next exists), and what holds of all
their values from `Induct`, both from the least-number principle (`Least`), as no induction theorem of the
library can be used. With those functions written as recursions TLC found `IndexInv` to hold for all texts of
up to four characters.

`LexerProofs` also proves every property of `MCCursor` for any deepest indentation, any bracket levels and any
number of comprehensions inside each other: arrays of `MaxIndent + 1` levels, `MaxIndent + 1` buffered tokens
(the DEDENTs of a line, and the line break that `peek` puts on top) and `MaxIndent + 1` scopes suffice. `Stack`
adds that the level at each place of the stack is at least that place, so that the stack's length is
bounded by the deepest level. `Owing` is `BlocksBalanced` in the form that is inductive: it says of the buffer
itself, with or without `peek`'s token on top, what the parser is still owed. `Counted` is what keeps the
assertion of the scan until the first comprehension: the level is not negative, it is above 0 while an opening
bracket is the current token, and no blocks are buffered behind one. Nothing of it is claimed behind a
comprehension, where it does not hold; the blocks balance there all the same, because no comprehension touches
the indentation or the buffer.

`ControlProofs` proves every property of `MCControl` for any number of blocks, functions and ENDs, in three
layers that are inductive one on the other. `Shape` adds to the type how blocks, functions and slots nest
(`Nested`), from which at most one branch is ever pending in a slot and none in a slot that is free: a branch
is only pushed at the end of a block, right after `parse_block` has popped. `Owned` adds that some path
reaches every point of emission (`Reached`; without it an END could be empty and look free) and says
`EndsOwned` in a form that speaks of one END per slot (`Sole`). `Guarded` says where the paths that have
returned, or have taken a branch of the watched if, can be in a function of guard clauses.

`TypeTableProofs` proves every property of `MCTypeTable` for every set of types a program can make and any
size of the table. `IInv` says of each type that was returned that all its blocks lie below `num` (`Placed`),
that they hold its words (`Filled`, `FilledStruct`), and, as long as nothing was reused, that the words it does
not write are zero (`Zeroed`); and of each interned handle that it was returned once. A step writes only behind
`num`, and `Frame` shows that such a write disturbs nothing. That a type asked for again is found
(`AskedAgain`) is where `Zeroed` is needed: without it the words compare unequal. On top of `IInv`, `LInv` says
that all words are numbers, that the fields of a struct were handed out before it (`FieldsBelow`: so the size
and alignment they were laid out with stay theirs), and that they are laid out if and only if they fit. Both
directions compare two recursive functions of the field's number: `FieldEnd`, which wraps at every step, and
`ExactEnd`, which never does. As long as the exact ends are below `WordLimit` the two agree (`NothingWraps`), and
the fields lie apart (`LaidOutIfFits`). Conversely, where each field ends before the next one begins and before
the struct does, no step can have wrapped, so that the exact ends are those the code has, and they fit
(`WrappedOverlaps`). There is no induction here: `RunExists`, `ExactEndIs` and `FieldEndIs` take the least number at
which a function would fail its equation, which the well-foundedness of `<` on the naturals gives (`Least`; the
library states it without an operator parameter). That alignments divide each other (`AlignedByLarger`) is
shown the same way from "a power of two is 1 or twice a power of two", and that `WordLimit` is a multiple of every
alignment (`WordLimit % 128 = 0`) is what keeps a wrapped offset on its alignment.

`SymTableProofs` proves every property of `MCSymTable`, the refinement of `Env` included, for every set of names
and length of the array. `IInv` adds to the type that the array has one faithful symbol for each declaration,
in their order (`ArrayFaithful`), that what the table has of a name are declarations of that name
(`TableOwn`), and, without `Redeclare`, that a name of the table has one declaration (`TableOnce`).
`NamesKept` and the type hold of all programs. `NewestFound` and `ImplementsEnv` have the hypothesis
`~Redeclare`, as a redeclared name that is moved turns back into its first declaration (see above);
`SymTableNewestUnlessMoved` says, without a hypothesis, that this is the only case: while the scope is an array
the newest declaration is found.

`VarScopesProofs` proves every property of `MCVarScopes` for every arena, alignment, nesting and size of tables
(`VarScopesAssumption`). Three parts of `IInv` are its argument: saved positions are ordered below `pos`
(`MarksOrdered`), live blocks are below `pos` (`LiveBelow`), and the table of a scope that is not exposed is
below every position that was saved after it (`TableBelow`). The last one is what fails for a scope in which a
nested function has been left, and for such a scope alone.

`UpvalsProofs` proves every property of `MCUpvals` for every set of names, depth of functions and size of
`UpvalMap`. `IInv` adds to the properties that an upvalue that is forwarded is of a function further out than
the parent, and that the parent has an upvalue of its name (`Forwarded`), and that a name in scope counts its
declarations (`VersionsCounted`). A function may have several upvalues of a name (`LoadUpvalue`, 3000), and what
is forwarded by name is the first: that it is of the declaration captured follows because all of them are
lexical, and a name has one lexical home from each function.

`DictProofs` proves `TypeOK`, `EveryProbeEnds` and the refinement of `KeySet` for the table as the compiler uses
it: `AsCompiled` says that groups are of 8 or 16 bytes, that an eighth of the slots stays empty, and that nothing
is erased, rehashed or reserved (`MaxExtras = 0`: no caller in the compiler does). Hashes, seeds, what `Mixed`
makes of them, capacities and the number of keys are arbitrary. Three things carry it:
- *A probing visits every group.* Its strides grow by a group each time, so the groups it comes to are numbered
  by the triangular numbers modulo the number of groups `q`, a power of two. `TriReaches` proves that they have
  every remainder by `q`, by doubling: if `Tri(n) = kq + i` with a `k` of the wrong parity for `2q`, then
  `Tri(2q - 1 - n)` has the other one (`TriMirrored`). `Pow2` is the least set with 1 that is closed under
  doubling, so that `Pow2All` is an induction over it. `SlotReached` then finds each slot, or its clone behind the
  sentinel, in some group of each probing.
- *An Empty is found, and found first where it counts.* `EmptyReached` covers the tables smaller than a group
  too, where bytes behind the clones are never written. `FirstIsEmpty` says that the slot that
  `dict_find_first_non_full` picks is a slot (not the sentinel), is empty, and is one that `dict_find` gets to.
- *`Good` is inductive.* A table is `Good` if it is well formed, its clones agree (`Cloned`), each key is where
  its own probing gets to (`KeysPlaced`), and no key stands twice (`KeysOnce`). An insertion only takes empty
  bytes away, so what a probing passed before it still passes (`PutGood`); a resize is as many insertions as there
  are keys (`ResizedGood`, over the slots in their order by the least-number argument above). `IInv` adds that
  `size` counts the keys and `growth_left` is what is left of the capacity's growth; so an insertion without
  room always grows the table (`NeverDrops`: the load is over 25/32 by then), and the larger one has room.

`IInv` is too large for TLC as it stands (`Pow2` is defined by all sets of numbers). With `Pow2` replaced by the
powers of two up to 256 it held in every state of an instance with groups of 8, and of one with groups of 16,
before it was proved.

Only model-checked: `Dict` with erasures and rehashing in place, and `Expr`.
- `Dict`: the liveness `RehashEnds` is out of the prover's reach. With erasures and reservations `TypeOK` is not
  an invariant for every value of the constants (once `growth_left` has wrapped, `dict_reserve` may be asked for
  a table below `size`, which the bounds of `MCDict` do not let happen), so the theorems are of the compiler's use.

- `Expr` recurses over its text, so its properties are for TLC: the operators that recurse (`ParsePrecedence`
  and those it calls) are kept out of the modules that have proofs.
- `ConstFold` has no RECURSIVE operators, but the limits of its widths are powers `2^w`, and none of the provers
  knows anything of `^`.

## Plan

1. `StrIntern`: the three representations of a string, escapes, and the buffer that only an assertion guards.
2. Initializer blobs, compound literals, and assignments in `Expr`.
3. Sym pointers that outlive a move of the flat array, as a ghost of `SymTable`; capture by value and the
   layout of `$up` in `Upvals`.
4. Folding and unification against the widths of what is emitted (a `u32` cast to `i64` is sign-extended).
5. Proofs: `Dict` with erasures (that no probing went past a slot which `WasNeverFull` lets become empty).

The abstract specifications there are: the environment of a scope (`Env`) and a set of keys (`KeySet`). Worth
stating next: lexical scoping with capture by value for `Upvals`.
