------------------------------- MODULE Arena -------------------------------
(***************************************************************************)
(* The bump allocator of src/src/arena.c.  An arena reserves an address    *)
(* range, commits a prefix of it, and hands out addresses below `pos';     *)
(* callers give memory back by popping to a position that arena_pos        *)
(* returned earlier.  Offsets are relative to the arena's own base, which  *)
(* is page aligned.                                                        *)
(***************************************************************************)
EXTENDS Integers, Sequences, FiniteSets

CONSTANTS PageSize,         (* base_page_size()                             *)
          HeaderSize,       (* ARENA_HEADER_SIZE, the Arena struct itself   *)
          ProvidedReserve,  (* arena_create's provided_reserve_size         *)
          ProvidedCommit,   (* arena_create's provided_commit_size          *)
          Sizes,            (* the sizes callers ask arena_push for         *)
          Aligns,           (* the alignments they ask for                  *)
          MaxMarks          (* bound: positions callers hold on to at once  *)

ASSUME ArenaAssumption ==
    /\ PageSize \in Nat \ {0}
    /\ HeaderSize \in Nat
    /\ ProvidedReserve \in Nat
    /\ ProvidedCommit \in Nat \ {0}
    /\ ProvidedCommit % PageSize = 0    \* every caller passes KiB(128)
    /\ HeaderSize <= ProvidedCommit
    /\ ProvidedCommit <= ProvidedReserve
    /\ Sizes \subseteq Nat \ {0}
    /\ Aligns \subseteq Nat \ {0}
    /\ MaxMarks \in Nat

VARIABLES pos,      \* cur_pos
          commit,   \* cur_commit
          trapped,  \* CHECK(false && "allocation failure") was reached
          live,     \* blocks handed out and not popped: [lo, hi) and alignment
          marks     \* positions callers saved with arena_pos, oldest first,
                    \* each with the blocks that were live at that moment

vars == <<pos, commit, trapped, live, marks>>

----------------------------------------------------------------------------
(* Arithmetic *)

\* Mutant: ALIGN_DOWN where ALIGN_UP is meant.
AlignDown(n, a) == n - (n % a)

\* ALIGN_UP of base_core.h.
AlignUp(n, a) == (n + a - 1) - ((n + a - 1) % a)

\* cur_reserve, which never changes.
reserve == AlignUp(ProvidedReserve, PageSize)

\* The prefix arena_create commits.
initialCommit == AlignUp(ProvidedCommit, PageSize)

Smaller(m, n) == IF m <= n THEN m ELSE n
Larger(m, n) == IF m >= n THEN m ELSE n

\* Mutant: the commit is extended exactly to the request.
CommitForExact(post) == IF commit < post THEN Smaller(post, reserve) ELSE commit

\* Mutant: the clamp to the reserved range is forgotten.
CommitForUnclamped(post) ==
    IF commit < post THEN AlignUp(post, ProvidedCommit) ELSE commit

\* Mutant: the commit is recomputed even when it already covers the request.
CommitForAlways(post) == Smaller(AlignUp(post, ProvidedCommit), reserve)

\* cur_commit after arena_push has made room for a block that ends at post: a
\* multiple of the provided commit size, clamped to the reserved range.
CommitFor(post) ==
    IF commit < post THEN Smaller(AlignUp(post, ProvidedCommit), reserve)
                     ELSE commit

Block(lo, size, align) == [lo |-> lo, hi |-> lo + size, align |-> align]

----------------------------------------------------------------------------
(* Operations *)

Init ==
    /\ pos = HeaderSize
    /\ commit = initialCommit
    /\ trapped = FALSE
    /\ live = {}
    /\ marks = <<>>

\* arena_push: the commit grows first, and stays grown when the request still
\* does not fit, which ends the program.
Push(size, align) ==
    LET pre  == AlignUp(pos, align)
        post == pre + size
    IN  /\ ~trapped
        /\ commit' = CommitFor(post)
        /\ \/ /\ commit' >= post
              /\ pos' = post
              /\ live' = live \cup {Block(pre, size, align)}
              /\ UNCHANGED trapped
           \/ /\ commit' < post
              /\ trapped' = TRUE
              /\ UNCHANGED <<pos, live>>
        /\ UNCHANGED marks

\* arena_pos: the caller keeps the position to pop to it later.
SavePos ==
    /\ ~trapped
    /\ Len(marks) < MaxMarks
    /\ marks' = Append(marks, [pos |-> pos, live |-> live])
    /\ UNCHANGED <<pos, commit, trapped, live>>

\* Mutant: CLAMP_MAX where CLAMP_MIN is meant.
PopTargetClampMax(p) == Smaller(HeaderSize, p)

\* Mutant: the position is taken to be relative to the header's end.
PopTargetRelative(p) == p - HeaderSize

\* arena_pop_to clamps to the header.
PopTarget(p) == Larger(HeaderSize, p)

\* arena_pop_to with the i-th saved position: every block above it is gone and
\* so are the marks that were saved after it.
PopTo(i) ==
    /\ ~trapped
    /\ pos' = PopTarget(marks[i].pos)
    /\ live' = {b \in live : b.hi <= pos'}
    /\ marks' = SubSeq(marks, 1, i - 1)
    /\ UNCHANGED <<commit, trapped>>

Next ==
    \/ \E size \in Sizes, align \in Aligns : Push(size, align)
    \/ SavePos
    \/ \E i \in DOMAIN marks : PopTo(i)

Spec == Init /\ [][Next]_vars

----------------------------------------------------------------------------
(* Properties *)

Blocks == [lo : Nat, hi : Nat, align : Aligns]
Marks == [pos : Nat, live : SUBSET Blocks]

\* The state is of the right type.
TypeOK ==
    /\ pos \in Nat
    /\ commit \in Nat
    /\ trapped \in BOOLEAN
    /\ live \subseteq Blocks
    /\ marks \in Seq(Marks)

\* No live block reaches into the arena's header, past the position, or past
\* the committed memory, and the commit never passes the reserved range:
\* whatever arena_push returned can be written to.
BlocksUsable ==
    /\ HeaderSize <= pos /\ pos <= commit /\ commit <= reserve
    /\ \A b \in live : HeaderSize <= b.lo /\ b.lo < b.hi /\ b.hi <= pos

\* Two blocks that are live together never share a byte, whatever was popped
\* and pushed again in between.
BlocksDisjoint ==
    \A a, b \in live : a # b => a.hi <= b.lo \/ b.hi <= a.lo

\* Popping to a saved position gives back exactly the blocks handed out since:
\* those that were live when the position was saved are the live blocks below it.
MarksRestore ==
    \A i \in DOMAIN marks : {b \in live : b.hi <= marks[i].pos} = marks[i].live

\* arena_push passes arena + cur_commit to base_mem_commit, and mprotect takes
\* page-aligned addresses only, with its result ignored: the boundary is always
\* on a page.
CommitOnPages == commit % PageSize = 0

\* commit_post_clamped - cur_commit is an unsigned subtraction: the commit never
\* moves back.
CommitNeverShrinks == [][commit' >= commit]_vars
============================================================================
