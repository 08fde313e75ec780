--------------------------- MODULE ControlProofs ---------------------------
(* Proofs about Control, in three layers.  The first is the shape of the     *)
(* stack of blocks: which slot each block belongs to, and that at most one   *)
(* branch is pending in a slot.  The second is who owns each END, for which  *)
(* one has to know that every point of emission can be reached.  The third   *)
(* says which paths there are in a function of guard clauses.                *)
EXTENDS Control, SequenceTheorems, TLAPS

\* A stack of blocks: functions take the slots 1, 2, ... in turn, the blocks
\* in a function have its slot, sc is the slot of the innermost, only an else
\* has an END of its own, and a block that another is open in goes on.
Nested(bs, sc) ==
    /\ bs = <<>> <=> sc = 0
    /\ bs # <<>> => bs[1].kind = "func" /\ bs[1].slot = 1 /\ sc = bs[Len(bs)].slot
    /\ \A i \in 2 .. Len(bs) :
          bs[i].slot = IF bs[i].kind = "func" THEN bs[i - 1].slot + 1 ELSE bs[i - 1].slot
    /\ \A i \in 1 .. Len(bs) : bs[i].kind = "else" <=> bs[i].iftrue # NoRef
    /\ \A i \in 1 .. Len(bs) - 1 : bs[i].lst = "non_return"

\* An elif can only follow in a block that is open and goes on.
ChainInBlock == chain # "none" => blocks # <<>> /\ Top(blocks).lst = "non_return"

\* The first layer.
Shape ==
    /\ TypeOK
    /\ Nested(blocks, scope)
    /\ ChainInBlock
    /\ PendingAtMostOne
    /\ IdleSlotsEmpty

\* Code is only emitted where some path arrives, and some path waits outside
\* every block but an else, whose other branch is in an END, and the first.
HeldReached(bs) == \A i \in 2 .. Len(bs) : bs[i].kind # "else" => bs[i].held # {}
Reached == (blocks # <<>> => control # {}) /\ HeldReached(blocks)

\* The END that waits in a slot, when there is at most one.
Waits(p, s) == IF p[s] = <<>> THEN NoRef ELSE p[s][1]

\* EndsOwned when there is at most one: the ENDs not merged yet are those that
\* wait in a slot or for an else, and no two of these are the same.
Sole(e, p, bs) ==
    /\ \A r \in Refs : e[r] # {} <=> \/ \E s \in 1 .. MaxFuncs : Waits(p, s) = r
                                     \/ \E i \in 1 .. Len(bs) : bs[i].iftrue = r
    /\ \A s \in 1 .. MaxFuncs, i \in 1 .. Len(bs) :
          Waits(p, s) # NoRef => Waits(p, s) # bs[i].iftrue
    /\ \A i, j \in 1 .. Len(bs) :
          i # j /\ bs[i].iftrue # NoRef => bs[i].iftrue # bs[j].iftrue
    /\ \A s, t \in 1 .. MaxFuncs : s # t /\ Waits(p, s) # NoRef => Waits(p, s) # Waits(p, t)

\* The second layer.
Owned == Shape /\ Reached /\ Sole(ends, pending, blocks)

Took(paths) == \E p \in paths : p.took

\* The program has only guard clauses so far.
Guards == ~deadCode /\ ~fellThrough

\* No path that has returned goes on, outside a block or in it.
NoneReturned ==
    /\ ~ranAfterReturn
    /\ blocks = <<>> \/ Top(blocks).lst = "non_return" => ~Returned(control)

\* Paths that took a branch of the watched if are nowhere but in that branch.
NoneTook ==
    /\ ~ranSecondBranch
    /\ ~watching \/ chain = "watched" => ~Took(control)

\* The paths that wait outside the blocks, and whether there is a watched if.
FramesClean(bs, w) ==
    \A i \in 1 .. Len(bs) : /\ ~Returned(bs[i].held)
                            /\ ~w \/ bs[i].watched => ~Took(bs[i].held)
FramesWatched(bs, w) == \A i \in 1 .. Len(bs) : bs[i].watched => w

\* The third layer.
Guarded ==
    /\ chain = "watched" => watching
    /\ FramesWatched(blocks, watching)
    /\ Guards => NoneReturned /\ NoneTook /\ FramesClean(blocks, watching)

----------------------------------------------------------------------------
(* The stack of blocks *)

\* The same block, up to the kind of its last statement.
SameBlock(f, g) ==
    /\ f.kind = g.kind
    /\ f.slot = g.slot
    /\ f.held = g.held
    /\ f.iftrue = g.iftrue
    /\ f.watched = g.watched

\* A statement leaves every block as it is, but for lst of the innermost.
LEMMA Going ==
    ASSUME NEW bs \in Seq(Frames), bs # <<>>, NEW l \in {"return", "non_return"}
    PROVE  /\ [bs EXCEPT ![Len(bs)].lst = l] \in Seq(Frames)
           /\ [bs EXCEPT ![Len(bs)].lst = l] # <<>>
           /\ Len([bs EXCEPT ![Len(bs)].lst = l]) = Len(bs)
           /\ \A i \in 1 .. Len(bs) :
                 /\ SameBlock([bs EXCEPT ![Len(bs)].lst = l][i], bs[i])
                 /\ [bs EXCEPT ![Len(bs)].lst = l][i].lst
                       = IF i = Len(bs) THEN l ELSE bs[i].lst
<1> DEFINE f == [bs[Len(bs)] EXCEPT !.lst = l]
           go == [bs EXCEPT ![Len(bs)] = f]
<1>1. Len(bs) \in 1 .. Len(bs) /\ Len(bs) \in Nat /\ bs[Len(bs)] \in Frames
  BY EmptySeq, LenProperties
<1>2. f \in Frames /\ SameBlock(f, bs[Len(bs)]) /\ f.lst = l
  BY <1>1 DEF Frames, SameBlock
<1>3. [bs EXCEPT ![Len(bs)].lst = l] = go
  OBVIOUS
<1>4. /\ go \in Seq(Frames) /\ Len(go) = Len(bs)
      /\ \A i \in 1 .. Len(bs) : go[i] = IF i = Len(bs) THEN f ELSE bs[i]
  <2> HIDE DEF f
  <2> QED
    BY <1>1, <1>2, ExceptSeq
<1> HIDE DEF go, f
<1>5. go # <<>>
  BY <1>1, <1>4
<1>6. \A i \in 1 .. Len(bs) : /\ SameBlock(go[i], bs[i])
                              /\ go[i].lst = IF i = Len(bs) THEN l ELSE bs[i].lst
  BY <1>2, <1>4 DEF SameBlock
<1> QED
  BY <1>3, <1>4, <1>5, <1>6

\* A block is opened.
LEMMA Opening ==
    ASSUME NEW bs \in Seq(Frames), NEW f \in Frames
    PROVE  /\ Append(bs, f) \in Seq(Frames)
           /\ Append(bs, f) # <<>>
           /\ Len(Append(bs, f)) = Len(bs) + 1
           /\ Append(bs, f)[Len(bs) + 1] = f
           /\ \A i \in 1 .. Len(bs) : Append(bs, f)[i] = bs[i]
  BY AppendProperties, LenProperties

\* A prefix of a stack of blocks.
LEMMA Below ==
    ASSUME NEW bs \in Seq(Frames), NEW n \in Nat, n <= Len(bs)
    PROVE  /\ SubSeq(bs, 1, n) \in Seq(Frames)
           /\ Len(SubSeq(bs, 1, n)) = n
           /\ \A i \in 1 .. n : SubSeq(bs, 1, n)[i] = bs[i]
<1>1. n \in Int /\ Len(bs) \in Nat /\ \A i \in 1 .. n : bs[i] \in Frames
  BY LenProperties
<1>2. /\ SubSeq(bs, 1, n) \in Seq(Frames)
      /\ Len(SubSeq(bs, 1, n)) = IF 1 <= n THEN n - 1 + 1 ELSE 0
      /\ \A i \in 1 .. n - 1 + 1 : SubSeq(bs, 1, n)[i] = bs[1 + i - 1]
  BY <1>1, SubSeqProperties
<1>3. n - 1 + 1 = n /\ \A i \in 1 .. n : 1 + i - 1 = i
  OBVIOUS
<1> QED
  BY <1>1, <1>2, <1>3

\* A block is left.
LEMMA Leaving ==
    ASSUME NEW bs \in Seq(Frames), bs # <<>>
    PROVE  /\ Pop(bs) \in Seq(Frames)
           /\ Len(Pop(bs)) = Len(bs) - 1
           /\ Pop(bs) = <<>> <=> Len(bs) = 1
           /\ \A i \in 1 .. Len(bs) - 1 : Pop(bs)[i] = bs[i]
<1>1. Len(bs) \in Nat /\ Len(bs) - 1 \in Nat /\ Len(bs) - 1 <= Len(bs)
  BY EmptySeq
<1>2. /\ Pop(bs) \in Seq(Frames)
      /\ Len(Pop(bs)) = Len(bs) - 1
      /\ \A i \in 1 .. Len(bs) - 1 : Pop(bs)[i] = bs[i]
  BY <1>1, Below DEF Pop
<1>3. Pop(bs) = <<>> <=> Len(bs) - 1 = 0
  BY <1>2, EmptySeq
<1> QED
  BY <1>1, <1>2, <1>3

\* A statement keeps the nesting.
LEMMA NestedGoing ==
    ASSUME NEW bs \in Seq(Frames), bs # <<>>, NEW sc, Nested(bs, sc),
           NEW l \in {"return", "non_return"}
    PROVE  Nested([bs EXCEPT ![Len(bs)].lst = l], sc)
<1> DEFINE go == [bs EXCEPT ![Len(bs)].lst = l]
<1>1. /\ go # <<>> /\ Len(go) = Len(bs) /\ Len(bs) \in Nat /\ Len(bs) >= 1
      /\ \A i \in 1 .. Len(bs) :
            /\ go[i].kind = bs[i].kind /\ go[i].slot = bs[i].slot
            /\ go[i].iftrue = bs[i].iftrue
            /\ i # Len(bs) => go[i].lst = bs[i].lst
  BY Going, EmptySeq DEF SameBlock
<1> HIDE DEF go
<1>2. \A i \in 2 .. Len(bs) : i - 1 \in 1 .. Len(bs) /\ i \in 1 .. Len(bs)
  BY <1>1
<1> QED
  <2>1. Nested(go, sc)
    BY <1>1, <1>2 DEF Nested
  <2> QED
    BY <2>1 DEF go

\* Opening a block in a stack that goes on: a function in the next slot, or
\* another block in the same one.
LEMMA NestedOpening ==
    ASSUME NEW bs \in Seq(Frames), NEW sc \in Nat, Nested(bs, sc), NEW f \in Frames,
           bs # <<>> => Top(bs).lst = "non_return",
           f.kind = "else" <=> f.iftrue # NoRef,
           \/ f.kind = "func" /\ f.slot = sc + 1
           \/ f.kind # "func" /\ f.slot = sc /\ bs # <<>>
    PROVE  Nested(Append(bs, f), f.slot)
<1> DEFINE up == Append(bs, f)
<1>1. /\ up # <<>> /\ Len(up) = Len(bs) + 1 /\ Len(bs) \in Nat
      /\ up[Len(bs) + 1] = f
      /\ \A i \in 1 .. Len(bs) : up[i] = bs[i]
      /\ bs = <<>> <=> Len(bs) = 0
  BY Opening, EmptySeq, LenProperties
<1> HIDE DEF up
<1>2. up[1].kind = "func" /\ up[1].slot = 1 /\ f.slot = up[Len(up)].slot
  BY <1>1 DEF Nested
<1>3. f.slot # 0
  BY DEF Frames
<1>4. ASSUME NEW i \in 2 .. Len(up)
      PROVE  up[i].slot = IF up[i].kind = "func" THEN up[i - 1].slot + 1 ELSE up[i - 1].slot
  <2>1. CASE i = Len(bs) + 1
    <3>1. bs # <<>> /\ up[i] = f /\ up[i - 1] = bs[Len(bs)]
      BY <1>1, <2>1
    <3> QED
      BY <3>1 DEF Nested
  <2>2. CASE i # Len(bs) + 1
    <3>1. i \in 2 .. Len(bs) /\ i \in 1 .. Len(bs) /\ i - 1 \in 1 .. Len(bs)
      BY <1>1, <2>2
    <3>2. up[i] = bs[i] /\ up[i - 1] = bs[i - 1]
      BY <1>1, <3>1
    <3> QED
      BY <3>1, <3>2 DEF Nested
  <2> QED
    BY <2>1, <2>2
<1>5. \A i \in 1 .. Len(up) : up[i].kind = "else" <=> up[i].iftrue # NoRef
  BY <1>1 DEF Nested
<1>6. \A i \in 1 .. Len(up) - 1 : up[i].lst = "non_return"
  BY <1>1 DEF Nested, Top
<1> QED
  <2>1. Nested(up, f.slot)
    BY <1>1, <1>2, <1>3, <1>4, <1>5, <1>6 DEF Nested
  <2> QED
    BY <2>1 DEF up

\* Leaving a block: the function around becomes current with its slot, and
\* the block around goes on.
LEMMA NestedLeaving ==
    ASSUME NEW bs \in Seq(Frames), bs # <<>>, NEW sc, Nested(bs, sc)
    PROVE  /\ Nested(Pop(bs), IF Top(bs).kind = "func" THEN sc - 1 ELSE sc)
           /\ Pop(bs) # <<>> => Top(Pop(bs)).lst = "non_return"
           /\ Top(bs).kind # "func" => Pop(bs) # <<>>
           /\ sc = Top(bs).slot
<1> DEFINE lo == Pop(bs)
           n == Len(bs) - 1
           out == IF Top(bs).kind = "func" THEN sc - 1 ELSE sc
<1>1. /\ Len(lo) = n /\ n \in Nat /\ Len(bs) = n + 1
      /\ lo = <<>> <=> n = 0
      /\ \A i \in 1 .. n : lo[i] = bs[i]
  BY Leaving, EmptySeq
<1>2. Top(bs) = bs[n + 1] /\ Top(bs) \in Frames
  BY <1>1, LenProperties DEF Top
<1>3. sc = Top(bs).slot /\ sc \in Nat \ {0}
  BY <1>1, <1>2, ControlAssumption DEF Nested, Frames
<1>4. CASE n = 0
  <2>1. Len(bs) = 1 /\ Top(bs) = bs[1] /\ lo = <<>> /\ Len(lo) = 0
    <3>1. Len(bs) = 1 /\ lo = <<>> /\ Len(lo) = 0
      <4> HIDE DEF lo, n
      <4> QED
        BY <1>1, <1>4
    <3> QED
      BY <3>1 DEF Top
  <2>2. Top(bs).kind = "func" /\ sc = 1
    BY <1>3, <2>1 DEF Nested
  <2>3. out = 0
    BY <2>2
  <2>4. Nested(lo, 0)
    <3> HIDE DEF lo
    <3> QED
      BY <2>1 DEF Nested
  <2> QED
    BY <1>3, <2>1, <2>2, <2>3, <2>4
<1>5. CASE n > 0
  <2>1. n + 1 \in 2 .. Len(bs) /\ n + 1 - 1 = n /\ n \in 1 .. Len(bs) /\ bs[n] \in Frames
    BY <1>1, <1>5, LenProperties
  <2>2. Top(bs).slot = IF Top(bs).kind = "func" THEN bs[n].slot + 1 ELSE bs[n].slot
    BY <1>2, <2>1 DEF Nested
  <2>3. bs[n].slot \in Nat \ {0}
    BY <2>1, ControlAssumption DEF Frames
  <2>4. out = lo[n].slot /\ out # 0
    <3>1. lo[n] = bs[n]
      BY <1>1, <2>1
    <3> HIDE DEF lo, n
    <3> QED
      BY <1>3, <2>2, <2>3, <3>1
  <2>5. Nested(lo, out)
    <3> HIDE DEF lo, out, n
    <3> QED
      BY <1>1, <1>5, <2>4 DEF Nested
  <2>6. Top(lo).lst = "non_return"
    BY <1>1, <1>5 DEF Nested, Top
  <2> QED
    BY <1>1, <1>3, <1>5, <2>5, <2>6
<1> QED
  BY <1>1, <1>4, <1>5

----------------------------------------------------------------------------
(* The first layer: the shape of the state *)

\* A block is open in the slot of a function.
LEMMA InSlot ==
    ASSUME Shape, blocks # <<>>
    PROVE  scope \in 1 .. MaxFuncs /\ Top(blocks) \in Frames /\ Top(blocks).slot = scope
<1>1. Len(blocks) \in 1 .. Len(blocks) /\ blocks[Len(blocks)] \in Frames
  BY EmptySeq, LenProperties DEF Shape, TypeOK
<1>2. scope \in 0 .. MaxFuncs /\ scope # 0
  BY DEF Shape, TypeOK, Nested
<1> QED
  BY <1>1, <1>2, ControlAssumption DEF Shape, Nested, Top

\* A slot in which something is pending.
LEMMA OnePending ==
    ASSUME NEW q \in Seq(Refs), Len(q) <= 1, q # <<>>
    PROVE  Len(q) = 1 /\ q[1] \in Refs /\ Top(q) = q[1] /\ DOMAIN q = {1}
<1>1. Len(q) \in Nat \ {0}
  BY EmptySeq
<1>2. Len(q) = 1
  <2>1. \A n \in Nat \ {0} : n <= 1 => n = 1
    OBVIOUS
  <2> QED
    BY <1>1, <2>1, Zenon
<1>3. DOMAIN q = 1 .. 1
  BY <1>2, LenProperties
<1> QED
  BY <1>2, <1>3, LenProperties DEF Top

\* What parse_block does at the end of a block empties the slot.
LEMMA Joining ==
    ASSUME Shape, blocks # <<>>
    PROVE  /\ PendingAfterJoin \in [1 .. MaxFuncs -> Seq(Refs)]
           /\ PendingAfterJoin[scope] = <<>>
           /\ \A s \in 1 .. MaxFuncs : s # scope => PendingAfterJoin[s] = pending[s]
           /\ EndsAfterJoin \in [Refs -> SUBSET Paths]
           /\ Joined \in SUBSET Paths
           /\ control \subseteq Joined
<1>1. scope \in 1 .. MaxFuncs /\ pending[scope] \in Seq(Refs) /\ Len(pending[scope]) <= 1
  BY InSlot DEF Shape, TypeOK, PendingAtMostOne
<1>2. CASE pending[scope] = <<>>
  BY <1>1, <1>2 DEF PendingAfterJoin, EndsAfterJoin, Joined, Shape, TypeOK
<1>3. CASE pending[scope] # <<>>
  <2>1. Len(pending[scope]) = 1
    BY <1>1, <1>3, OnePending
  <2>2. Top(pending[scope]) \in Refs
    BY <1>1, <2>1, ElementOfSeq DEF Top
  <2>3. Pop(pending[scope]) = <<>>
    BY <2>1, SubSeqEmpty DEF Pop
  <2>4. <<>> \in Seq(Refs)
    BY EmptySeq
  <2>5. PendingAfterJoin = [pending EXCEPT ![scope] = <<>>]
    BY <1>3, <2>3 DEF PendingAfterJoin
  <2>6. EndsAfterJoin = [ends EXCEPT ![Top(pending[scope])] = {}]
    BY <1>3 DEF EndsAfterJoin
  <2>7. Joined = control \cup ends[Top(pending[scope])]
    BY <1>3 DEF Joined
  <2> QED
    BY <1>1, <2>2, <2>4, <2>5, <2>6, <2>7 DEF Shape, TypeOK
<1> QED
  BY <1>2, <1>3

\* The branch that returns is pending in a slot that the end of its block has
\* emptied.
LEMMA Waiting ==
    ASSUME NEW p \in [1 .. MaxFuncs -> Seq(Refs)], NEW s \in 1 .. MaxFuncs, p[s] = <<>>,
           NEW r \in Refs
    PROVE  /\ [p EXCEPT ![s] = Append(@, r)] \in [1 .. MaxFuncs -> Seq(Refs)]
           /\ [p EXCEPT ![s] = Append(@, r)][s] = <<r>>
           /\ Len(<<r>>) = 1 /\ <<r>>[1] = r
           /\ \A t \in 1 .. MaxFuncs : t # s => [p EXCEPT ![s] = Append(@, r)][t] = p[t]
<1>1. Append(<<>>, r) = <<r>> /\ <<r>> \in Seq(Refs) /\ Len(<<r>>) = 1 /\ <<r>>[1] = r
  OBVIOUS
<1> QED
  BY <1>1

\* What the conjuncts of the shape say of the slots.
Slots(p, sc) ==
    /\ \A s \in 1 .. MaxFuncs : Len(p[s]) <= 1
    /\ \A s \in 1 .. MaxFuncs : s > sc => p[s] = <<>>

\* At the end of a block the slots are as before, or emptied for the function
\* around.
LEMMA SlotsJoined ==
    ASSUME Shape, blocks # <<>>
    PROVE  /\ Slots(pending, scope)
           /\ Slots(PendingAfterJoin, scope)
           /\ Slots(PendingAfterJoin, scope - 1)
<1>1. scope \in 1 .. MaxFuncs
  BY InSlot
<1>2. Len(<<>>) = 0
  OBVIOUS
<1> QED
  BY <1>1, <1>2, Joining DEF Slots, Shape, PendingAtMostOne, IdleSlotsEmpty

\* A block of a function is opened on a branch or in a loop.
LEMMA FrameType ==
    ASSUME NEW kind \in {"func", "then", "else", "loop"}, NEW slot \in 1 .. MaxFuncs,
           NEW held \in SUBSET Paths, NEW iftrue \in Refs \cup {NoRef}, NEW watched \in BOOLEAN
    PROVE  /\ Frame(kind, slot, held, iftrue, watched) \in Frames
           /\ Frame(kind, slot, held, iftrue, watched).kind = kind
           /\ Frame(kind, slot, held, iftrue, watched).slot = slot
           /\ Frame(kind, slot, held, iftrue, watched).held = held
           /\ Frame(kind, slot, held, iftrue, watched).iftrue = iftrue
           /\ Frame(kind, slot, held, iftrue, watched).watched = watched
           /\ Frame(kind, slot, held, iftrue, watched).lst = "non_return"
  BY DEF Frame, Frames

\* A loop's block, and a function's, take the paths that arrive.
LEMMA LoopFrame ==
    ASSUME Shape, blocks # <<>>
    PROVE  /\ Frame("loop", scope, control, NoRef, FALSE) \in Frames
           /\ Frame("loop", scope, control, NoRef, FALSE).kind = "loop"
           /\ Frame("loop", scope, control, NoRef, FALSE).slot = scope
           /\ Frame("loop", scope, control, NoRef, FALSE).held = control
           /\ Frame("loop", scope, control, NoRef, FALSE).iftrue = NoRef
           /\ ~ Frame("loop", scope, control, NoRef, FALSE).watched
<1>1. /\ control \in SUBSET Paths /\ scope \in 1 .. MaxFuncs
  BY InSlot DEF Shape, TypeOK
<1> QED
  BY <1>1 DEF Frame, Frames

\* The block of a function is in the next slot.
LEMMA FunctionFrame ==
    ASSUME Shape, scope < MaxFuncs
    PROVE  /\ scope + 1 \in 1 .. MaxFuncs
           /\ Frame("func", scope + 1, control, NoRef, FALSE) \in Frames
           /\ Frame("func", scope + 1, control, NoRef, FALSE).kind = "func"
           /\ Frame("func", scope + 1, control, NoRef, FALSE).slot = scope + 1
           /\ Frame("func", scope + 1, control, NoRef, FALSE).held = control
           /\ Frame("func", scope + 1, control, NoRef, FALSE).iftrue = NoRef
           /\ ~ Frame("func", scope + 1, control, NoRef, FALSE).watched
<1>1. scope + 1 \in 1 .. MaxFuncs
  BY ControlAssumption DEF Shape, TypeOK
<1>2. PICK n \in 1 .. MaxFuncs : n = scope + 1
  BY <1>1
<1>3. control \in SUBSET Paths
  BY DEF Shape, TypeOK
<1> DEFINE g == Frame("func", n, control, NoRef, FALSE)
<1>4. /\ g \in Frames /\ g.kind = "func" /\ g.slot = n /\ g.held = control
      /\ g.iftrue = NoRef /\ ~ g.watched
  BY <1>3 DEF Frame, Frames
<1> QED
  BY <1>1, <1>2, <1>4

\* A branch that some path arrives at is taken by some path.
LEMMA TakeReached ==
    \A paths \in SUBSET Paths, watched \in BOOLEAN : paths # {} => Take(paths, watched) # {}
  BY DEF Take

\* Taking a branch marks paths.
LEMMA TakeType ==
    ASSUME NEW paths \in SUBSET Paths, NEW watched \in BOOLEAN
    PROVE  Take(paths, watched) \in SUBSET Paths
  BY DEF Take, Paths

\* A block other than a function's, or a function's in the next slot, is
\* opened behind a statement that is done.
LEMMA OpeningShape ==
    ASSUME Shape, blocks # <<>>, NEW f \in Frames,
           f.kind = "else" <=> f.iftrue # NoRef,
           \/ f.kind = "func" /\ f.slot = scope + 1
           \/ f.kind # "func" /\ f.slot = scope
    PROVE  /\ Append(StatementDone(blocks), f) \in Seq(Frames)
           /\ Nested(Append(StatementDone(blocks), f), f.slot)
<1> DEFINE go == StatementDone(blocks)
<1>1. blocks \in Seq(Frames) /\ Len(blocks) \in 1 .. Len(blocks) /\ Nested(blocks, scope)
  BY EmptySeq DEF Shape, TypeOK
<1>2. /\ go \in Seq(Frames) /\ go # <<>> /\ Len(go) = Len(blocks)
      /\ go[Len(blocks)].lst = "non_return"
  BY <1>1, Going DEF StatementDone
<1>3. Nested(go, scope)
  BY <1>1, NestedGoing DEF StatementDone
<1>4. Top(go).lst = "non_return" /\ scope \in Nat
  BY <1>2, InSlot DEF Top
<1> HIDE DEF go
<1>5. Append(go, f) \in Seq(Frames) /\ Nested(Append(go, f), f.slot)
  BY <1>2, <1>3, <1>4, Opening, NestedOpening
<1> QED
  BY <1>5 DEF go

\* What is left when a block is: a stack with the slot of the function around.
LEMMA LeavingShape ==
    ASSUME Shape, blocks # <<>>
    PROVE  /\ Pop(blocks) \in Seq(Frames)
           /\ Top(blocks).kind # "func" =>
                 /\ Nested(Pop(blocks), scope)
                 /\ Pop(blocks) # <<>>
                 /\ Top(Pop(blocks)).lst = "non_return"
           /\ Top(blocks).kind = "func" => Nested(Pop(blocks), scope - 1)
  BY Leaving, NestedLeaving DEF Shape, TypeOK

\* The shape of the empty stack.
THEOREM ShapeInit == Init => Shape
<1> SUFFICES ASSUME Init PROVE Shape
  OBVIOUS
<1>1. TypeOK
  <2>1. <<>> \in Seq(Frames) /\ <<>> \in Seq(Refs)
    BY EmptySeq
  <2>2. ends \in [Refs -> SUBSET Paths] /\ pending \in [1 .. MaxFuncs -> Seq(Refs)]
    BY <2>1 DEF Init
  <2>3. blocks \in Seq(Frames) /\ control \in SUBSET Paths
    BY <2>1 DEF Init
  <2>4. scope \in 0 .. MaxFuncs
    BY ControlAssumption DEF Init
  <2> QED
    BY <2>2, <2>3, <2>4 DEF Init, TypeOK, Chains
<1>2. Nested(blocks, scope) /\ ChainInBlock
  BY DEF Init, Nested, ChainInBlock
<1>3. PendingAtMostOne /\ IdleSlotsEmpty
  BY DEF Init, PendingAtMostOne, IdleSlotsEmpty
<1> QED
  BY <1>1, <1>2, <1>3 DEF Shape

\* The shape of the next state, from what an action does to each part.
LEMMA ShapeNext ==
    ASSUME blocks' \in Seq(Frames), Nested(blocks', scope'), Slots(pending', scope'),
           control' \in SUBSET Paths, ends' \in [Refs -> SUBSET Paths],
           pending' \in [1 .. MaxFuncs -> Seq(Refs)], scope' \in 0 .. MaxFuncs,
           chain' \in Chains,
           chain' # "none" => blocks' # <<>> /\ Top(blocks').lst = "non_return",
           watching' \in BOOLEAN, trapped' \in BOOLEAN,
           deadCode' \in BOOLEAN, fellThrough' \in BOOLEAN,
           ranAfterReturn' \in BOOLEAN, ranSecondBranch' \in BOOLEAN
    PROVE  Shape'
  BY DEF Shape, TypeOK, Slots, ChainInBlock, PendingAtMostOne, IdleSlotsEmpty, Top

\* Opening the branch of an if or elif.
LEMMA OpenBranchShape ==
    ASSUME Shape, blocks # <<>>, NEW watched \in BOOLEAN, OpenBranch(watched),
           watching' \in BOOLEAN, deadCode' \in BOOLEAN, fellThrough' \in BOOLEAN
    PROVE  Shape'
<1> DEFINE f == Frame("then", scope, control, NoRef, watched)
<1>1. f \in Frames /\ f.kind = "then" /\ f.slot = scope /\ f.iftrue = NoRef
  BY InSlot, FrameType DEF Shape, TypeOK
<1> HIDE DEF f
<1>2. blocks' \in Seq(Frames) /\ Nested(blocks', scope)
  BY <1>1, OpeningShape DEF OpenBranch, f
<1>3. control' \in SUBSET Paths
  BY TakeType DEF OpenBranch, Shape, TypeOK
<1>4. ranAfterReturn' \in BOOLEAN /\ ranSecondBranch' \in BOOLEAN
  BY DEF OpenBranch, Shape, TypeOK
<1> QED
  BY <1>2, <1>3, <1>4, SlotsJoined, ShapeNext DEF OpenBranch, Shape, TypeOK, Chains

\* A statement in a block, other than a def, keeps the slots.
LEMMA EmitTypes ==
    ASSUME Shape, Emit
    PROVE  blocks # <<>> /\ deadCode' \in BOOLEAN /\ fellThrough' \in BOOLEAN
  BY DEF Emit, Shape, TypeOK

\* Every action keeps the shape.
THEOREM ShapeStep == Shape /\ [Next]_vars => Shape'
<1> SUFFICES ASSUME Shape, [Next]_vars PROVE Shape'
  OBVIOUS
<1>0. TypeOK /\ Nested(blocks, scope) /\ ChainInBlock /\ PendingAtMostOne /\ IdleSlotsEmpty
  BY DEF Shape
<1> USE <1>0
<1>1. CASE Simple
  <2>1. /\ blocks' \in Seq(Frames) /\ Nested(blocks', scope)
    BY <1>1, EmitTypes, Going, NestedGoing DEF Simple, TypeOK, StatementDone
  <2>2. ranAfterReturn' \in BOOLEAN
    BY <1>1 DEF Simple, TypeOK
  <2> QED
    BY <1>1, <2>1, <2>2, EmitTypes, SlotsJoined, ShapeNext DEF Simple, TypeOK, Chains
<1>2. CASE Return
  <2>1. /\ blocks' \in Seq(Frames) /\ Nested(blocks', scope)
    BY <1>2, EmitTypes, Going, NestedGoing DEF Return, TypeOK
  <2>2. ranAfterReturn' \in BOOLEAN
    BY <1>2 DEF Return, TypeOK
  <2>3. control' \in SUBSET Paths
    BY <1>2 DEF Return, TypeOK, Paths
  <2> QED
    BY <1>2, <2>1, <2>2, <2>3, EmitTypes, SlotsJoined, ShapeNext DEF Return, TypeOK, Chains
<1>3. ASSUME NEW watched \in BOOLEAN, OpenIf(watched) PROVE Shape'
  <2>1. watching' \in BOOLEAN
    BY <1>3 DEF OpenIf, TypeOK
  <2> QED
    BY <1>3, <2>1, EmitTypes, OpenBranchShape DEF OpenIf
<1>4. CASE OpenElif
  <2>1. blocks # <<>>
    BY <1>4 DEF OpenElif, ChainInBlock
  <2> QED
    BY <1>4, <2>1, OpenBranchShape DEF OpenElif, TypeOK
<1>5. CASE OpenFor
  <2> DEFINE f == Frame("loop", scope, control, NoRef, FALSE)
  <2>1. f \in Frames /\ f.kind = "loop" /\ f.slot = scope /\ f.iftrue = NoRef
    BY <1>5, EmitTypes, LoopFrame DEF OpenFor
  <2> HIDE DEF f
  <2>2. blocks' \in Seq(Frames) /\ Nested(blocks', scope)
    BY <1>5, <2>1, EmitTypes, OpeningShape DEF OpenFor, f
  <2>3. ranAfterReturn' \in BOOLEAN
    BY <1>5 DEF OpenFor, TypeOK
  <2> QED
    BY <1>5, <2>2, <2>3, EmitTypes, SlotsJoined, ShapeNext DEF OpenFor, TypeOK, Chains
<1>6. CASE OpenDef
  <2> DEFINE f == Frame("func", scope + 1, control, NoRef, FALSE)
  <2>1. scope + 1 \in 1 .. MaxFuncs /\ scope \in Nat
    BY <1>6, ControlAssumption DEF OpenDef, TypeOK
  <2>2. f \in Frames /\ f.kind = "func" /\ f.slot = scope + 1 /\ f.iftrue = NoRef
    BY <1>6, FunctionFrame DEF OpenDef
  <2> HIDE DEF f
  <2>3. blocks' \in Seq(Frames) /\ Nested(blocks', scope + 1)
    <3>1. CASE blocks = <<>>
      BY <1>6, <2>1, <2>2, <3>1, Opening, NestedOpening DEF OpenDef, TypeOK, f
    <3>2. CASE blocks # <<>>
      BY <1>6, <2>2, <3>2, OpeningShape DEF OpenDef, f
    <3> QED
      BY <3>1, <3>2
  <2>4. control' \in SUBSET Paths
    BY <1>6 DEF OpenDef, Paths
  <2>5. Slots(pending', scope + 1)
    BY <1>6, <2>1 DEF OpenDef, Slots, PendingAtMostOne, IdleSlotsEmpty
  <2>6. deadCode' \in BOOLEAN /\ fellThrough' \in BOOLEAN
    BY <1>6, EmitTypes DEF OpenDef, TypeOK
  <2> QED
    <3>1. /\ scope' = scope + 1 /\ chain' = "none" /\ chain' \in Chains
          /\ ends' = ends /\ pending' = pending /\ scope' \in 0 .. MaxFuncs
      BY <1>6, <2>1 DEF OpenDef, Chains
    <3>2. /\ watching' \in BOOLEAN /\ trapped' \in BOOLEAN
          /\ ranAfterReturn' \in BOOLEAN /\ ranSecondBranch' \in BOOLEAN
      BY <1>6 DEF OpenDef, TypeOK
    <3> QED
      BY <2>3, <2>4, <2>5, <2>6, <3>1, <3>2, ShapeNext DEF TypeOK
<1>7. CASE CloseReturning
  <2>1. /\ blocks # <<>> /\ Top(blocks).kind = "then" /\ Top(blocks).held \in SUBSET Paths
        /\ scope \in 1 .. MaxFuncs
    BY <1>7, InSlot DEF CloseReturning, Closing, Frames
  <2>2. PICK r \in Refs :
           /\ ends' = [EndsAfterJoin EXCEPT ![r] = Joined]
           /\ pending' = [PendingAfterJoin EXCEPT ![scope] = Append(@, r)]
    BY <1>7 DEF CloseReturning
  <2>3. ends' \in [Refs -> SUBSET Paths]
    BY <2>1, <2>2, Joining
  <2>4. /\ pending' \in [1 .. MaxFuncs -> Seq(Refs)]
        /\ Len(pending'[scope]) = 1
        /\ \A s \in 1 .. MaxFuncs : s # scope => pending'[s] = PendingAfterJoin[s]
    BY <2>1, <2>2, Joining, Waiting
  <2>5. Slots(pending', scope)
    <3>1. Slots(PendingAfterJoin, scope)
      BY <2>1, SlotsJoined
    <3>2. ASSUME NEW s \in 1 .. MaxFuncs
          PROVE  Len(pending'[s]) <= 1 /\ (s > scope => pending'[s] = <<>>)
      <4>1. CASE s = scope
        <5>1. Len(pending'[s]) <= 1
          <6>1. 1 <= 1
            OBVIOUS
          <6> QED
            BY <2>4, <4>1, <6>1, Zenon
        <5>2. ~(s > scope)
          BY <2>1, <4>1
        <5> QED
          BY <5>1, <5>2
      <4>2. CASE s # scope
        BY <2>4, <3>1, <4>2 DEF Slots
      <4> QED
        BY <4>1, <4>2
    <3> QED
      BY <3>2 DEF Slots
  <2>6. chain' \in Chains
    BY <1>7 DEF CloseReturning, Chains
  <2> QED
    BY <1>7, <2>1, <2>3, <2>4, <2>5, <2>6, LeavingShape, ShapeNext
    DEF CloseReturning, Otherwise, TypeOK
<1>8. CASE CloseBranch
  <2>1. /\ blocks # <<>> /\ Top(blocks).kind = "then" /\ Top(blocks).held \in SUBSET Paths
    BY <1>8, InSlot DEF CloseBranch, Closing, Frames
  <2>2. control' \in SUBSET Paths
    BY <1>8, <2>1, Joining DEF CloseBranch
  <2>3. chain' \in Chains
    BY <1>8 DEF CloseBranch, Chains
  <2> QED
    BY <1>8, <2>1, <2>2, <2>3, Joining, SlotsJoined, LeavingShape, ShapeNext
    DEF CloseBranch, TypeOK
<1>9. CASE OpenElse
  <2>1. /\ blocks # <<>> /\ Top(blocks).kind = "then" /\ Top(blocks).held \in SUBSET Paths
        /\ Top(blocks).watched \in BOOLEAN /\ scope \in 1 .. MaxFuncs
    BY <1>9, InSlot DEF OpenElse, Closing, Frames
  <2>2. PICK r \in Refs :
           /\ ends' = [EndsAfterJoin EXCEPT ![r] = Joined]
           /\ blocks' = Append(Pop(blocks), Frame("else", scope, {}, r, Top(blocks).watched))
    BY <1>9 DEF OpenElse
  <2> DEFINE f == Frame("else", scope, {}, r, Top(blocks).watched)
  <2>3. f \in Frames /\ f.kind = "else" /\ f.slot = scope /\ f.iftrue = r /\ r # NoRef
    BY <2>1, FrameType, ControlAssumption DEF NoRef
  <2>4. blocks' \in Seq(Frames) /\ Nested(blocks', scope)
    <3>1. Pop(blocks) \in Seq(Frames) /\ Pop(blocks) # <<>>
          /\ Nested(Pop(blocks), scope) /\ Top(Pop(blocks)).lst = "non_return"
      BY <2>1, LeavingShape
    <3> HIDE DEF f
    <3> QED
      BY <2>1, <2>2, <2>3, <3>1, Opening, NestedOpening DEF f
  <2>5. ends' \in [Refs -> SUBSET Paths]
    BY <2>1, <2>2, Joining
  <2>6. control' \in SUBSET Paths
    BY <1>9, <2>1, TakeType DEF OpenElse
  <2>7. ranSecondBranch' \in BOOLEAN
    BY <1>9 DEF OpenElse, TypeOK
  <2> QED
    BY <1>9, <2>1, <2>4, <2>5, <2>6, <2>7, Joining, SlotsJoined, ShapeNext
    DEF OpenElse, TypeOK, Chains
<1>10. CASE CloseElse
  <2>1. /\ blocks # <<>> /\ Top(blocks).kind = "else" /\ Top(blocks).iftrue \in Refs
    <3>1. blocks # <<>> /\ Top(blocks).kind = "else"
      BY <1>10 DEF CloseElse, Closing
    <3>2. Len(blocks) \in 1 .. Len(blocks)
      BY <3>1, EmptySeq DEF TypeOK
    <3>3. Top(blocks).iftrue # NoRef
      BY <3>1, <3>2 DEF Nested, Top
    <3> QED
      BY <3>1, <3>3, InSlot DEF Frames
  <2>2. ends' \in [Refs -> SUBSET Paths] /\ control' \in SUBSET Paths
    BY <1>10, <2>1, Joining DEF CloseElse, TypeOK
  <2> QED
    BY <1>10, <2>1, <2>2, Joining, SlotsJoined, LeavingShape, ShapeNext
    DEF CloseElse, TypeOK, Chains
<1>11. CASE CloseFor
  <2>1. /\ blocks # <<>> /\ Top(blocks).kind = "loop" /\ Top(blocks).held \in SUBSET Paths
    BY <1>11, InSlot DEF CloseFor, Closing, Frames
  <2>2. control' \in SUBSET Paths /\ ranAfterReturn' \in BOOLEAN
    BY <1>11, <2>1, Joining DEF CloseFor, TypeOK
  <2> QED
    BY <1>11, <2>1, <2>2, Joining, SlotsJoined, LeavingShape, ShapeNext
    DEF CloseFor, TypeOK, Chains
<1>12. CASE CloseUnsupported
  BY <1>12 DEF Shape, CloseUnsupported, TypeOK, Nested, ChainInBlock, PendingAtMostOne, IdleSlotsEmpty
<1>13. CASE CloseDef
  <2>1. /\ blocks # <<>> /\ Top(blocks).kind = "func" /\ Top(blocks).held \in SUBSET Paths
        /\ scope \in 1 .. MaxFuncs
    BY <1>13, InSlot DEF CloseDef, Closing, Frames
  <2>2. scope - 1 \in 0 .. MaxFuncs
    BY <2>1, ControlAssumption
  <2> QED
    BY <1>13, <2>1, <2>2, Joining, SlotsJoined, LeavingShape, ShapeNext
    DEF CloseDef, Outer, TypeOK, Chains
<1>14. CASE UNCHANGED vars
  BY <1>14 DEF Shape, vars, TypeOK, Nested, ChainInBlock, PendingAtMostOne, IdleSlotsEmpty
<1> QED
  BY <1>1, <1>2, <1>3, <1>4, <1>5, <1>6, <1>7, <1>8, <1>9, <1>10, <1>11, <1>12, <1>13, <1>14
  DEF Next

\* The state keeps its type, whatever the bounds.
THEOREM ControlTypeCorrect == Spec => []TypeOK
<1>1. Shape => TypeOK
  BY DEF Shape
<1> QED
  BY <1>1, ShapeInit, ShapeStep, PTL DEF Spec

\* At most one branch is pending in a scope: the 32 slots of pending_conds
\* suffice for any number of returns, branches and functions.
THEOREM ControlPendingAtMostOne == Spec => []PendingAtMostOne
<1>1. Shape => PendingAtMostOne
  BY DEF Shape
<1> QED
  BY <1>1, ShapeInit, ShapeStep, PTL DEF Spec

\* A slot that no open function has is empty, so that enter_scope need not
\* reset num_pending_conds.
THEOREM ControlIdleSlotsEmpty == Spec => []IdleSlotsEmpty
<1>1. Shape => IdleSlotsEmpty
  BY DEF Shape
<1> QED
  BY <1>1, ShapeInit, ShapeStep, PTL DEF Spec

----------------------------------------------------------------------------
(* The second layer: who owns an END *)

\* An END is merged that waited in a slot.
LEMMA SoleMerged ==
    ASSUME NEW e \in [Refs -> SUBSET Paths], NEW bs \in Seq(Frames), NEW p, NEW q,
           Sole(e, p, bs), NEW s0 \in 1 .. MaxFuncs, Waits(p, s0) \in Refs,
           Waits(q, s0) = NoRef,
           \A s \in 1 .. MaxFuncs : s # s0 => Waits(q, s) = Waits(p, s)
    PROVE  Sole([e EXCEPT ![Waits(p, s0)] = {}], q, bs)
<1> DEFINE r0 == Waits(p, s0)
<1>1. r0 \in Refs /\ r0 # NoRef
  BY ControlAssumption DEF NoRef
<1> HIDE DEF r0
<1>2. /\ \A s \in 1 .. MaxFuncs : Waits(q, s) # r0
      /\ \A i \in 1 .. Len(bs) : bs[i].iftrue # r0
  BY <1>1 DEF Sole, r0
<1>3. ASSUME NEW r \in Refs
      PROVE  [e EXCEPT ![r0] = {}][r] # {} <=> \/ \E s \in 1 .. MaxFuncs : Waits(q, s) = r
                                               \/ \E i \in 1 .. Len(bs) : bs[i].iftrue = r
  <2>1. CASE r = r0
    BY <1>2, <2>1
  <2>2. CASE r # r0
    <3>1. \A s \in 1 .. MaxFuncs : Waits(q, s) = r <=> Waits(p, s) = r
      BY <2>2, ControlAssumption DEF r0, NoRef
    <3> QED
      BY <2>2, <3>1 DEF Sole
  <2> QED
    BY <2>1, <2>2
<1>4. /\ \A s \in 1 .. MaxFuncs, i \in 1 .. Len(bs) :
            Waits(q, s) # NoRef => Waits(q, s) # bs[i].iftrue
      /\ \A s, t \in 1 .. MaxFuncs : s # t /\ Waits(q, s) # NoRef => Waits(q, s) # Waits(q, t)
  BY DEF Sole
<1> QED
  BY <1>3, <1>4 DEF Sole, r0

\* A new END waits in a slot that was empty.
LEMMA SoleWaiting ==
    ASSUME NEW e \in [Refs -> SUBSET Paths], NEW bs \in Seq(Frames), NEW p, NEW q,
           Sole(e, p, bs), NEW s0 \in 1 .. MaxFuncs, Waits(p, s0) = NoRef,
           NEW r0 \in Refs, e[r0] = {}, Waits(q, s0) = r0, NEW c \in SUBSET Paths, c # {},
           \A s \in 1 .. MaxFuncs : s # s0 => Waits(q, s) = Waits(p, s)
    PROVE  Sole([e EXCEPT ![r0] = c], q, bs)
<1>1. r0 # NoRef
  BY ControlAssumption DEF NoRef
<1>2. /\ \A s \in 1 .. MaxFuncs : Waits(p, s) # r0
      /\ \A i \in 1 .. Len(bs) : bs[i].iftrue # r0
  BY DEF Sole
<1>3. ASSUME NEW r \in Refs
      PROVE  [e EXCEPT ![r0] = c][r] # {} <=> \/ \E s \in 1 .. MaxFuncs : Waits(q, s) = r
                                              \/ \E i \in 1 .. Len(bs) : bs[i].iftrue = r
  <2>1. CASE r = r0
    BY <2>1
  <2>2. CASE r # r0
    <3>1. \A s \in 1 .. MaxFuncs : Waits(q, s) = r <=> Waits(p, s) = r
      BY <2>2, ControlAssumption DEF NoRef
    <3> QED
      BY <2>2, <3>1 DEF Sole
  <2> QED
    BY <2>1, <2>2
<1>4. /\ \A s \in 1 .. MaxFuncs, i \in 1 .. Len(bs) :
            Waits(q, s) # NoRef => Waits(q, s) # bs[i].iftrue
      /\ \A s, t \in 1 .. MaxFuncs : s # t /\ Waits(q, s) # NoRef => Waits(q, s) # Waits(q, t)
  BY <1>2 DEF Sole
<1> QED
  BY <1>3, <1>4 DEF Sole

\* A statement changes no owner.
LEMMA SoleGoing ==
    ASSUME NEW e, NEW p, NEW bs \in Seq(Frames), bs # <<>>, Sole(e, p, bs),
           NEW l \in {"return", "non_return"}
    PROVE  Sole(e, p, [bs EXCEPT ![Len(bs)].lst = l])
<1> DEFINE go == [bs EXCEPT ![Len(bs)].lst = l]
<1>1. Len(go) = Len(bs) /\ \A i \in 1 .. Len(bs) : go[i].iftrue = bs[i].iftrue
  BY Going DEF SameBlock
<1> HIDE DEF go
<1>2. Sole(e, p, go)
  BY <1>1 DEF Sole
<1> QED
  BY <1>2 DEF go

\* Opening a block that has no END of its own.
LEMMA SoleOpening ==
    ASSUME NEW e, NEW p, NEW bs \in Seq(Frames), Sole(e, p, bs),
           NEW f \in Frames, f.iftrue = NoRef
    PROVE  Sole(e, p, Append(bs, f))
<1> DEFINE up == Append(bs, f)
<1>1. /\ Len(up) = Len(bs) + 1 /\ Len(bs) \in Nat
      /\ up[Len(bs) + 1].iftrue = NoRef
      /\ \A i \in 1 .. Len(bs) : up[i] = bs[i]
  BY Opening, LenProperties
<1> HIDE DEF up
<1>2. \A i \in 1 .. Len(up) : \/ i \in 1 .. Len(bs) /\ up[i].iftrue = bs[i].iftrue
                              \/ i = Len(bs) + 1 /\ up[i].iftrue = NoRef
  BY <1>1
<1>3. \A i \in 1 .. Len(bs) : i \in 1 .. Len(up) /\ up[i].iftrue = bs[i].iftrue
  BY <1>1
<1>4. \A r \in Refs : r # NoRef
  BY ControlAssumption DEF NoRef
<1>5. \A r \in Refs : (\E i \in 1 .. Len(up) : up[i].iftrue = r)
                         <=> (\E i \in 1 .. Len(bs) : bs[i].iftrue = r)
  BY <1>2, <1>3, <1>4
<1>6. Sole(e, p, up)
  <2>1. \A r \in Refs : e[r] # {} <=> \/ \E s \in 1 .. MaxFuncs : Waits(p, s) = r
                                      \/ \E i \in 1 .. Len(up) : up[i].iftrue = r
    BY <1>5 DEF Sole
  <2>2. /\ \A s \in 1 .. MaxFuncs, i \in 1 .. Len(up) :
              Waits(p, s) # NoRef => Waits(p, s) # up[i].iftrue
        /\ \A i, j \in 1 .. Len(up) :
              i # j /\ up[i].iftrue # NoRef => up[i].iftrue # up[j].iftrue
    BY <1>2 DEF Sole
  <2> QED
    BY <2>1, <2>2 DEF Sole
<1> QED
  BY <1>6 DEF up

\* Opening an else, with the END of the first branch.
LEMMA SoleElse ==
    ASSUME NEW e \in [Refs -> SUBSET Paths], NEW p, NEW bs \in Seq(Frames), Sole(e, p, bs),
           NEW f \in Frames, f.iftrue \in Refs, e[f.iftrue] = {},
           NEW c \in SUBSET Paths, c # {}
    PROVE  Sole([e EXCEPT ![f.iftrue] = c], p, Append(bs, f))
<1> DEFINE up == Append(bs, f)
           r0 == f.iftrue
<1>1. /\ Len(up) = Len(bs) + 1 /\ Len(bs) \in Nat
      /\ up[Len(bs) + 1].iftrue = r0
      /\ \A i \in 1 .. Len(bs) : up[i] = bs[i]
  BY Opening, LenProperties
<1> HIDE DEF up
<1>2. \A i \in 1 .. Len(up) : \/ i \in 1 .. Len(bs) /\ up[i].iftrue = bs[i].iftrue
                              \/ i = Len(bs) + 1 /\ up[i].iftrue = r0
  BY <1>1
<1>3. \A i \in 1 .. Len(bs) : i \in 1 .. Len(up) /\ up[i].iftrue = bs[i].iftrue
  BY <1>1
<1>4. Len(bs) + 1 \in 1 .. Len(up) /\ up[Len(bs) + 1].iftrue = r0
  BY <1>1
<1>5. /\ r0 \in Refs /\ e[r0] = {}
      /\ \A s \in 1 .. MaxFuncs : Waits(p, s) # r0
      /\ \A i \in 1 .. Len(bs) : bs[i].iftrue # r0
  BY DEF Sole
<1> HIDE DEF r0
<1>6. \A r \in Refs : (\E i \in 1 .. Len(up) : up[i].iftrue = r)
                         <=> r = r0 \/ (\E i \in 1 .. Len(bs) : bs[i].iftrue = r)
  BY <1>2, <1>3, <1>4
<1>7. ASSUME NEW r \in Refs
      PROVE  [e EXCEPT ![r0] = c][r] # {} <=> \/ \E s \in 1 .. MaxFuncs : Waits(p, s) = r
                                              \/ \E i \in 1 .. Len(up) : up[i].iftrue = r
  BY <1>5, <1>6 DEF Sole
<1>8. /\ \A s \in 1 .. MaxFuncs, i \in 1 .. Len(up) :
            Waits(p, s) # NoRef => Waits(p, s) # up[i].iftrue
      /\ \A i, j \in 1 .. Len(up) :
            i # j /\ up[i].iftrue # NoRef => up[i].iftrue # up[j].iftrue
  BY <1>2, <1>5 DEF Sole
<1>9. Sole([e EXCEPT ![r0] = c], p, up)
  BY <1>7, <1>8 DEF Sole
<1> QED
  BY <1>9 DEF up, r0

\* Leaving a block that has no END of its own.
LEMMA SoleLeaving ==
    ASSUME NEW e, NEW p, NEW bs \in Seq(Frames), bs # <<>>, Sole(e, p, bs),
           Top(bs).iftrue = NoRef
    PROVE  Sole(e, p, Pop(bs))
<1> DEFINE lo == Pop(bs)
           n == Len(bs)
<1>1. /\ n \in Nat \ {0} /\ Len(lo) = n - 1 /\ bs[n].iftrue = NoRef
      /\ \A i \in 1 .. n - 1 : lo[i] = bs[i]
  BY Leaving, EmptySeq DEF Top
<1> HIDE DEF lo
<1>2. \A i \in 1 .. Len(lo) : i \in 1 .. n /\ i # n /\ lo[i].iftrue = bs[i].iftrue
  BY <1>1
<1>3. \A i \in 1 .. n : \/ i \in 1 .. Len(lo) /\ lo[i].iftrue = bs[i].iftrue
                        \/ bs[i].iftrue = NoRef
  BY <1>1
<1>4. \A r \in Refs : r # NoRef
  BY ControlAssumption DEF NoRef
<1>5. \A r \in Refs : (\E i \in 1 .. Len(lo) : lo[i].iftrue = r)
                         <=> (\E i \in 1 .. n : bs[i].iftrue = r)
  BY <1>2, <1>3, <1>4
<1>6. Sole(e, p, lo)
  <2>1. \A r \in Refs : e[r] # {} <=> \/ \E s \in 1 .. MaxFuncs : Waits(p, s) = r
                                      \/ \E i \in 1 .. Len(lo) : lo[i].iftrue = r
    BY <1>5 DEF Sole
  <2>2. /\ \A s \in 1 .. MaxFuncs, i \in 1 .. Len(lo) :
              Waits(p, s) # NoRef => Waits(p, s) # lo[i].iftrue
        /\ \A i, j \in 1 .. Len(lo) :
              i # j /\ lo[i].iftrue # NoRef => lo[i].iftrue # lo[j].iftrue
    BY <1>2 DEF Sole
  <2> QED
    BY <2>1, <2>2 DEF Sole
<1> QED
  BY <1>6 DEF lo

\* Leaving an else merges the END of the first branch.
LEMMA SoleLeavingElse ==
    ASSUME NEW e \in [Refs -> SUBSET Paths], NEW p, NEW bs \in Seq(Frames), bs # <<>>,
           Sole(e, p, bs), Top(bs).iftrue \in Refs
    PROVE  Sole([e EXCEPT ![Top(bs).iftrue] = {}], p, Pop(bs))
<1> DEFINE lo == Pop(bs)
           n == Len(bs)
           r0 == Top(bs).iftrue
<1>1. /\ n \in Nat \ {0} /\ Len(lo) = n - 1 /\ bs[n].iftrue = r0
      /\ \A i \in 1 .. n - 1 : lo[i] = bs[i]
  BY Leaving, EmptySeq DEF Top
<1>2. r0 \in Refs /\ r0 # NoRef
  BY ControlAssumption DEF NoRef
<1> HIDE DEF lo, r0
<1>3. \A i \in 1 .. Len(lo) : i \in 1 .. n /\ i # n /\ lo[i].iftrue = bs[i].iftrue
  BY <1>1
<1>4. \A i \in 1 .. n : \/ i \in 1 .. Len(lo) /\ lo[i].iftrue = bs[i].iftrue
                        \/ i = n
  BY <1>1
<1>5. /\ \A i \in 1 .. Len(lo) : lo[i].iftrue # r0
      /\ \A s \in 1 .. MaxFuncs : Waits(p, s) # r0
  BY <1>1, <1>2, <1>3 DEF Sole
<1>6. \A r \in Refs : r # r0 => ((\E i \in 1 .. Len(lo) : lo[i].iftrue = r)
                                   <=> (\E i \in 1 .. n : bs[i].iftrue = r))
  BY <1>1, <1>3, <1>4
<1>7. Sole([e EXCEPT ![r0] = {}], p, lo)
  <2>1. \A r \in Refs :
           [e EXCEPT ![r0] = {}][r] # {} <=> \/ \E s \in 1 .. MaxFuncs : Waits(p, s) = r
                                             \/ \E i \in 1 .. Len(lo) : lo[i].iftrue = r
    BY <1>5, <1>6 DEF Sole
  <2>2. /\ \A s \in 1 .. MaxFuncs, i \in 1 .. Len(lo) :
              Waits(p, s) # NoRef => Waits(p, s) # lo[i].iftrue
        /\ \A i, j \in 1 .. Len(lo) :
              i # j /\ lo[i].iftrue # NoRef => lo[i].iftrue # lo[j].iftrue
    BY <1>3 DEF Sole
  <2> QED
    BY <2>1, <2>2 DEF Sole
<1> QED
  BY <1>7 DEF lo, r0

\* What parse_block does at the end of a block leaves every END owned.
LEMMA SoleJoined ==
    ASSUME Owned, blocks # <<>>
    PROVE  /\ Sole(EndsAfterJoin, PendingAfterJoin, blocks)
           /\ Waits(PendingAfterJoin, scope) = NoRef
           /\ Joined # {}
<1>1. /\ Shape /\ scope \in 1 .. MaxFuncs /\ Sole(ends, pending, blocks)
      /\ pending[scope] \in Seq(Refs) /\ Len(pending[scope]) <= 1
      /\ ends \in [Refs -> SUBSET Paths] /\ blocks \in Seq(Frames)
  BY InSlot DEF Owned, Shape, TypeOK, PendingAtMostOne
<1>2. Waits(PendingAfterJoin, scope) = NoRef
  BY <1>1, Joining DEF Waits
<1>3. Joined # {}
  BY <1>1, Joining DEF Owned, Reached
<1>4. Sole(EndsAfterJoin, PendingAfterJoin, blocks)
  <2>1. CASE pending[scope] = <<>>
    <3>1. EndsAfterJoin = ends /\ PendingAfterJoin = pending
      BY <1>1, <2>1 DEF EndsAfterJoin, PendingAfterJoin, Shape, TypeOK
    <3> QED
      BY <1>1, <3>1
  <2>2. CASE pending[scope] # <<>>
    <3>1. Waits(pending, scope) = Top(pending[scope]) /\ Waits(pending, scope) \in Refs
      BY <1>1, <2>2, OnePending DEF Waits
    <3>2. EndsAfterJoin = [ends EXCEPT ![Waits(pending, scope)] = {}]
      BY <2>2, <3>1 DEF EndsAfterJoin
    <3>3. \A s \in 1 .. MaxFuncs : s # scope => Waits(PendingAfterJoin, s) = Waits(pending, s)
      BY <1>1, Joining DEF Waits
    <3> QED
      BY <1>1, <1>2, <3>1, <3>2, <3>3, SoleMerged
  <2> QED
    BY <2>1, <2>2
<1> QED
  BY <1>2, <1>3, <1>4

\* A statement keeps the paths that wait outside the blocks.
LEMMA HeldGoing ==
    ASSUME NEW bs \in Seq(Frames), bs # <<>>, HeldReached(bs),
           NEW l \in {"return", "non_return"}
    PROVE  HeldReached([bs EXCEPT ![Len(bs)].lst = l])
<1> DEFINE go == [bs EXCEPT ![Len(bs)].lst = l]
<1>1. /\ Len(go) = Len(bs)
      /\ \A i \in 1 .. Len(bs) : go[i].kind = bs[i].kind /\ go[i].held = bs[i].held
  BY Going DEF SameBlock
<1>2. \A i \in 2 .. Len(bs) : i \in 1 .. Len(bs)
  BY LenProperties
<1> HIDE DEF go
<1>3. HeldReached(go)
  BY <1>1, <1>2 DEF HeldReached
<1> QED
  BY <1>3 DEF go

\* So does a block that opens where a path arrives.
LEMMA HeldOpening ==
    ASSUME NEW bs \in Seq(Frames), HeldReached(bs), NEW f \in Frames,
           bs = <<>> \/ f.kind = "else" \/ f.held # {}
    PROVE  HeldReached(Append(bs, f))
<1> DEFINE up == Append(bs, f)
<1>1. /\ Len(up) = Len(bs) + 1 /\ Len(bs) \in Nat
      /\ up[Len(bs) + 1] = f
      /\ \A i \in 1 .. Len(bs) : up[i] = bs[i]
      /\ bs = <<>> => Len(bs) = 0
  BY Opening, LenProperties
<1> HIDE DEF up
<1>2. \A i \in 2 .. Len(up) : \/ i \in 2 .. Len(bs) /\ up[i] = bs[i]
                              \/ bs # <<>> /\ up[i] = f
  BY <1>1
<1>3. HeldReached(up)
  BY <1>2 DEF HeldReached
<1> QED
  BY <1>3 DEF up

\* A block that is left gives its waiting paths back.
LEMMA HeldLeaving ==
    ASSUME NEW bs \in Seq(Frames), bs # <<>>, HeldReached(bs)
    PROVE  /\ HeldReached(Pop(bs))
           /\ Pop(bs) # <<>> /\ Top(bs).kind # "else" => Top(bs).held # {}
<1>1. /\ Len(bs) \in Nat \ {0} /\ Len(Pop(bs)) = Len(bs) - 1
      /\ Pop(bs) = <<>> <=> Len(bs) = 1
      /\ \A i \in 1 .. Len(bs) - 1 : Pop(bs)[i] = bs[i]
  BY Leaving, EmptySeq
<1>2. \A i \in 2 .. Len(Pop(bs)) : i \in 2 .. Len(bs) /\ Pop(bs)[i] = bs[i]
  BY <1>1
<1>3. Pop(bs) # <<>> => Len(bs) \in 2 .. Len(bs)
  BY <1>1
<1> QED
  BY <1>2, <1>3 DEF HeldReached, Top

\* Before the first function nothing waits.
THEOREM OwnedInit == Init => Owned
<1> SUFFICES ASSUME Init PROVE Owned
  OBVIOUS
<1>1. Shape
  BY ShapeInit
<1>2. Reached
  BY DEF Init, Reached, HeldReached
<1>3. \A s \in 1 .. MaxFuncs : Waits(pending, s) = NoRef
  BY DEF Init, Waits
<1>4. \A r \in Refs : ends[r] = {} /\ r # NoRef
  BY ControlAssumption DEF Init, NoRef
<1>5. Len(blocks) = 0
  BY DEF Init
<1>6. Sole(ends, pending, blocks)
  BY <1>3, <1>4, <1>5 DEF Sole
<1> QED
  BY <1>1, <1>2, <1>6 DEF Owned

\* A statement changes no owner.
LEMMA OwnedGoing ==
    ASSUME Owned, blocks # <<>>, NEW l \in {"return", "non_return"}
    PROVE  /\ [blocks EXCEPT ![Len(blocks)].lst = l] \in Seq(Frames)
           /\ Sole(ends, pending, [blocks EXCEPT ![Len(blocks)].lst = l])
           /\ HeldReached([blocks EXCEPT ![Len(blocks)].lst = l])
           /\ control # {}
  BY Going, SoleGoing, HeldGoing DEF Owned, Reached, Shape, TypeOK

\* Neither does a block that opens behind one.
LEMMA OwnedOpening ==
    ASSUME Owned, blocks # <<>>, NEW f \in Frames, f.iftrue = NoRef, f.held # {}
    PROVE  /\ Sole(ends, pending, Append(StatementDone(blocks), f))
           /\ HeldReached(Append(StatementDone(blocks), f))
<1>1. StatementDone(blocks) \in Seq(Frames) /\ Sole(ends, pending, StatementDone(blocks))
      /\ HeldReached(StatementDone(blocks))
  BY OwnedGoing DEF StatementDone
<1> QED
  BY <1>1, SoleOpening, HeldOpening

\* The end of a block that has no END of its own.
LEMMA OwnedLeaving ==
    ASSUME Owned, blocks # <<>>, Top(blocks).kind # "else"
    PROVE  /\ Sole(EndsAfterJoin, PendingAfterJoin, Pop(blocks))
           /\ HeldReached(Pop(blocks))
           /\ Pop(blocks) # <<>> => Top(blocks).held # {}
           /\ Top(blocks).kind # "func" => Top(blocks).held # {}
<1>1. blocks \in Seq(Frames) /\ HeldReached(blocks) /\ Nested(blocks, scope) /\ Shape
  BY DEF Owned, Shape, TypeOK, Reached
<1>2. Len(blocks) \in 1 .. Len(blocks)
  BY <1>1, EmptySeq
<1>3. Top(blocks).iftrue = NoRef
  BY <1>1, <1>2 DEF Nested, Top
<1>4. Sole(EndsAfterJoin, PendingAfterJoin, Pop(blocks))
  BY <1>1, <1>3, SoleJoined, SoleLeaving
<1> QED
  BY <1>1, <1>4, HeldLeaving, LeavingShape

\* Every action leaves every END with one owner and every point reached.
THEOREM OwnedStep == Owned /\ [Next]_vars => Owned'
<1> SUFFICES ASSUME Owned, [Next]_vars PROVE Reached' /\ Sole(ends, pending, blocks)'
  BY ShapeStep DEF Owned
<1>0. /\ Shape /\ TypeOK /\ Nested(blocks, scope)
      /\ Reached /\ Sole(ends, pending, blocks)
  BY DEF Owned, Shape
<1> USE <1>0
<1>1. CASE Simple
  <2>1. blocks # <<>>
    BY <1>1, EmitTypes DEF Simple
  <2> QED
    BY <1>1, <2>1, OwnedGoing DEF Simple, StatementDone, Reached
<1>2. CASE Return
  <2>1. blocks # <<>>
    BY <1>2, EmitTypes DEF Return
  <2>2. control' # {}
    BY <1>2, <2>1 DEF Return, Reached
  <2> QED
    BY <1>2, <2>1, <2>2, OwnedGoing DEF Return, Reached
<1>3. ASSUME NEW watched \in BOOLEAN, OpenBranch(watched), blocks # <<>>
      PROVE  Reached' /\ Sole(ends, pending, blocks)'
  <2> DEFINE f == Frame("then", scope, control, NoRef, watched)
  <2>1. f \in Frames /\ f.iftrue = NoRef /\ f.held = control
    BY <1>3, InSlot, FrameType DEF TypeOK
  <2>2. control # {} /\ control' # {}
    BY <1>3 DEF OpenBranch, Reached, Take
  <2> HIDE DEF f
  <2>3. Sole(ends, pending, blocks') /\ HeldReached(blocks')
    BY <1>3, <2>1, <2>2, OwnedOpening DEF OpenBranch, f
  <2> QED
    BY <1>3, <2>2, <2>3 DEF OpenBranch, Reached
<1>4. ASSUME NEW watched \in BOOLEAN, OpenIf(watched)
      PROVE  Reached' /\ Sole(ends, pending, blocks)'
  BY <1>3, <1>4, EmitTypes DEF OpenIf
<1>5. CASE OpenElif
  <2>1. blocks # <<>> /\ (chain = "watched") \in BOOLEAN
    BY <1>5 DEF OpenElif, Shape, ChainInBlock
  <2> QED
    BY <1>3, <1>5, <2>1 DEF OpenElif
<1>6. CASE OpenFor
  <2> DEFINE f == Frame("loop", scope, control, NoRef, FALSE)
  <2>1. blocks # <<>> /\ control # {}
    BY <1>6, EmitTypes DEF OpenFor, Reached
  <2>2. f \in Frames /\ f.iftrue = NoRef /\ f.held = control
    BY <2>1, LoopFrame
  <2> HIDE DEF f
  <2>3. Sole(ends, pending, blocks') /\ HeldReached(blocks')
    BY <1>6, <2>1, <2>2, OwnedOpening DEF OpenFor, f
  <2> QED
    BY <1>6, <2>1, <2>3 DEF OpenFor, Reached
<1>7. CASE OpenDef
  <2> DEFINE f == Frame("func", scope + 1, control, NoRef, FALSE)
  <2>1. f \in Frames /\ f.iftrue = NoRef /\ f.held = control
    BY <1>7, FunctionFrame DEF OpenDef
  <2>2. control' # {}
    BY <1>7 DEF OpenDef
  <2> HIDE DEF f
  <2>3. Sole(ends, pending, blocks') /\ HeldReached(blocks')
    <3>1. CASE blocks = <<>>
      BY <1>7, <2>1, <3>1, SoleOpening, HeldOpening DEF OpenDef, TypeOK, Reached, f
    <3>2. CASE blocks # <<>>
      BY <1>7, <2>1, <3>2, OwnedOpening DEF OpenDef, Reached, f
    <3> QED
      BY <3>1, <3>2
  <2> QED
    BY <1>7, <2>2, <2>3 DEF OpenDef, Reached
<1>8. CASE CloseReturning
  <2>1. blocks # <<>> /\ Top(blocks).kind = "then" /\ scope \in 1 .. MaxFuncs
    BY <1>8, InSlot DEF CloseReturning, Closing
  <2>2. PICK r \in Refs :
           /\ EndsAfterJoin[r] = {}
           /\ ends' = [EndsAfterJoin EXCEPT ![r] = Joined]
           /\ pending' = [PendingAfterJoin EXCEPT ![scope] = Append(@, r)]
    BY <1>8 DEF CloseReturning, NewEnd
  <2>3. /\ Waits(pending', scope) = r
        /\ \A s \in 1 .. MaxFuncs : s # scope => Waits(pending', s) = Waits(PendingAfterJoin, s)
    BY <2>1, <2>2, Joining, Waiting DEF Waits
  <2>4. /\ Sole(EndsAfterJoin, PendingAfterJoin, Pop(blocks)) /\ HeldReached(Pop(blocks))
        /\ Top(blocks).held # {} /\ Pop(blocks) \in Seq(Frames)
    BY <2>1, OwnedLeaving, LeavingShape
  <2>5. Sole(ends', pending', Pop(blocks))
    <3>1. /\ EndsAfterJoin \in [Refs -> SUBSET Paths]
          /\ Joined \in SUBSET Paths /\ Joined # {}
          /\ Waits(PendingAfterJoin, scope) = NoRef
      BY <2>1, Joining, SoleJoined
    <3> QED
      BY <2>1, <2>2, <2>3, <2>4, <3>1, SoleWaiting
  <2> QED
    BY <1>8, <2>4, <2>5 DEF CloseReturning, Otherwise, Reached
<1>9. CASE CloseBranch
  <2>1. blocks # <<>> /\ Top(blocks).kind = "then"
    BY <1>9 DEF CloseBranch, Closing
  <2> QED
    BY <1>9, <2>1, OwnedLeaving, SoleJoined DEF CloseBranch, Reached
<1>10. CASE OpenElse
  <2>1. /\ blocks # <<>> /\ Top(blocks).kind = "then" /\ Top(blocks).watched \in BOOLEAN
        /\ scope \in 1 .. MaxFuncs
    BY <1>10, InSlot DEF OpenElse, Closing, Frames
  <2>2. PICK r \in Refs :
           /\ EndsAfterJoin[r] = {}
           /\ ends' = [EndsAfterJoin EXCEPT ![r] = Joined]
           /\ blocks' = Append(Pop(blocks), Frame("else", scope, {}, r, Top(blocks).watched))
    BY <1>10 DEF OpenElse, NewEnd
  <2> DEFINE f == Frame("else", scope, {}, r, Top(blocks).watched)
  <2>3. f \in Frames /\ f.kind = "else" /\ f.iftrue = r
    BY <2>1, FrameType
  <2>4. /\ Sole(EndsAfterJoin, PendingAfterJoin, Pop(blocks)) /\ HeldReached(Pop(blocks))
        /\ Top(blocks).held # {} /\ Pop(blocks) \in Seq(Frames)
    BY <2>1, OwnedLeaving, LeavingShape
  <2> HIDE DEF f
  <2>5. Sole(ends', PendingAfterJoin, Append(Pop(blocks), f))
    BY <2>1, <2>2, <2>3, <2>4, Joining, SoleJoined, SoleElse
  <2>6. HeldReached(Append(Pop(blocks), f))
    BY <2>3, <2>4, HeldOpening
  <2>7. control' # {}
    <3>1. Top(blocks).held \in SUBSET Paths
      BY <2>1, InSlot DEF Frames
    <3> QED
      BY <1>10, <2>1, <2>4, <3>1, TakeReached DEF OpenElse
  <2> QED
    BY <1>10, <2>2, <2>5, <2>6, <2>7 DEF OpenElse, Reached, f
<1>11. CASE CloseElse
  <2>1. blocks # <<>> /\ Top(blocks).kind = "else"
    BY <1>11 DEF CloseElse, Closing
  <2>2. Top(blocks).iftrue \in Refs
    <3>1. Len(blocks) \in 1 .. Len(blocks)
      BY <2>1, EmptySeq DEF TypeOK
    <3>2. Top(blocks).iftrue # NoRef
      BY <2>1, <3>1 DEF Nested, Top
    <3> QED
      BY <2>1, <3>2, InSlot DEF Frames
  <2>3. Sole(ends', PendingAfterJoin, Pop(blocks))
    BY <1>11, <2>1, <2>2, Joining, SoleJoined, SoleLeavingElse DEF CloseElse, TypeOK
  <2>4. HeldReached(Pop(blocks))
    BY <2>1, HeldLeaving DEF TypeOK, Reached
  <2> QED
    BY <1>11, <2>1, <2>3, <2>4, SoleJoined DEF CloseElse, Reached
<1>12. CASE CloseFor
  <2>1. blocks # <<>> /\ Top(blocks).kind = "loop"
    BY <1>12 DEF CloseFor, Closing
  <2> QED
    BY <1>12, <2>1, OwnedLeaving, SoleJoined DEF CloseFor, Reached
<1>13. CASE CloseUnsupported
  BY <1>13 DEF CloseUnsupported, Reached
<1>14. CASE CloseDef
  <2>1. blocks # <<>> /\ Top(blocks).kind = "func"
    BY <1>14 DEF CloseDef, Closing
  <2> QED
    BY <1>14, <2>1, OwnedLeaving DEF CloseDef, Reached
<1>15. CASE UNCHANGED vars
  BY <1>15 DEF vars, Reached
<1> QED
  BY <1>1, <1>2, <1>4, <1>5, <1>6, <1>7, <1>8, <1>9, <1>10, <1>11, <1>12, <1>13, <1>14, <1>15
  DEF Next

\* With at most one branch pending in a slot, Sole says what EndsOwned says.
LEMMA SoleIsOwned == Owned => EndsOwned
<1> SUFFICES ASSUME Owned PROVE EndsOwned
  OBVIOUS
<1>1. /\ blocks \in Seq(Frames) /\ Sole(ends, pending, blocks)
      /\ \A s \in 1 .. MaxFuncs : pending[s] \in Seq(Refs) /\ Len(pending[s]) <= 1
  BY DEF Owned, Shape, TypeOK, PendingAtMostOne
<1>2. DOMAIN blocks = 1 .. Len(blocks) /\ DOMAIN <<>> = {}
  BY <1>1, LenProperties
<1>3. ASSUME NEW s \in 1 .. MaxFuncs
      PROVE  /\ pending[s] = <<>> => DOMAIN pending[s] = {} /\ Waits(pending, s) = NoRef
             /\ pending[s] # <<>> => /\ DOMAIN pending[s] = {1}
                                     /\ Waits(pending, s) = pending[s][1]
                                     /\ pending[s][1] \in Refs
  BY <1>1, <1>2, OnePending DEF Waits
<1>4. \A r \in Refs : r # NoRef
  BY ControlAssumption DEF NoRef
<1>5. \A r \in Refs : InPending(r) <=> \E s \in 1 .. MaxFuncs : Waits(pending, s) = r
  BY <1>3, <1>4 DEF InPending
<1>6. \A r \in Refs : InElse(r) <=> \E i \in 1 .. Len(blocks) : blocks[i].iftrue = r
  BY <1>2 DEF InElse
<1>7. /\ \A r \in Refs : ends[r] # {} <=> InPending(r) \/ InElse(r)
      /\ \A r \in Refs : ~(InPending(r) /\ InElse(r))
  BY <1>1, <1>4, <1>5, <1>6 DEF Sole
<1>8. \A s, t \in 1 .. MaxFuncs : \A i \in DOMAIN pending[s], j \in DOMAIN pending[t] :
         pending[s][i] = pending[t][j] => s = t /\ i = j
  BY <1>1, <1>3, <1>4 DEF Sole
<1> QED
  BY <1>1, <1>2, <1>7, <1>8 DEF Sole, EndsOwned

\* Every END that has not been merged waits in exactly one place, for any
\* nesting of branches, loops and functions: none is lost, none merged twice.
THEOREM ControlEndsOwned == Spec => []EndsOwned
  BY OwnedInit, OwnedStep, SoleIsOwned, PTL DEF Spec

----------------------------------------------------------------------------
(* The third layer: functions of guard clauses *)

\* A statement keeps what is known of the waiting paths.
LEMMA FramesGoing ==
    ASSUME NEW bs \in Seq(Frames), bs # <<>>, NEW w \in BOOLEAN,
           NEW l \in {"return", "non_return"}
    PROVE  /\ FramesWatched(bs, w) => FramesWatched([bs EXCEPT ![Len(bs)].lst = l], w)
           /\ FramesClean(bs, w) => FramesClean([bs EXCEPT ![Len(bs)].lst = l], w)
<1> DEFINE go == [bs EXCEPT ![Len(bs)].lst = l]
<1>1. /\ Len(go) = Len(bs)
      /\ \A i \in 1 .. Len(bs) : go[i].watched = bs[i].watched /\ go[i].held = bs[i].held
  BY Going DEF SameBlock
<1> HIDE DEF go
<1>2. /\ FramesWatched(bs, w) => FramesWatched(go, w)
      /\ FramesClean(bs, w) => FramesClean(go, w)
  BY <1>1 DEF FramesWatched, FramesClean
<1> QED
  BY <1>2 DEF go

\* A block that opens adds the paths that wait outside it.
LEMMA FramesOpening ==
    ASSUME NEW bs \in Seq(Frames), NEW f \in Frames, NEW w \in BOOLEAN, NEW v \in BOOLEAN,
           w => v
    PROVE  /\ FramesWatched(bs, w) /\ (f.watched => v) => FramesWatched(Append(bs, f), v)
           /\ /\ FramesClean(bs, w)
              /\ ~Returned(f.held)
              /\ ~v \/ f.watched => ~Took(f.held)
              => FramesClean(Append(bs, f), v)
<1> DEFINE up == Append(bs, f)
<1>1. \A i \in 1 .. Len(up) : (i \in 1 .. Len(bs) /\ up[i] = bs[i]) \/ up[i] = f
  BY Opening, LenProperties
<1> HIDE DEF up
<1>2. FramesWatched(bs, w) /\ (f.watched => v) => FramesWatched(up, v)
  BY <1>1 DEF FramesWatched
<1>3. /\ FramesClean(bs, w)
      /\ ~Returned(f.held)
      /\ ~v \/ f.watched => ~Took(f.held)
      => FramesClean(up, v)
  BY <1>1 DEF FramesClean
<1> QED
  BY <1>2, <1>3 DEF up

\* A block that is left gives back clean paths.
LEMMA FramesLeaving ==
    ASSUME NEW bs \in Seq(Frames), bs # <<>>, NEW w \in BOOLEAN
    PROVE  /\ FramesWatched(bs, w) => /\ FramesWatched(Pop(bs), w)
                                      /\ Top(bs).watched => w
           /\ FramesClean(bs, w) => /\ FramesClean(Pop(bs), w)
                                    /\ ~Returned(Top(bs).held)
                                    /\ ~w \/ Top(bs).watched => ~Took(Top(bs).held)
<1>1. /\ Len(bs) \in 1 .. Len(bs) /\ Len(Pop(bs)) = Len(bs) - 1
      /\ \A i \in 1 .. Len(bs) - 1 : Pop(bs)[i] = bs[i]
  BY Leaving, EmptySeq
<1>2. \A i \in 1 .. Len(Pop(bs)) : i \in 1 .. Len(bs) /\ Pop(bs)[i] = bs[i]
  BY <1>1
<1>3. FramesWatched(bs, w) => FramesWatched(Pop(bs), w) /\ (Top(bs).watched => w)
  BY <1>1, <1>2 DEF FramesWatched, Top
<1>4. FramesClean(bs, w) => /\ FramesClean(Pop(bs), w)
                            /\ ~Returned(Top(bs).held)
                            /\ ~w \/ Top(bs).watched => ~Took(Top(bs).held)
  BY <1>1, <1>2 DEF FramesClean, Top
<1> QED
  BY <1>3, <1>4

\* A block that opens behind a statement takes the paths that wait outside it.
LEMMA GuardedOpening ==
    ASSUME Shape, Guarded, blocks # <<>>, NEW f \in Frames, f.held = control,
           NEW v \in BOOLEAN, watching => v, f.watched => v,
           Guards /\ f.watched => ~Took(control)
    PROVE  /\ FramesWatched(Append(StatementDone(blocks), f), v)
           /\ Guards /\ ~Returned(control)
                 => FramesClean(Append(StatementDone(blocks), f), v)
<1> DEFINE go == StatementDone(blocks)
<1>1. go \in Seq(Frames) /\ FramesWatched(go, watching) /\ watching \in BOOLEAN
  BY Going, FramesGoing DEF Shape, TypeOK, Guarded, StatementDone
<1>2. Guards => FramesClean(go, watching)
  BY FramesGoing DEF Shape, TypeOK, Guarded, StatementDone
<1> HIDE DEF go
<1>3. FramesWatched(Append(go, f), v)
  BY <1>1, FramesOpening
<1>4. Guards /\ ~v => ~Took(control)
  BY DEF Guarded, NoneTook
<1>5. Guards /\ ~Returned(control) => FramesClean(Append(go, f), v)
  BY <1>1, <1>2, <1>4, FramesOpening
<1> QED
  BY <1>3, <1>5 DEF go

\* A statement of a guard clause is not behind a return.
LEMMA GuardedEmit ==
    ASSUME Shape, Guarded, Emit, Guards'
    PROVE  Guards /\ blocks # <<>> /\ ~Returned(control)
<1>1. blocks # <<>> /\ Guards /\ Top(blocks).lst # "return"
  BY DEF Emit, Guards
<1>2. Top(blocks).lst = "non_return"
  BY <1>1, InSlot DEF Frames
<1> QED
  BY <1>1, <1>2 DEF Guarded, NoneReturned

\* Marking paths changes no return.
LEMMA TakeKeeps ==
    ASSUME NEW paths \in SUBSET Paths, NEW watched \in BOOLEAN
    PROVE  /\ Returned(Take(paths, watched)) <=> Returned(paths)
           /\ ~watched => Take(paths, watched) = paths
<1>1. CASE watched
  <2>1. Take(paths, watched) = {[p EXCEPT !.took = TRUE] : p \in paths}
    BY <1>1 DEF Take
  <2>2. \A p \in paths : [p EXCEPT !.took = TRUE].returned <=> p.returned
    BY DEF Paths
  <2>3. Returned(Take(paths, watched)) <=> \E p \in paths : [p EXCEPT !.took = TRUE].returned
    BY <2>1, Zenon DEF Returned
  <2>4. (\E p \in paths : [p EXCEPT !.took = TRUE].returned) <=> \E p \in paths : p.returned
    BY <2>2, Zenon
  <2> QED
    BY <1>1, <2>3, <2>4 DEF Returned
<1>2. CASE ~watched
  BY <1>2 DEF Take
<1> QED
  BY <1>1, <1>2

\* Opening a branch where no path has returned, and none has taken a branch if
\* it is one of the watched if.
LEMMA GuardedBranch ==
    ASSUME Shape, Guarded, blocks # <<>>, NEW watched \in BOOLEAN, OpenBranch(watched),
           watching' \in BOOLEAN, watching \/ watched => watching',
           Guards /\ watched => ~Took(control),
           Guards' => Guards /\ ~Returned(control)
    PROVE  Guarded'
<1> DEFINE f == Frame("then", scope, control, NoRef, watched)
<1>1. f \in Frames /\ f.held = control /\ (f.watched <=> watched)
  BY InSlot, FrameType DEF Shape, TypeOK
<1> HIDE DEF f
<1>2. /\ FramesWatched(blocks', watching')
      /\ Guards' => FramesClean(blocks', watching')
  BY <1>1, GuardedOpening DEF OpenBranch, f
<1>3. control \in SUBSET Paths /\ control' = Take(control, watched) /\ chain' = "none"
  BY DEF OpenBranch, Shape, TypeOK
<1>4. Guards' => ~Returned(control') /\ ~ranAfterReturn'
  <2>1. Returned(control') <=> Returned(control)
    BY <1>3, TakeKeeps
  <2>2. Guards' => ~ranAfterReturn'
    BY DEF OpenBranch, Guarded, NoneReturned
  <2> QED
    BY <2>1, <2>2
<1>5. Guards' => ~ranSecondBranch'
  BY DEF OpenBranch, Guarded, NoneTook, Took
<1>6. Guards' /\ ~watching' => ~Took(control')
  BY <1>3, TakeKeeps DEF Guarded, NoneTook
<1> QED
  BY <1>2, <1>3, <1>4, <1>5, <1>6 DEF Guarded, NoneReturned, NoneTook

\* No path has been anywhere yet.
THEOREM GuardedInit == Init => Guarded
  BY DEF Init, Guarded, Guards, NoneReturned, NoneTook, FramesWatched, FramesClean,
         Returned, Took

\* Every action keeps the paths of guard clauses apart.
THEOREM GuardedStep == Shape /\ Guarded /\ [Next]_vars => Guarded'
<1> SUFFICES ASSUME Shape, Guarded, [Next]_vars PROVE Guarded'
  OBVIOUS
<1>0. /\ TypeOK
      /\ FramesWatched(blocks, watching)
      /\ Guards => NoneReturned /\ NoneTook /\ FramesClean(blocks, watching)
  BY DEF Shape, Guarded
<1> USE <1>0
<1>1. CASE Simple
  <2>1. blocks # <<>> /\ (Guards' => Guards /\ ~Returned(control))
    BY <1>1, EmitTypes, GuardedEmit DEF Simple
  <2>2. /\ FramesWatched(blocks', watching)
        /\ Guards' => FramesClean(blocks', watching)
    BY <1>1, <2>1, FramesGoing DEF Simple, StatementDone, TypeOK
  <2> QED
    BY <1>1, <2>1, <2>2 DEF Simple, Guarded, NoneReturned, NoneTook
<1>2. CASE Return
  <2>1. blocks # <<>> /\ (Guards' => Guards /\ ~Returned(control))
    BY <1>2, EmitTypes, GuardedEmit DEF Return
  <2>2. /\ FramesWatched(blocks', watching)
        /\ Guards' => FramesClean(blocks', watching)
    BY <1>2, <2>1, FramesGoing DEF Return, TypeOK
  <2>3. blocks' # <<>> /\ Top(blocks').lst = "return"
    <3>1. Len(blocks) \in 1 .. Len(blocks)
      BY <2>1, EmptySeq DEF TypeOK
    <3> QED
      BY <1>2, <2>1, <3>1, Going DEF Return, TypeOK, Top
  <2>4. Took(control') <=> Took(control)
    <3>1. control' = {[p EXCEPT !.returned = TRUE] : p \in control}
      BY <1>2 DEF Return
    <3>2. \A p \in control : [p EXCEPT !.returned = TRUE].took <=> p.took
      BY DEF TypeOK, Paths
    <3>3. Took(control') <=> \E p \in control : [p EXCEPT !.returned = TRUE].took
      BY <3>1, Zenon DEF Took
    <3>4. (\E p \in control : [p EXCEPT !.returned = TRUE].took) <=> \E p \in control : p.took
      BY <3>2, Zenon
    <3> QED
      BY <3>3, <3>4 DEF Took
  <2> QED
    BY <1>2, <2>1, <2>2, <2>3, <2>4 DEF Return, Guarded, NoneReturned, NoneTook
<1>3. ASSUME NEW watched \in BOOLEAN, OpenIf(watched) PROVE Guarded'
  <2>1. blocks # <<>> /\ (Guards' => Guards /\ ~Returned(control))
    BY <1>3, EmitTypes, GuardedEmit DEF OpenIf
  <2>2. watching' \in BOOLEAN /\ (watching \/ watched => watching')
    BY <1>3 DEF OpenIf, TypeOK
  <2>3. Guards /\ watched => ~Took(control)
    BY <1>3 DEF OpenIf, NoneTook
  <2> QED
    BY <1>3, <2>1, <2>2, <2>3, GuardedBranch DEF OpenIf
<1>4. CASE OpenElif
  <2>1. blocks # <<>> /\ Top(blocks).lst = "non_return"
    BY <1>4 DEF OpenElif, Shape, ChainInBlock
  <2>2. Guards' => Guards /\ ~Returned(control)
    BY <1>4, <2>1 DEF OpenElif, Guards, NoneReturned
  <2>3. Guards /\ chain = "watched" => ~Took(control)
    BY DEF NoneTook
  <2>4. (chain = "watched") \in BOOLEAN /\ (watching \/ chain = "watched" => watching')
    BY <1>4 DEF OpenElif, Guarded
  <2> QED
    BY <1>4, <2>1, <2>2, <2>3, <2>4, GuardedBranch DEF OpenElif, TypeOK
<1>5. CASE OpenFor
  <2> DEFINE f == Frame("loop", scope, control, NoRef, FALSE)
  <2>1. blocks # <<>> /\ (Guards' => Guards /\ ~Returned(control))
    BY <1>5, EmitTypes, GuardedEmit DEF OpenFor
  <2>2. f \in Frames /\ f.held = control /\ ~f.watched
    BY <2>1, LoopFrame
  <2> HIDE DEF f
  <2>3. /\ FramesWatched(blocks', watching)
        /\ Guards' => FramesClean(blocks', watching)
    BY <1>5, <2>1, <2>2, GuardedOpening DEF OpenFor, TypeOK, f
  <2> QED
    BY <1>5, <2>1, <2>3 DEF OpenFor, Guarded, NoneReturned, NoneTook
<1>6. CASE OpenDef
  <2> DEFINE f == Frame("func", scope + 1, control, NoRef, FALSE)
  <2>1. Guards' => Guards /\ ~Returned(control)
    <3>1. CASE Emit
      BY <3>1, GuardedEmit
    <3>2. CASE blocks = <<>> /\ UNCHANGED <<deadCode, fellThrough>>
      BY <3>2 DEF Guards, NoneReturned
    <3> QED
      BY <1>6, <3>1, <3>2 DEF OpenDef
  <2>2. f \in Frames /\ f.held = control /\ ~f.watched
    BY <1>6, FunctionFrame DEF OpenDef
  <2> HIDE DEF f
  <2>3. /\ FramesWatched(blocks', watching)
        /\ Guards' => FramesClean(blocks', watching)
    <3>1. CASE blocks = <<>>
      BY <1>6, <2>1, <2>2, <3>1, FramesOpening DEF OpenDef, TypeOK, NoneTook, f
    <3>2. CASE blocks # <<>>
      BY <1>6, <2>1, <2>2, <3>2, GuardedOpening DEF OpenDef, TypeOK, f
    <3> QED
      BY <3>1, <3>2
  <2>4. ~Returned(control') /\ ~Took(control')
    BY <1>6 DEF OpenDef, Returned, Took
  <2> QED
    BY <1>6, <2>1, <2>3, <2>4 DEF OpenDef, Guarded, NoneReturned, NoneTook
<1>7. ASSUME blocks # <<>>, blocks' = Pop(blocks), UNCHANGED watching
      PROVE  /\ FramesWatched(blocks', watching')
             /\ Top(blocks).watched => watching'
             /\ Guards => /\ FramesClean(blocks', watching')
                          /\ ~Returned(Top(blocks).held)
                          /\ ~watching \/ Top(blocks).watched => ~Took(Top(blocks).held)
  BY <1>7, FramesLeaving DEF TypeOK
<1>8. CASE CloseReturning
  <2>1. blocks # <<>> /\ blocks' = Pop(blocks) /\ UNCHANGED watching
    BY <1>8 DEF CloseReturning, Closing
  <2>2. chain' = "watched" => Top(blocks).watched
    BY <1>8 DEF CloseReturning
  <2>3. Guards' <=> Guards
    BY <1>8 DEF CloseReturning, Guards
  <2> QED
    BY <1>7, <1>8, <2>1, <2>2, <2>3
    DEF CloseReturning, Otherwise, Guarded, NoneReturned, NoneTook
<1>9. CASE CloseBranch
  <2>1. blocks # <<>> /\ blocks' = Pop(blocks) /\ UNCHANGED watching /\ ~Guards'
    BY <1>9 DEF CloseBranch, Closing, Guards
  <2>2. chain' = "watched" => Top(blocks).watched
    BY <1>9 DEF CloseBranch
  <2> QED
    BY <1>7, <2>1, <2>2 DEF Guarded
<1>10. CASE OpenElse
  <2>1. /\ blocks # <<>> /\ UNCHANGED watching /\ ~Guards' /\ chain' = "none"
        /\ Top(blocks).watched \in BOOLEAN /\ scope \in 1 .. MaxFuncs
    BY <1>10, InSlot DEF OpenElse, Closing, Guards, Frames
  <2>2. PICK r \in Refs :
           blocks' = Append(Pop(blocks), Frame("else", scope, {}, r, Top(blocks).watched))
    BY <1>10 DEF OpenElse
  <2> DEFINE f == Frame("else", scope, {}, r, Top(blocks).watched)
  <2>3. f \in Frames /\ (f.watched <=> Top(blocks).watched)
    BY <2>1, FrameType
  <2> HIDE DEF f
  <2>4. /\ Pop(blocks) \in Seq(Frames) /\ FramesWatched(Pop(blocks), watching)
        /\ Top(blocks).watched => watching
    BY <2>1, Leaving, FramesLeaving DEF TypeOK
  <2>5. FramesWatched(Append(Pop(blocks), f), watching)
    BY <2>3, <2>4, FramesOpening DEF TypeOK
  <2> QED
    BY <2>1, <2>2, <2>5 DEF Guarded, f
<1>11. CASE CloseElse
  <2>1. /\ blocks # <<>> /\ blocks' = Pop(blocks) /\ UNCHANGED watching
        /\ ~Guards' /\ chain' = "none"
    BY <1>11 DEF CloseElse, Closing, Guards
  <2> QED
    BY <1>7, <2>1 DEF Guarded
<1>12. CASE CloseFor
  <2>1. /\ blocks # <<>> /\ blocks' = Pop(blocks) /\ UNCHANGED watching
        /\ ~Guards' /\ chain' = "none"
    BY <1>12 DEF CloseFor, Closing, Guards
  <2> QED
    BY <1>7, <2>1 DEF Guarded
<1>13. CASE CloseUnsupported
  BY <1>13 DEF CloseUnsupported, Guarded, Guards, NoneReturned, NoneTook
<1>14. CASE CloseDef
  <2>1. /\ blocks # <<>> /\ blocks' = Pop(blocks) /\ UNCHANGED watching
        /\ chain' = "none" /\ (Guards' <=> Guards)
    BY <1>14 DEF CloseDef, Closing, Guards
  <2> QED
    BY <1>7, <1>14, <2>1 DEF CloseDef, Guarded, NoneReturned, NoneTook
<1>15. CASE UNCHANGED vars
  BY <1>15 DEF vars, Guarded, Guards, NoneReturned, NoneTook
<1> QED
  BY <1>1, <1>2, <1>3, <1>4, <1>5, <1>6, <1>8, <1>9, <1>10, <1>11, <1>12, <1>13, <1>14, <1>15
  DEF Next

\* In functions of guard clauses, a path that has executed a return executes
\* nothing more in its function, for any nesting and any number of them.
THEOREM ControlGuardsReturn == Spec => []GuardsReturn
<1>1. Guarded => GuardsReturn
  BY DEF Guarded, Guards, NoneReturned, GuardsReturn
<1> QED
  BY <1>1, ShapeInit, ShapeStep, GuardedInit, GuardedStep, PTL DEF Spec

\* In such functions at most one branch of an if/elif is executed.
THEOREM ControlGuardsExclusive == Spec => []GuardsExclusive
<1>1. Guarded => GuardsExclusive
  BY DEF Guarded, Guards, NoneTook, GuardsExclusive
<1> QED
  BY <1>1, ShapeInit, ShapeStep, GuardedInit, GuardedStep, PTL DEF Spec
============================================================================
