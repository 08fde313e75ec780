------------------------------ MODULE Control ------------------------------
(***************************************************************************)
(* The control flow src/src/parse.c emits while it parses function bodies: *)
(* parse_block, if_statement, for_statement, return_statement, and the     *)
(* entry and exit of (nested) functions.                                   *)
(*                                                                         *)
(* A return only stores the result.  When a branch ends in one, its END is *)
(* kept in pending_conds of the scope, code generation goes on in the      *)
(* false branch, and the end of a block merges the two.                    *)
(*                                                                         *)
(* Control is the set of the paths of an execution that reach the point    *)
(* where code is being emitted, whatever the conditions evaluate to.  Of a *)
(* path only two facts are kept: whether it has executed a return, and     *)
(* whether it took a branch of the one if/elif/else that is watched.       *)
(***************************************************************************)
EXTENDS Integers, Sequences

CONSTANTS MaxBlocks,    (* bound: blocks open at once                      *)
          MaxFuncs,     (* bound: functions open at once                   *)
          Refs          (* references of the ENDs that wait for a MERGE    *)

ASSUME ControlAssumption ==
    /\ MaxBlocks \in Nat
    /\ MaxFuncs \in Nat \ {0}
    /\ Refs \subseteq Nat

\* No END.
NoRef == -1

VARIABLES blocks,    \* the parse_block calls in progress, innermost last
          control,   \* _ir_CTX->control of the current function
          ends,      \* the paths that lead to each END not merged yet
          pending,   \* pending_conds of each Scope slot; a slot is reused by
                     \* the next function without being reset
          scope,     \* num_scopes - 1: the slot of the current function
          chain,     \* whether an elif may follow, and of a watched if
          watching,  \* an if has been chosen to be watched
          trapped,   \* an ASSERT on a case not supported yet has failed
          deadCode,         \* history: a statement followed a return in its block
          fellThrough,      \* history: a branch or loop ended without a return
          ranAfterReturn,   \* history: a path executed code after a return
          ranSecondBranch   \* history: a path took two branches of one if

vars == <<blocks, control, ends, pending, scope, chain, watching, trapped,
          deadCode, fellThrough, ranAfterReturn, ranSecondBranch>>

Paths == [returned : BOOLEAN, took : BOOLEAN]
Chains == {"none", "plain", "watched"}

----------------------------------------------------------------------------
(* Helpers *)

Top(s) == s[Len(s)]
Pop(s) == SubSeq(s, 1, Len(s) - 1)

\* A block being parsed: slot is the Scope slot of its function, lst parse_block's
\* LastStatementType, held the paths that wait outside it (a false branch, the
\* loop's exit, or the function around), iftrue the END of the first branch
\* while an else is parsed.
Frame(kind, slot, held, iftrue, watched) ==
    [kind |-> kind, slot |-> slot, lst |-> "non_return", held |-> held,
     iftrue |-> iftrue, watched |-> watched]

\* A statement that is not a return has been parsed in the innermost block.
StatementDone(bs) == [bs EXCEPT ![Len(bs)].lst = "non_return"]

Returned(paths) == \E p \in paths : p.returned

\* The branch of an if that is watched has been taken.
Take(paths, watched) ==
    IF watched THEN {[p EXCEPT !.took = TRUE] : p \in paths} ELSE paths

\* A statement of a block, behind a return or not.
Emit ==
    /\ ~trapped
    /\ blocks # <<>>
    /\ deadCode' = (deadCode \/ Top(blocks).lst = "return")
    /\ UNCHANGED fellThrough

\* Mutant: the END of the block is not followed by a MERGE.
JoinedUnmerged == IF pending[scope] = <<>> THEN control ELSE {}

\* The paths at the end of a block, when the last pending branch is merged in.
Joined == IF pending[scope] = <<>> THEN control
          ELSE control \cup ends[Top(pending[scope])]

\* Mutant: the branch that is merged is not taken off pending_conds.
PendingAfterJoinKept == pending

PendingAfterJoin == [pending EXCEPT ![scope] = IF @ = <<>> THEN @ ELSE Pop(@)]

EndsAfterJoin == IF pending[scope] = <<>> THEN ends
                 ELSE [ends EXCEPT ![Top(pending[scope])] = {}]

\* Mutant: the branch that returns is merged with what follows the if.
OtherwiseMerged == Top(blocks).held \cup Joined

\* ir_IF_FALSE after a branch that returns: what follows is on the false branch.
Otherwise == Top(blocks).held

\* Mutant: leave_scope leaves the parent that leave_function made current.
OuterTwice == scope - 2

\* The slot of the function around, when leave_scope has run.
Outer == scope - 1

\* ir_END: r is the next reference that is not in use.
NewEnd(r, es) == es[r] = {} /\ \A q \in Refs : q < r => es[q] # {}

----------------------------------------------------------------------------
(* Operations *)

Init ==
    /\ blocks = <<>>
    /\ control = {}
    /\ ends = [r \in Refs |-> {}]
    /\ pending = [s \in 1 .. MaxFuncs |-> <<>>]
    /\ scope = 0
    /\ chain = "none"
    /\ watching = FALSE
    /\ trapped = FALSE
    /\ deadCode = FALSE
    /\ fellThrough = FALSE
    /\ ranAfterReturn = FALSE
    /\ ranSecondBranch = FALSE

\* print, pass, a variable or an expression.
Simple ==
    /\ Emit
    /\ blocks' = StatementDone(blocks)
    /\ chain' = "none"
    /\ ranAfterReturn' = (ranAfterReturn \/ Returned(control))
    /\ UNCHANGED <<control, ends, pending, scope, watching, trapped, ranSecondBranch>>

\* return_statement stores the result and leaves the control where it is.
Return ==
    /\ Emit
    /\ blocks' = [blocks EXCEPT ![Len(blocks)].lst = "return"]
    /\ control' = {[p EXCEPT !.returned = TRUE] : p \in control}
    /\ chain' = "none"
    /\ ranAfterReturn' = (ranAfterReturn \/ Returned(control))
    /\ UNCHANGED <<ends, pending, scope, watching, trapped, ranSecondBranch>>

\* The condition of an if or elif, and the block on its true branch.
OpenBranch(watched) ==
    /\ Len(blocks) < MaxBlocks
    /\ blocks' = Append(StatementDone(blocks), Frame("then", scope, control, NoRef, watched))
    /\ control' = Take(control, watched)
    /\ chain' = "none"
    /\ ranAfterReturn' = (ranAfterReturn \/ Returned(control))
    /\ ranSecondBranch' = (ranSecondBranch \/ (watched /\ \E p \in control : p.took))
    /\ UNCHANGED <<ends, pending, scope, trapped>>

\* if: it may be the one that is watched.
OpenIf(watched) ==
    /\ Emit
    /\ watched => ~watching
    /\ watching' = (watching \/ watched)
    /\ OpenBranch(watched)

\* elif, right after the block of an if or elif: the loop of if_statement.
OpenElif ==
    /\ ~trapped /\ chain # "none"
    /\ OpenBranch(chain = "watched")
    /\ UNCHANGED <<watching, deadCode, fellThrough>>

\* for over a range: the END before the loop, LOOP_BEGIN, and its true branch.
OpenFor ==
    /\ Emit
    /\ Len(blocks) < MaxBlocks
    /\ blocks' = Append(StatementDone(blocks), Frame("loop", scope, control, NoRef, FALSE))
    /\ chain' = "none"
    /\ ranAfterReturn' = (ranAfterReturn \/ Returned(control))
    /\ UNCHANGED <<control, ends, pending, scope, watching, trapped, ranSecondBranch>>

\* def at top level or in a block: enter_function takes the next Scope slot.
OpenDef ==
    /\ \/ Emit
       \/ blocks = <<>> /\ ~trapped /\ UNCHANGED <<deadCode, fellThrough>>
    /\ scope < MaxFuncs /\ Len(blocks) < MaxBlocks
    /\ blocks' = Append(IF blocks = <<>> THEN blocks ELSE StatementDone(blocks),
                        Frame("func", scope + 1, control, NoRef, FALSE))
    /\ control' = {[returned |-> FALSE, took |-> FALSE]}
    /\ scope' = scope + 1
    /\ chain' = "none"
    /\ UNCHANGED <<ends, pending, watching, trapped, ranAfterReturn, ranSecondBranch>>

\* The innermost block is of this kind and its DEDENT is next.
Closing(kind) == ~trapped /\ blocks # <<>> /\ Top(blocks).kind = kind

\* The end of a branch whose last statement is a return: its END is pending and
\* the false branch goes on.
CloseReturning ==
    /\ Closing("then") /\ Top(blocks).lst = "return"
    /\ \E r \in Refs :
          /\ NewEnd(r, EndsAfterJoin)
          /\ ends' = [EndsAfterJoin EXCEPT ![r] = Joined]
          /\ pending' = [PendingAfterJoin EXCEPT ![scope] = Append(@, r)]
    /\ control' = Otherwise
    /\ blocks' = Pop(blocks)
    /\ chain' = IF Top(blocks).watched THEN "watched" ELSE "plain"
    /\ UNCHANGED <<deadCode, fellThrough, scope, watching, trapped, ranAfterReturn, ranSecondBranch>>

\* The end of a branch without a return and without an else: the two branches
\* are merged before an elif is looked for.
CloseBranch ==
    /\ Closing("then") /\ Top(blocks).lst = "non_return"
    /\ ends' = EndsAfterJoin
    /\ pending' = PendingAfterJoin
    /\ control' = Joined \cup Top(blocks).held
    /\ blocks' = Pop(blocks)
    /\ chain' = IF Top(blocks).watched THEN "watched" ELSE "plain"
    /\ fellThrough' = TRUE
    /\ UNCHANGED <<deadCode, scope, watching, trapped, ranAfterReturn, ranSecondBranch>>

\* The same with an else, whose block is on the false branch.
OpenElse ==
    /\ Closing("then") /\ Top(blocks).lst = "non_return"
    /\ LET f == Top(blocks)
       IN  /\ \E r \in Refs :
                 /\ NewEnd(r, EndsAfterJoin)
                 /\ ends' = [EndsAfterJoin EXCEPT ![r] = Joined]
                 /\ blocks' = Append(Pop(blocks), Frame("else", scope, {}, r, f.watched))
           /\ control' = Take(f.held, f.watched)
           /\ ranSecondBranch' =
                 (ranSecondBranch \/ (f.watched /\ \E p \in f.held : p.took))
    /\ pending' = PendingAfterJoin
    /\ chain' = "none"
    /\ fellThrough' = TRUE
    /\ UNCHANGED <<deadCode, scope, watching, trapped, ranAfterReturn>>

\* The end of an else merges it with the first branch.
CloseElse ==
    /\ Closing("else") /\ Top(blocks).lst = "non_return"
    /\ ends' = [EndsAfterJoin EXCEPT ![Top(blocks).iftrue] = {}]
    /\ pending' = PendingAfterJoin
    /\ control' = Joined \cup ends[Top(blocks).iftrue]
    /\ blocks' = Pop(blocks)
    /\ chain' = "none"
    /\ fellThrough' = TRUE
    /\ UNCHANGED <<deadCode, scope, watching, trapped, ranAfterReturn, ranSecondBranch>>

\* The end of a loop's body goes back to its condition, and the loop is left
\* with the paths that came from before it and from the body.
CloseFor ==
    /\ Closing("loop") /\ Top(blocks).lst = "non_return"
    /\ ends' = EndsAfterJoin
    /\ pending' = PendingAfterJoin
    /\ control' = Joined \cup Top(blocks).held
    /\ blocks' = Pop(blocks)
    /\ chain' = "none"
    /\ ranAfterReturn' = (ranAfterReturn \/ Returned(Joined))
    /\ fellThrough' = TRUE
    /\ UNCHANGED <<deadCode, scope, watching, trapped, ranSecondBranch>>

\* ASSERT(false && "todo: return in else"), ASSERT(... && "todo; return from
\* loop"): what parse_block did before is of no consequence.
CloseUnsupported ==
    /\ Closing("else") \/ Closing("loop")
    /\ Top(blocks).lst = "return"
    /\ trapped' = TRUE
    /\ UNCHANGED <<deadCode, fellThrough, blocks, control, ends, pending, scope, chain, watching,
                   ranAfterReturn, ranSecondBranch>>

\* The end of a function's block and leave_function.
CloseDef ==
    /\ Closing("func")
    /\ ends' = EndsAfterJoin
    /\ pending' = PendingAfterJoin
    /\ control' = Top(blocks).held
    /\ blocks' = Pop(blocks)
    /\ scope' = Outer
    /\ chain' = "none"
    /\ UNCHANGED <<deadCode, fellThrough, watching, trapped, ranAfterReturn, ranSecondBranch>>

Next ==
    \/ Simple
    \/ Return
    \/ \E watched \in BOOLEAN : OpenIf(watched)
    \/ OpenElif
    \/ OpenFor
    \/ OpenDef
    \/ CloseReturning
    \/ CloseBranch
    \/ OpenElse
    \/ CloseElse
    \/ CloseFor
    \/ CloseUnsupported
    \/ CloseDef

Spec == Init /\ [][Next]_vars

----------------------------------------------------------------------------
(* Properties *)

Frames == [kind : {"func", "then", "else", "loop"},
           slot : 1 .. MaxFuncs,
           lst : {"non_return", "return"},
           held : SUBSET Paths,
           iftrue : Refs \cup {NoRef},
           watched : BOOLEAN]

\* The state is of the right type.
TypeOK ==
    /\ blocks \in Seq(Frames)
    /\ control \in SUBSET Paths
    /\ ends \in [Refs -> SUBSET Paths]
    /\ pending \in [1 .. MaxFuncs -> Seq(Refs)]
    /\ scope \in 0 .. MaxFuncs
    /\ chain \in Chains
    /\ watching \in BOOLEAN
    /\ trapped \in BOOLEAN
    /\ deadCode \in BOOLEAN
    /\ fellThrough \in BOOLEAN
    /\ ranAfterReturn \in BOOLEAN
    /\ ranSecondBranch \in BOOLEAN

\* The pending branches of a scope never pile up: each return in a branch is
\* preceded by the end of a block that merged the one before, so the 32 slots
\* are never needed.
PendingAtMostOne == \A s \in 1 .. MaxFuncs : Len(pending[s]) <= 1

\* enter_scope does not reset num_pending_conds, and need not: the function that
\* had the slot before left nothing pending in it.
IdleSlotsEmpty == \A s \in 1 .. MaxFuncs : s > scope => pending[s] = <<>>

\* The references that something in the parser will still merge.
InPending(r) == \E s \in 1 .. MaxFuncs : \E i \in DOMAIN pending[s] : pending[s][i] = r
InElse(r) == \E i \in DOMAIN blocks : blocks[i].iftrue = r

\* No path of a function gets lost and none is merged twice: every END waits in
\* exactly one place, which is what ir_check asks of the finished graph.
EndsOwned ==
    /\ \A r \in Refs : ends[r] # {} <=> InPending(r) \/ InElse(r)
    /\ \A r \in Refs : ~(InPending(r) /\ InElse(r))
    /\ \A i, j \in DOMAIN blocks :
          i # j /\ blocks[i].iftrue # NoRef => blocks[i].iftrue # blocks[j].iftrue
    /\ \A s, t \in 1 .. MaxFuncs : \A i \in DOMAIN pending[s], j \in DOMAIN pending[t] :
          pending[s][i] = pending[t][j] => s = t /\ i = j

\* In a function of guard clauses, where every branch ends in a return and none
\* is followed by a statement of its block, a path that has executed a return
\* executes nothing more in its function (test/if.luv).
GuardsReturn == ranAfterReturn => deadCode \/ fellThrough

\* In such a function at most one branch of an if/elif is executed.
GuardsExclusive == ranSecondBranch => deadCode \/ fellThrough

\* The same for all functions without dead code: a branch that returned is merged
\* with the rest at the end of the outer block (the comment in if_statement).
ReturnEnds == ranAfterReturn => deadCode

\* Of an if/elif/else, at most one block is executed (test/if_elif.luv).
BranchesExclusive == ranSecondBranch => deadCode
============================================================================
