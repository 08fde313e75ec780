------------------------------- MODULE Cursor -------------------------------
(***************************************************************************)
(* The token cursor of src/src/parse.c: advance, match, peek and consume   *)
(* turn the raw kinds of token_categorize into the stateful kinds the      *)
(* grammar is written in.  A line break inside brackets is dropped; outside *)
(* them it is a NEWLINE, followed by one INDENT or by a DEDENT for every   *)
(* level it leaves, which wait in token_buffer.                            *)
(*                                                                         *)
(* Raw tokens are drawn nondeterministically.  "word" is every token that  *)
(* neither brackets, line breaks nor the end of the file concern.          *)
(* Indentation is in units of four columns, as in categorizer.in.c.        *)
(*                                                                         *)
(* A list comprehension reads its text in two orders: its clauses first,   *)
(* then its element with the cursor put back, which counts the brackets of *)
(* the element once more.  From the first one on the bracket level is no   *)
(* longer the number of open brackets, and may be negative.                *)
(***************************************************************************)
EXTENDS Integers, Sequences

CONSTANTS MaxIndent,     (* deepest line break: TOK_NEWLINE_INDENT_40       *)
          IndentSlots,   (* length of Parser.indent_levels                  *)
          BufferSlots,   (* length of Parser.token_buffer                   *)
          ScopeSlots,    (* MAX_SCOPES, one for the module and each block   *)
          MaxParen,      (* bound: bracket level, either way                *)
          MaxComprs      (* bound: comprehensions inside each other         *)

ASSUME CursorAssumption ==
    /\ MaxIndent \in Nat \ {0}
    /\ IndentSlots \in Nat /\ MaxIndent + 1 <= IndentSlots
    /\ BufferSlots \in Nat /\ MaxIndent + 1 <= BufferSlots
    /\ ScopeSlots \in Nat /\ MaxIndent + 1 <= ScopeSlots
    /\ MaxParen \in Nat /\ MaxComprs \in Nat

VARIABLES cur,       \* cursor.cur_kind
          prev,      \* cursor.prev_kind
          buffer,    \* token_buffer, a stack whose top is the last element
          indents,   \* indent_levels up to num_indents
          paren,     \* token_continuation_paren_level
          comprs,    \* the comprehensions under way and the cursors they keep
          depth,     \* history: INDENTs less DEDENTs that have become current
          reread,    \* history: a comprehension has been found
          failed     \* the assertion that has failed: "index" when advance or
                     \* peek runs past the tokens, "scan" with one buffered

vars == <<cur, prev, buffer, indents, paren, comprs, depth, reread, failed>>

RawKinds == {"word", "open", "close", "eof"}
BufferedKinds == RawKinds \cup {"indent", "dedent", "newline"}

\* "scanned" is an opening bracket whose list has been looked through.
Kinds == BufferedKinds \cup {"invalid", "nl", "scanned"}

\* What parse_list_comprehension keeps: the cursor at the first token of the
\* element and, once it is there, behind the clauses.
Comprs == [first : Kinds, after : Kinds \cup {"none"}]

Levels == 0 .. MaxIndent

----------------------------------------------------------------------------
(* Helpers *)

Top(s) == s[Len(s)]
Pop(s) == SubSeq(s, 1, Len(s) - 1)

\* What delivering a token adds to depth.
Nesting(kind) == CASE kind = "indent" -> 1
                   [] kind = "dedent" -> -1
                   [] OTHER -> 0

\* Mutant: an opening bracket is not counted.
ParenAfterForgotten(kind) == IF kind = "close" THEN paren - 1 ELSE paren

\* token_categorize counts the brackets it sees.
ParenAfter(kind) == CASE kind = "open"  -> paren + 1
                      [] kind = "close" -> paren - 1
                      [] OTHER -> paren

\* The number of levels the popping loop leaves for a line indented by n: it
\* stops at the first one that is not deeper, and never pops the outermost.
Kept(n) == {j \in DOMAIN indents :
               /\ j = 1 \/ indents[j] <= n
               /\ \A k \in j + 1 .. Len(indents) : indents[k] > n}

\* Mutant: one DEDENT for a line, however many levels it leaves.
DedentsSingle(count) == <<"dedent">>

\* Mutant: a DEDENT is buffered for the level the loop stops at as well.
DedentsExtra(count) == [i \in 1 .. count + 1 |-> "dedent"]

Dedents(count) == [i \in 1 .. count |-> "dedent"]

----------------------------------------------------------------------------
(* Operations *)

Init ==
    /\ cur = "invalid" /\ prev = "invalid"
    /\ buffer = <<>>
    /\ indents = <<0>>
    /\ paren = 0
    /\ comprs = <<>>
    /\ depth = 0
    /\ reread = FALSE
    /\ failed = "no"

\* Nothing is read while a token is buffered or past the end of the file.
CanRead == buffer = <<>> /\ cur # "eof" /\ failed = "no"

\* A raw token the grammar accepts here.  A bracket that closes nothing is a
\* syntax error in every statement; before the first comprehension, the level
\* is the number of brackets there are to close.
CanFollow(kind) ==
    /\ kind = "open" => paren < MaxParen
    /\ kind = "close" => paren > (IF reread THEN -MaxParen ELSE 0)

\* advance with a buffered token.
TakeBuffered ==
    /\ buffer # <<>> /\ failed = "no"
    /\ prev' = cur
    /\ cur' = Top(buffer)
    /\ buffer' = Pop(buffer)
    /\ depth' = depth + Nesting(cur')
    /\ UNCHANGED <<indents, paren, comprs, reread, failed>>

\* advance to a token of the line.  At any level but 0 line breaks may come
\* first (skipped): advance takes each as current and starts over, so that the
\* last of them is what it leaves as the previous token.
ReadToken(skipped, kind) ==
    /\ CanRead /\ CanFollow(kind)
    /\ skipped => paren # 0
    /\ prev' = IF skipped THEN "nl" ELSE cur
    /\ cur' = kind
    /\ paren' = ParenAfter(kind)
    /\ UNCHANGED <<buffer, indents, comprs, depth, reread, failed>>

\* Mutant: a line at the level of the one before opens a block too.
DeeperLoose(n) == n >= Top(indents) /\ Len(indents) <= IndentSlots

\* Mutant: a line break of the deepest kind opens a block wherever it is met, as
\* if it stood for everything deeper as well.
DeeperAtDeepest(n) == (n > Top(indents) \/ n = MaxIndent) /\ Len(indents) <= IndentSlots

Deeper(n) == n > Top(indents)

\* The blocks of a line break; peek buffers the line break on top of them.
Buffered(blocks, peeked) == IF peeked THEN Append(blocks, "newline") ELSE blocks

\* A line break at level 0, where the next line is indented by n levels.
BreakLine(n, peeked) ==
    \/ /\ Deeper(n)
       /\ indents' = Append(indents, n)
       /\ buffer' = Buffered(<<"indent">>, peeked)
    \/ /\ n < Top(indents)
       /\ \E j \in Kept(n) :
             /\ indents' = SubSeq(indents, 1, j)
             /\ buffer' = Buffered(Dedents(Len(indents) - j), peeked)
    \/ /\ n = Top(indents)
       /\ indents' = indents
       /\ buffer' = Buffered(<<>>, peeked)

\* advance to a line break.
ReadLine(n) ==
    /\ CanRead /\ paren = 0
    /\ prev' = cur
    /\ cur' = "newline"
    /\ BreakLine(n, FALSE)
    /\ UNCHANGED <<paren, comprs, depth, reread, failed>>

\* advance to a line break before a blank line or a comment line.
ReadBlank ==
    /\ CanRead /\ paren = 0
    /\ prev' = cur
    /\ cur' = "newline"
    /\ UNCHANGED <<buffer, indents, paren, comprs, depth, reread, failed>>

\* Only a name inside the parentheses of a compound literal is looked past.
CanPeek == CanRead /\ cur = "word" /\ (reread \/ paren > 0)

\* peek reads one token ahead and buffers what it was categorized as.
Peek(kind) ==
    /\ CanPeek /\ CanFollow(kind)
    /\ buffer' = <<kind>>
    /\ paren' = ParenAfter(kind)
    /\ UNCHANGED <<cur, prev, indents, comprs, depth, reread, failed>>

\* peek meets a line break: the level is 0 although a parenthesis is open.
PeekLine(n) ==
    /\ CanPeek /\ paren = 0
    /\ BreakLine(n, TRUE)
    /\ UNCHANGED <<cur, prev, paren, comprs, depth, reread, failed>>

\* peek meets a line break before a blank line or a comment line.
PeekBlank ==
    /\ CanPeek /\ paren = 0
    /\ buffer' = Buffered(<<>>, TRUE)
    /\ UNCHANGED <<cur, prev, indents, paren, comprs, depth, reread, failed>>

\* parse_precedence advances over whatever is current.  Where an expression is
\* due and the file has ended that runs off the offsets of the lexer.
ReadPastEnd ==
    /\ cur = "eof" /\ prev \in {"word", "open"} /\ failed = "no"
    /\ failed' = "index"
    /\ UNCHANGED <<cur, prev, buffer, indents, paren, comprs, depth, reread>>

----------------------------------------------------------------------------
(* List comprehensions *)

\* The parser is between two tokens and not behind a peek, which an advance
\* always follows.
Unpeeked ==
    /\ failed = "no"
    /\ buffer # <<>> => Top(buffer) \in {"indent", "dedent"}

\* The scan behind a square bracket asserts that nothing is buffered.
ScanFails ==
    /\ prev = "open" /\ buffer # <<>> /\ Unpeeked
    /\ failed' = "scan"
    /\ UNCHANGED <<cur, prev, buffer, indents, paren, comprs, depth, reread>>

\* The scan finds a `for`, reading the tokens up to it without token_buffer,
\* and leaves the bracket level as it is there; brackets that do not match are
\* not looked at, so that it may be any level.  A scan that finds the end of a
\* literal puts everything back, and one that finds a line break at level 0, or
\* the end of the file, stops the program.
BeginComprehension(level) ==
    /\ prev = "open" /\ buffer = <<>> /\ cur \notin {"newline", "eof"} /\ failed = "no"
    /\ Len(comprs) < MaxComprs
    /\ comprs' = Append(comprs, [first |-> cur, after |-> "none"])
    /\ cur' = "word" /\ prev' = "word"
    /\ paren' = level
    /\ reread' = TRUE
    /\ UNCHANGED <<buffer, indents, depth, failed>>

\* The clauses have been read: the cursor is put back to the element, and the
\* level, the indentation and what is buffered are not.
EndClauses ==
    /\ Unpeeked
    /\ comprs # <<>> /\ Top(comprs).after = "none"
    /\ comprs' = Append(Pop(comprs), [Top(comprs) EXCEPT !.after = cur])
    /\ cur' = Top(comprs).first /\ prev' = "scanned"
    /\ UNCHANGED <<buffer, indents, paren, depth, reread, failed>>

\* The element has been read: the cursor is put behind the clauses.  The text is
\* refused unless a closing bracket is there to be consumed next, so that what
\* was previous to it is not kept.
EndElement ==
    /\ Unpeeked
    /\ comprs # <<>> /\ Top(comprs).after = "close"
    /\ cur' = "close" /\ prev' = "word"
    /\ comprs' = Pop(comprs)
    /\ UNCHANGED <<buffer, indents, paren, depth, reread, failed>>

Next ==
    \/ TakeBuffered
    \/ \E skipped \in BOOLEAN, kind \in RawKinds : ReadToken(skipped, kind)
    \/ \E n \in Levels : ReadLine(n)
    \/ ReadBlank
    \/ \E kind \in RawKinds : Peek(kind)
    \/ \E n \in Levels : PeekLine(n)
    \/ PeekBlank
    \/ ReadPastEnd
    \/ ScanFails
    \/ \E level \in -MaxParen .. MaxParen : BeginComprehension(level)
    \/ EndClauses
    \/ EndElement

Spec == Init /\ [][Next]_vars

----------------------------------------------------------------------------
(* Properties *)

\* The state is of the right type.
TypeOK ==
    /\ cur \in Kinds /\ prev \in Kinds
    /\ buffer \in Seq(BufferedKinds)
    /\ indents \in Seq(Levels)
    /\ paren \in Int
    /\ comprs \in Seq(Comprs)
    /\ depth \in Nat
    /\ reread \in BOOLEAN
    /\ failed \in {"no", "index", "scan"}

\* indent_levels holds the enclosing levels, each deeper than the one around
\* it, and the outermost is never popped: reading num_indents - 1 is safe.
LevelsNested ==
    /\ indents # <<>> /\ indents[1] = 0
    /\ \A i \in 1 .. Len(indents) - 1 : indents[i] < indents[i + 1]

\* No store of advance or peek is past the end of indent_levels or
\* token_buffer, and no program nests more scopes than MAX_SCOPES; none of the
\* three is tested in the code.
SlotsSuffice ==
    /\ Len(indents) <= IndentSlots
    /\ Len(buffer) <= BufferSlots
    /\ depth + 1 <= ScopeSlots

\* The blocks the last line break still owes the parser: the buffer without the
\* token peek has put on top.
Owed == IF buffer = <<>> \/ Top(buffer) \in {"indent", "dedent"} THEN buffer ELSE Pop(buffer)

AllDedents(blocks) == \A i \in DOMAIN blocks : blocks[i] = "dedent"

\* The blocks the grammar has been told of, with those still buffered, are the
\* levels on the stack: each INDENT the parser opens a block on is matched by
\* exactly one DEDENT, also when a line leaves several levels at once, when
\* peek is what meets its line break, and when a comprehension puts the cursor
\* back with blocks still buffered.
BlocksBalanced ==
    \/ Owed = <<>> /\ depth = Len(indents) - 1
    \/ Owed = <<"indent">> /\ depth + 1 = Len(indents) - 1
    \/ Owed # <<>> /\ AllDedents(Owed) /\ depth - Len(Owed) = Len(indents) - 1

\* scan_to_determine_if_comprehension asserts that nothing is buffered when it
\* starts, right behind the bracket, to reread from the cursor alone.  Before
\* the first comprehension the assertion cannot fail: the bracket itself keeps
\* line breaks from being counted.  Once a comprehension has moved the bracket
\* level, it can.
ScanUnbuffered == failed = "scan" => reread
============================================================================
