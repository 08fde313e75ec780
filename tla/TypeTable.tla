----------------------------- MODULE TypeTable -----------------------------
(***************************************************************************)
(* The table of types of src/src/type.c.  A Type is a handle: the index of *)
(* a block of four words in typedata, and a kind.  Types with parts put    *)
(* the parts in the blocks behind their own.  To find out whether a type   *)
(* exists its words are written behind the last block and looked up; when  *)
(* it does, the blocks are given back by rewinding num_typedata, and the   *)
(* words stay as they are.                                                 *)
(***************************************************************************)
EXTENDS Integers, Sequences, FiniteSetsExt

CONSTANTS Limit,        (* bound: blocks of typedata, 2^24 in the code      *)
          PartLimit,    (* bound: the blocks of types that others are of     *)
          FieldLimit,   (* 2^24: a struct's count of fields is below it     *)
          WordLimit,    (* 2^32: sizes and offsets wrap at it               *)
          Basics,       (* the basic kinds that programs name               *)
          Counts,       (* sizes of arrays                                  *)
          ParamLists,   (* lists of basic kinds that functions take         *)
          Returns,      (* basic kinds that they return                     *)
          Flags,        (* the TypeFuncFlags they are declared with         *)
          FieldCounts,  (* numbers of fields                                *)
          Blobs         (* addresses of initializers                        *)

\* Of the 26 TypeKinds, those that the operations speak of.
VOID == 1
STR == 14
RANGE == 15
LIST == 16
ARRAY == 17
PTR == 18
FUNC == 19
STRUCT == 21
NUM_TYPE_KINDS == 26

ASSUME TypeTableAssumption ==
    /\ Limit \in Nat /\ Limit >= NUM_TYPE_KINDS
    /\ PartLimit \in Nat
    /\ FieldLimit \in Nat \ {0}
    /\ WordLimit \in Nat \ {0} /\ WordLimit % 128 = 0
    /\ Basics \subseteq 2..RANGE
    /\ Counts \subseteq Nat \ {0}
    /\ ParamLists \subseteq Seq(Basics)
    /\ Returns \subseteq 1..RANGE
    /\ Flags \subseteq {0, 1, 2, 4}
    /\ FieldCounts \subseteq 1..(FieldLimit - 1)
    /\ Blobs \subseteq Nat \ {0}

VARIABLES typedata,   \* the words, four for each block
          num,        \* num_typedata
          cached,     \* the handles in cached_func_types, cached_ptr_types, ...
          trapped,    \* an ASSERT of type_array or type_new_struct has failed
          made,       \* history: what was asked for, with the handle returned
          reused      \* history: a type was entered over words that a rewound
                      \* one had left and that it did not write itself

vars == <<typedata, num, cached, trapped, made, reused>>

----------------------------------------------------------------------------
(* Handles and words *)

Handle(i, kind) == 256 * i + kind
Index(t) == t \div 256
Kind(t) == t % 256

\* A basic type's block has its kind as index.
Basic(kind) == Handle(kind, kind)

Word(t, w) == typedata[4 * Index(t) + w]

TypeSize(t) == CASE Kind(t) \in {PTR, FUNC} -> 8
                 [] Kind(t) = ARRAY         -> Word(t, 0)
                 [] OTHER                   -> Word(t, 2)

\* type_align, which no caller asks of a function.
TypeAlign(t) == CASE Kind(t) = PTR    -> 8
                  [] Kind(t) = ARRAY  -> Word(t, 1)
                  [] Kind(t) = STRUCT -> (Word(t, 3) \div FieldLimit) % 128
                  [] OTHER            -> Word(t, 3)

\* Kinds 20 and 22 are dictionaries and unions, which nothing makes.
IsAggregate(t) == Kind(t) \in {STR, RANGE, LIST, ARRAY, 20, STRUCT, 22}

----------------------------------------------------------------------------
(* The words of a type, in the order of its blocks.  PTR, LIST and FUNC     *)
(* leave the fourth word of their block as it is.                           *)

AlignUp(n, a) == ((n + a - 1) \div a) * a

\* TFF_HAS_AGGREGATE_ARGS is 8.
StoredFlags(params, ret, flags) ==
    IF \E t \in {ret} \cup {params[i] : i \in DOMAIN params} : IsAggregate(t)
    THEN flags + 8 ELSE flags

FuncWords(params, ret, flags) ==
    <<ret, Len(params), StoredFlags(params, ret, flags), typedata[4 * num + 3]>>
    \o params

\* What a uint32_t keeps of a size.
Wrapped(n) == n % WordLimit

\* Where the first i fields of a struct end, each on its natural alignment, as
\* far as the 32 bits of `size` tell.
FieldEnd(fields) ==
    LET end[i \in 0..Len(fields)] ==
            IF i = 0 THEN 0
            ELSE Wrapped(TypeSize(fields[i])
                         + Wrapped(AlignUp(end[i - 1], TypeAlign(fields[i]))))
    IN  end

\* Mutant: fields are put one behind the other.
FieldOffsetPacked(fields, i) == FieldEnd(fields)[i - 1]

FieldOffset(fields, i) == Wrapped(AlignUp(FieldEnd(fields)[i - 1], TypeAlign(fields[i])))

StructAlign(fields) == Max({TypeAlign(fields[i]) : i \in DOMAIN fields})

StructSize(fields) == Wrapped(AlignUp(FieldEnd(fields)[Len(fields)], StructAlign(fields)))

\* A field is known by its place: struct_statement refuses two of one name.
\* An initializer that is not there is blob 0.
StructWords(name, fields, blob) ==
    LET n == Len(fields)
        field(i) == <<i, 0, fields[i], FieldOffset(fields, i)>>
        bits == (IF blob = 0 THEN 0 ELSE 128) + (StructAlign(fields) % 128)
    IN  <<name, 0, StructSize(fields), bits * FieldLimit + n>>
        \o [k \in 1..(4 * n) |-> field(1 + (k - 1) \div 4)[1 + ((k - 1) % 4)]]
        \o IF blob = 0 THEN <<>> ELSE <<blob, 0>>

\* Mutant: a last block that is not full is forgotten.
FuncBlocksShort(n) == 1 + n \div 4

\* ROUND_UP of base_core.h divides.
FuncBlocks(n) == 1 + (n + 3) \div 4

\* What type_ptr, type_list, type_array and type_function write.
Words(r) ==
    CASE r.kind = PTR   -> <<8, 8, r.sub>>
      [] r.kind = LIST  -> <<16, TypeAlign(r.sub), r.sub>>
      [] r.kind = ARRAY -> <<Wrapped(r.count * TypeSize(r.sub)), TypeAlign(r.sub), r.sub, r.count>>
      [] r.kind = FUNC  -> FuncWords(r.params, r.ret, r.flags)

Blocks(r) == IF r.kind = FUNC THEN FuncBlocks(Len(r.params)) ELSE 1

\* The words by which two types of a kind are compared, which for functions
\* leaves out the one that they do not write, and those that are hashed.
Hashed(r) == 0..(4 * Blocks(r) - 1)
Compared(r) == IF r.kind = FUNC THEN Hashed(r) \ {3} ELSE Hashed(r)

\* typedata once words have been written where the next type goes.
Written(words) ==
    [a \in DOMAIN typedata |->
        IF a - 4 * num \in 0..(Len(words) - 1) THEN words[1 + a - 4 * num]
                                               ELSE typedata[a]]

----------------------------------------------------------------------------
(* Operations *)

\* Size and alignment of the basic types, by kind.
BasicSize(k) == CASE k \in {2, 3, 4}   -> 1
                  [] k \in {5, 6}      -> 2
                  [] k \in {7, 8, 12}  -> 4
                  [] k \in {9, 10, 13} -> 8
                  [] k = STR           -> 16
                  [] k = RANGE         -> 24
                  [] OTHER             -> 0

BasicAlign(k) == CASE k \in {1, 2, 3, 4}    -> 1
                   [] k \in {5, 6}          -> 2
                   [] k \in {7, 8, 12}      -> 4
                   [] k \in {9, 10, 13, STR, RANGE} -> 8
                   [] OTHER                 -> 0

\* type_init.  The other words are those of a static array: zero.
Init ==
    /\ typedata = [a \in 0..(4 * Limit - 1) |->
                      LET k == a \div 4
                      IN  CASE BasicAlign(k) = 0 -> 0
                            [] a % 4 = 0 -> k
                            [] a % 4 = 1 -> 0
                            [] a % 4 = 2 -> BasicSize(k)
                            [] OTHER     -> BasicAlign(k)]
    /\ num = NUM_TYPE_KINDS
    /\ cached = {}
    /\ trapped = FALSE
    /\ made = {}
    /\ reused = FALSE

\* Mutant: a new type is not put in the slot that was found for it.
CachedAfterForgotten(t) == cached

CachedAfter(t) == cached \cup {t}

\* Mutant: the blocks are given back, and one more.
RewoundTwice == num - 1

\* num_typedata when a type was found.
Rewound == num

\* type_ptr, type_list, type_array and type_function: the type is written, and
\* found or entered.  Where two functions differ only in the word that is
\* hashed but not compared, either may be, as their hashes fall.
Intern(r) ==
    LET t == Handle(num, r.kind)
        written == Words(r)
        unwritten == {w \in Hashed(r) : w >= Len(written) \/ w \notin Compared(r)}
        Alike(s, ws) == \A w \in ws : typedata'[4 * Index(s) + w]
                                      = typedata'[4 * num + w]
        peers == {s \in cached : Kind(s) = r.kind}
    IN  /\ ~trapped
        /\ num + Blocks(r) <= Limit
        /\ typedata' = Written(written)
        /\ \/ \E s \in peers :
                /\ Alike(s, Compared(r))
                /\ num' = Rewound
                /\ made' = made \cup {[request |-> r, type |-> s]}
                /\ UNCHANGED <<cached, reused>>
           \/ /\ \A s \in peers : ~Alike(s, Hashed(r))
              /\ num' = num + Blocks(r)
              /\ cached' = CachedAfter(t)
              /\ made' = made \cup {[request |-> r, type |-> t]}
              /\ reused' = (reused \/ \E w \in unwritten : typedata[4 * num + w] # 0)
        /\ UNCHANGED trapped

\* What parse_type may return: functions are not among it.
Nameable == {Basic(k) : k \in Basics}
            \cup {t \in {m.type : m \in made} : Kind(t) # FUNC /\ Index(t) < PartLimit}

Ptr(sub) == Intern([kind |-> PTR, sub |-> sub])

\* parse_type takes a negative count for one above the limit.
Array(sub, count) ==
    \/ count < WordLimit /\ Intern([kind |-> ARRAY, sub |-> sub, count |-> count])
    \/ /\ count >= WordLimit /\ ~trapped
       /\ trapped' = TRUE
       /\ UNCHANGED <<typedata, num, cached, made, reused>>

List(sub) == Intern([kind |-> LIST, sub |-> sub])

Function(params, ret, flags) ==
    Intern([kind |-> FUNC, params |-> params, ret |-> ret, flags |-> flags])

\* IS_POW2 of each field's alignment, and at most 0xff for the struct's.
Alignable(fields) ==
    \A i \in DOMAIN fields : TypeAlign(fields[i]) \in {1, 2, 4, 8, 16, 32, 64, 128}

\* The statement "struct": type_new_struct, and the initializer's address when
\* a field has one.  Every struct is a type of its own.
Struct(name, fields, blob) ==
    LET blocks == 1 + Len(fields) + (IF blob = 0 THEN 0 ELSE 1)
        t == Handle(num, STRUCT)
        request == [kind |-> STRUCT, name |-> name, fields |-> fields, blob |-> blob]
    IN  /\ ~trapped
        /\ num + blocks <= Limit
        /\ \/ /\ Alignable(fields)
              /\ typedata' = Written(StructWords(name, fields, blob))
              /\ num' = num + blocks
              /\ made' = made \cup {[request |-> request, type |-> t]}
              /\ UNCHANGED trapped
           \/ /\ ~Alignable(fields)
              /\ trapped' = TRUE
              /\ UNCHANGED <<typedata, num, made>>
        /\ UNCHANGED <<cached, reused>>

Next ==
    \/ \E sub \in Nameable \cup {Basic(VOID)} : Ptr(sub)
    \/ \E sub \in Nameable, count \in Counts : Array(sub, count)
    \/ \E sub \in Nameable : List(sub)
    \/ \E flags \in Flags, ret \in {Basic(k) : k \in Returns} :
          \/ \E kinds \in ParamLists :
                Function([i \in DOMAIN kinds |-> Basic(kinds[i])], ret, flags)
          \/ \E t \in Nameable : Function(<<t>>, ret, flags)
    \/ \E n \in FieldCounts, blob \in Blobs \cup {0} :
          \E fields \in [1..n -> Nameable] : Struct(n, fields, blob)

Spec == Init /\ [][Next]_vars

----------------------------------------------------------------------------
(* What a handle says: the accessors of type.c. *)

FieldCount(t) == Word(t, 3) % FieldLimit

HasInitializer(t) == Word(t, 3) \div FieldLimit >= 128

Described(t) ==
    CASE Kind(t) \in {PTR, LIST} ->
           [kind |-> Kind(t), sub |-> Word(t, 2)]
      [] Kind(t) = ARRAY ->
           [kind |-> ARRAY, sub |-> Word(t, 2), count |-> Word(t, 3)]
      [] Kind(t) = FUNC ->
           [kind |-> FUNC, params |-> [i \in 1..Word(t, 1) |-> Word(t, 3 + i)],
            ret |-> Word(t, 0), flags |-> Word(t, 2) % 8]
      [] Kind(t) = STRUCT ->
           [kind |-> STRUCT, name |-> Word(t, 0),
            fields |-> [i \in 1..FieldCount(t) |-> Word(t, 4 * i + 2)],
            blob |-> IF HasInitializer(t) THEN Word(t, 4 * FieldCount(t) + 4) ELSE 0]

----------------------------------------------------------------------------
(* Properties *)

\* Words are numbers, and every type that can be found has its block below
\* num_typedata, where the next type is not written over it.
TypeOK ==
    /\ typedata \in [0..(4 * Limit - 1) -> Nat]
    /\ num \in NUM_TYPE_KINDS..Limit
    /\ \A t \in cached : /\ Index(t) \in NUM_TYPE_KINDS..(num - 1)
                         /\ Kind(t) \in {LIST, ARRAY, PTR, FUNC}
    /\ trapped \in BOOLEAN
    /\ reused \in BOOLEAN

\* A handle goes on meaning what was asked for when it was returned: no later
\* type, found or new, writes over its blocks.
HandlesKeepMeaning == \A m \in made : Described(m.type) = m.request

\* "The dict is only a set of intern'd Type": whoever asks twice for a type gets
\* one handle, so that type_eq may compare handles.
InternedOnce ==
    \A m, n \in made : m.request = n.request /\ m.request.kind # STRUCT
                       => m.type = n.type

\* That is so of arrays, which write every word of their block, and of the
\* others as long as no type has been entered over words left by another.
InternedUnlessReused ==
    \A m, n \in made :
        /\ m.request = n.request
        /\ m.request.kind # STRUCT
        /\ m.request.kind = ARRAY \/ ~reused
        => m.type = n.type

Measures(fields) ==
    [i \in 1..Len(fields) |-> [size |-> TypeSize(fields[i]), align |-> TypeAlign(fields[i])]]

\* Where the fields would end in numbers of any width.
ExactEnd(parts) ==
    LET end[i \in 0..Len(parts)] ==
            IF i = 0 THEN 0
            ELSE parts[i].size + AlignUp(end[i - 1], parts[i].align)
    IN  end

Fits(fields) ==
    AlignUp(ExactEnd(Measures(fields))[Len(fields)], StructAlign(fields)) < WordLimit

\* The fields lie behind one another inside the struct, each on a multiple of
\* its alignment, and stay so in an array of the struct.
LaidOut(t, fields) ==
    LET offset(i) == Word(t, 4 * i + 3)
        end(i) == offset(i) + TypeSize(fields[i])
    IN  \A i \in DOMAIN fields :
          /\ offset(i) % TypeAlign(fields[i]) = 0
          /\ TypeSize(t) % TypeAlign(fields[i]) = 0
          /\ end(i) <= TypeSize(t)
          /\ \A j \in 1..(i - 1) : end(j) <= offset(i)

\* The fields of a struct are laid out for as long as they and their padding fit
\* in 32 bits, and no longer: type_new_struct does not look whether they do,
\* and a struct whose size has wrapped has fields outside it or on one another.
FieldsLaidOut ==
    \A m \in made : m.request.kind = STRUCT =>
        (LaidOut(m.type, m.request.fields) <=> Fits(m.request.fields))
============================================================================
