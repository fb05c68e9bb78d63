---------------------------- MODULE KernelLanguage ----------------------------
(* The part of TileLang that the rewriting of source_optimizer reads: the      *)
(* statements of one prim_func and what they do to buffers and scalars, as far *)
(* as load_schedule.py, analyzer.py and their tests use them.                  *)
(*                                                                             *)
(* A function is a table of statements, its first one the function's body; the *)
(* lists body and orelse hold the numbers of statements further down in the    *)
(* table.  `glued` says that a statement shares its source line with the one   *)
(* before it (a ";", or the one-line body of a block).                         *)
EXTENDS Integers, Sequences, FiniteSets, SequencesExt

CONSTANTS Globals,     \* parameters annotated T.Tensor or T.Buffer
          Shared,      \* names bound to T.alloc_shared
          Fragments,   \* names bound to T.alloc_fragment or T.alloc_local
          Scalars,     \* index names and loop variables
          Views,       \* further names, bound to a buffer by an assignment
          Indices,     \* the fragments that hold indices
          Rank,        \* of every buffer: 1 or 2
          Extent,      \* the expression of its last dimension
          Size         \* the number each extent expression stands for

Buffers == Globals \cup Shared \cup Fragments
Names == Buffers \cup Scalars \cup Views
Fresh == "fresh"       \* the storage of a buffer that is allocated once more
Cells == Names \cup {Fresh}
Rows == 0..1
Numerals == {"0", "1"}

ASSUME KernelAssumption ==
  /\ Indices \subseteq Fragments /\ Buffers \cap (Scalars \cup Views) = {}
  /\ Globals \cap Shared = {} /\ Scalars \cap Views = {} /\ Shared # {}
  /\ Rank \in [Buffers -> 1..2] /\ Extent \in [Buffers -> DOMAIN Size]
  /\ Size \in [DOMAIN Size -> Nat]
  /\ Fresh \notin Names /\ Numerals \cap Names = {}

(* -- Syntax ----------------------------------------------------------------- *)
Name(n) == [form |-> "name", root |-> n, idx |-> <<>>, ext |-> "none"]
Numeral(n) == [form |-> "const", root |-> n, idx |-> <<>>, ext |-> "none"]
Element(n, idx) == [form |-> "elem", root |-> n, idx |-> idx, ext |-> "none"]
Slice(n, idx, ext) == [form |-> "slice", root |-> n, idx |-> idx, ext |-> ext]

\* An index is a number, a scalar, or an element of a buffer at such indices.
Atoms == [form : {"const"}, root : Numerals, idx : {<<>>}, ext : {"none"}]
         \cup [form : {"name"}, root : Scalars, idx : {<<>>}, ext : {"none"}]
IndexTerms ==
  Atoms \cup [form : {"elem"}, root : Buffers \cup Views, idx : Seq(Atoms), ext : {"none"}]
Expressions ==
  Atoms \cup [form : {"name"}, root : Buffers \cup Views, idx : {<<>>}, ext : {"none"}]
        \cup [form : {"elem"}, root : Buffers \cup Views, idx : Seq(IndexTerms), ext : {"none"}]
        \cup [form : {"slice"}, root : Buffers \cup Views, idx : Seq(IndexTerms), ext : DOMAIN Size]

Statement == [kind |-> "pass", op |-> "none", args |-> <<>>, body |-> <<>>,
              orelse |-> <<>>, glued |-> FALSE]
Call(op, args) == [Statement EXCEPT !.kind = "call", !.op = op, !.args = args]
Below(s) == ToSet(s.body) \cup ToSet(s.orelse)

\* A scalar is assigned numbers and a view buffers; a loop counts in a scalar.
WellFormedStatement(node, s) ==
  LET x == node[s]
      target == x.args[1]
  IN /\ x = [kind |-> x.kind, op |-> x.op, args |-> x.args, body |-> x.body,
              orelse |-> x.orelse, glued |-> x.glued]
     /\ x.body \in Seq((s + 1)..Len(node)) /\ x.orelse \in Seq((s + 1)..Len(node))
     /\ x.kind # "for" => x.args \in Seq(Expressions)
     /\ x.kind \in {"if", "while"} => Len(x.args) = 1
     /\ x.kind = "for" =>
          \E var \in Scalars, ext \in DOMAIN Size : x.args = <<Name(var), Name(ext)>>
     /\ x.kind = "assign" =>
          /\ Len(x.args) > 0 /\ (x.op = "none" => Len(x.args) = 2)
          /\ x.op = "alloc_shared" => target.form = "name"
          /\ target.form = "name" /\ target.root \in Buffers => x.op = "alloc_shared"
          /\ x.op = "none" /\ target.form = "name" =>
               (target.root \in Scalars <=> x.args[2].form # "name" \/ x.args[2].root \in Scalars)
WellFormed(node) ==
  node # <<>> /\ node = [s \in 1..Len(node) |-> node[s]] /\ Len(node) \in Nat
  /\ \A s \in DOMAIN node : WellFormedStatement(node, s)

(* -- Meaning ---------------------------------------------------------------- *)
(* Values are tagged tuples; a buffer is a function from index tuples.         *)
Whole(n) == <<"int", n>>
Columns(ext) == 0..(Size[ext] - 1)
IndexTuples(b) == IF Rank[b] = 1 THEN {<<j>> : j \in Columns(Extent[b])}
                  ELSE {<<r, j>> : r \in Rows, j \in Columns(Extent[b])}
InitialValue(n) ==
  IF n \in Buffers THEN [x \in IndexTuples(n) |-> IF n \in Indices THEN Whole(0)
                                                  ELSE <<"initial", n, x>>]
  ELSE Whole(0)

\* env: which storage a name stands for; outer: what the variables of the loops
\* around had been before; trace: what others can see happen in order; opaque: T is
\* not TileLang in this function.
InitialState(opaque) ==
  [env |-> [n \in Names |-> n],
   mem |-> [c \in Cells |-> InitialValue(IF c = Fresh THEN CHOOSE b \in Shared : TRUE ELSE c)],
   outer |-> <<>>, trace |-> <<>>, live |-> TRUE, opaque |-> opaque]

Content(st, n) == st.mem[st.env[n]]
At(array, x) == IF x \in DOMAIN array THEN array[x] ELSE <<"outside">>
Number(v) == IF v[1] = "int" THEN v[2] ELSE -1

AtomValue(st, a) ==
  IF a.form = "const" THEN Whole(IF a.root = "0" THEN 0 ELSE 1) ELSE Content(st, a.root)
IndexValue(st, e) ==
  IF e.form = "elem"
    THEN At(Content(st, e.root), [i \in DOMAIN e.idx |-> Number(AtomValue(st, e.idx[i]))])
  ELSE AtomValue(st, e)
Position(st, e) == [i \in DOMAIN e.idx |-> Number(IndexValue(st, e.idx[i]))]
ValueOf(st, e) ==
  CASE e.form = "elem" -> At(Content(st, e.root), Position(st, e))
    [] e.form = "slice" -> [y \in {<<j>> : j \in Columns(e.ext)} |->
                              At(Content(st, e.root), Position(st, e) \o y)]
    [] OTHER -> AtomValue(st, e)

Store(st, cell, value) == [st EXCEPT !.mem[cell] = value]
\* A bulk operation on a destination of another shape has no defined result.
Stored(st, e, value, y) ==
  LET array == Content(st, e.root)
  IN CASE e.form = "elem" -> IF y = Position(st, e) THEN value ELSE array[y]
       [] e.form = "slice" ->
            IF Front(y) = Position(st, e) THEN At(value, <<Last(y)>>) ELSE array[y]
       [] OTHER -> IF DOMAIN value = DOMAIN array THEN value[y] ELSE <<"mismatch">>
StoreTo(st, e, value) ==
  IF e.form = "const" THEN st
  ELSE Store(st, st.env[e.root], [y \in DOMAIN Content(st, e.root) |-> Stored(st, e, value, y)])

Observe(st, event) == [st EXCEPT !.trace = Append(@, <<event, st.mem>>)]
\* A call nobody knows: it sees everything and may change every buffer.
Unknown(st) ==
  [Observe(st, "call") EXCEPT !.mem = [c \in DOMAIN st.mem |->
     IF c \in Scalars \cup Views THEN st.mem[c]
     ELSE [x \in DOMAIN st.mem[c] |-> <<"called", Len(st.trace), st.mem[c][x]>>]]]

Barriers == {"sync_threads", "barrier", "async_wait"}
ValueCalls == {"ceildiv", "max", "if_then_else", "Parallel", "Pipelined", "serial"}
Arity == [copy |-> 2, clear |-> 1, reduce_sum |-> 2, gemm |-> 3]

\* What a bulk operation writes to its last operand.
BulkValue(st, op, args) ==
  LET value(i) == ValueOf(st, args[i])
  IN CASE op = "copy" -> value(1)
       [] op = "clear" -> [x \in DOMAIN value(1) |-> <<"zero">>]
       [] op = "reduce_sum" -> [x \in DOMAIN value(2) |-> <<"sum", value(1)>>]
       [] OTHER -> [x \in DOMAIN value(3) |-> <<"gemm", value(3)[x], value(1), value(2)>>]

RunCall(st, op, args) ==
  CASE ~st.opaque /\ op \in DOMAIN Arity /\ Len(args) >= Arity[op] ->
         StoreTo(st, args[Arity[op]], BulkValue(st, op, args))
    [] ~st.opaque /\ op \in Barriers -> Observe(st, "barrier")
    [] ~st.opaque /\ op \in ValueCalls -> st
    [] OTHER -> Unknown(st)

\* A number is stored; a name bound to a buffer, or to what a call makes of it, is
\* another name of its storage.
Bind(st, n, value) == Store([st EXCEPT !.env[n] = n], n, value)
Alias(st, n, e) ==
  IF e.form = "name" /\ e.root \notin Scalars THEN [st EXCEPT !.env[n] = st.env[e.root]] ELSE st
RunAssign(st, op, args) ==
  LET target == args[1]
      known == op = "none" \/ (op \in ValueCalls /\ ~st.opaque)
      value == CASE op = "none" -> ValueOf(st, args[2])
                 [] op # "none" /\ known -> <<op, [i \in 2..Len(args) |-> ValueOf(st, args[i])]>>
                 [] OTHER -> <<"result", Len(st.trace)>>
      now == IF known THEN st ELSE Unknown(st)
  IN CASE op = "alloc_shared" /\ ~st.opaque -> [st EXCEPT !.env[target.root] = Fresh]
       [] target.form = "name" /\ target.root \in Views /\ Len(args) > 1 ->
            Alias(now, target.root, args[2])
       [] target.form = "name" /\ target.root \in Scalars -> Bind(now, target.root, value)
       [] OTHER -> StoreTo(now, target, value)

(* -- The steps of a function ------------------------------------------------- *)
(* Which statements run does not depend on values once the outcome of every    *)
(* test is given, so a function is a sequence of acts and a run carries them    *)
(* out one after the other.  A loop variable has its value inside the loop only.*)
Act(do, s, turn) == [do |-> do, op |-> s.op, args |-> s.args, turn |-> turn]

Do(st, act) ==
  LET var == act.args[1].root
  IN CASE ~st.live -> st
       [] st.live /\ act.do = "call" -> RunCall(st, act.op, act.args)
       [] st.live /\ act.do = "assign" -> RunAssign(st, act.op, act.args)
       [] st.live /\ act.do = "test" ->
            [st EXCEPT !.trace = Append(@, <<"test", ValueOf(st, act.args[1])>>)]
       [] st.live /\ act.do = "enter" ->
            [IF st.opaque THEN Unknown(st) ELSE st EXCEPT !.outer = <<st.mem[var], st.outer>>]
       [] st.live /\ act.do = "turn" -> Bind(st, var, Whole(act.turn))
       [] st.live /\ act.do = "leave" ->
            [Bind(st, var, st.outer[1]) EXCEPT !.outer = st.outer[2]]
       [] st.live /\ act.do = "return" -> [Observe(st, "return") EXCEPT !.live = FALSE]

After(st, acts) ==
  LET run[n \in 0..Len(acts)] == IF n = 0 THEN st ELSE Do(run[n - 1], acts[n])
  IN run[Len(acts)]

\* A while loop whose test holds is gone through twice.
Opening(s) ==
  CASE s.kind \in {"call", "assign", "return"} -> <<Act(s.kind, s, 0)>>
    [] s.kind = "if" -> <<Act("test", s, 0)>>
    [] s.kind = "for" -> <<Act("enter", s, 0)>>
    [] OTHER -> <<>>
Turns(s) ==
  CASE s.kind \in {"body", "with", "if"} -> 1
    [] s.kind = "while" -> 2
    [] s.kind = "for" -> Size[s.args[2].root]
    [] OTHER -> 0
TurnOpening(s, n) ==
  CASE s.kind = "for" -> <<Act("turn", s, n - 1)>>
    [] s.kind = "while" -> <<Act("test", s, 0)>>
    [] OTHER -> <<>>
Closing(s) ==
  CASE s.kind = "for" -> <<Act("leave", s, 0)>>
    [] s.kind = "while" -> <<Act("test", s, 0)>>
    [] OTHER -> <<>>

\* The outcome of the test of every `if`.
Outcomes(node) == [{s \in DOMAIN node : node[s].kind = "if"} -> BOOLEAN]
Chosen(node, taken, s) ==
  IF node[s].kind = "if" /\ ~taken[s] THEN node[s].orelse ELSE node[s].body

\* A statement around the acts of the statements it chose.
Around(s, parts) ==
  LET inner == FlattenSeq(parts)
  IN Opening(s) \o FlattenSeq([n \in 1..Turns(s) |-> TurnOpening(s, n) \o inner]) \o Closing(s)
Code(node, taken) ==
  LET code[s \in DOMAIN node] ==
        Around(node[s], [j \in DOMAIN Chosen(node, taken, s) |-> code[Chosen(node, taken, s)[j]]])
  IN code

\* What a function does: its memory and what others saw, for all outcomes of its tests.
Meaning(node, opaque) ==
  [taken \in Outcomes(node) |->
     LET end == After(InitialState(opaque), Code(node, taken)[1])
     IN <<end.mem, end.trace>>]
===============================================================================
