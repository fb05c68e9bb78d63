--------------------------- MODULE MCKernelRewriting ---------------------------
(* Two global buffers (A has rows), two shared ones, a fragment of each extent  *)
(* and an index buffer.  A body loads a buffer, does two arbitrary things,      *)
(* loads another buffer and uses it, inside a pipelined loop of a kernel.       *)
(* In the kernels of MCKernels no index buffer has two names.                   *)
EXTENDS KernelRewriting

Assign(target, value) == [Statement EXCEPT !.kind = "assign", !.args = <<target, value>>]
AssignCall(target, op, args) ==
  [Statement EXCEPT !.kind = "assign", !.op = op, !.args = <<target>> \o args]
Return(value) == [Statement EXCEPT !.kind = "return", !.args = <<value>>]
Glued(s) == [s EXCEPT !.glued = TRUE]

\* Statements with statements below them, before these have numbers.
If(test, body, orelse) ==
  [Statement EXCEPT !.kind = "if", !.args = <<test>>, !.body = body, !.orelse = orelse]
For(var, iterator, extent, body) ==
  [Statement EXCEPT !.kind = "for", !.op = iterator, !.args = <<Name(var), Name(extent)>>,
                    !.body = body]
While(test, body) == [Statement EXCEPT !.kind = "while", !.args = <<test>>, !.body = body]
With(context, body) == [Statement EXCEPT !.kind = "with", !.op = context, !.body = body]

\* The table of a list of statements that is numbered from `first` on.
RECURSIVE Table(_, _)
Table(list, first) ==
  IF list = <<>> THEN [numbers |-> <<>>, node |-> <<>>]
  ELSE LET s == Head(list)
           body == Table(s.body, first + 1)
           orelse == Table(s.orelse, first + 1 + Len(body.node))
           head == <<[s EXCEPT !.body = body.numbers, !.orelse = orelse.numbers]>>
                   \o body.node \o orelse.node
           rest == Table(Tail(list), first + Len(head))
       IN [numbers |-> <<first>> \o rest.numbers, node |-> head \o rest.node]

Function(list) ==
  LET table == Table(list, 2)
  IN [decorated |-> TRUE, async |-> FALSE, shadow |-> "none",
      node |-> <<[Statement EXCEPT !.kind = "body", !.body = table.numbers]>> \o table.node]

MCRank == [b \in {"A", "B", "S1", "S2", "F", "G", "L"} |-> IF b = "A" THEN 2 ELSE 1]
MCExtent == [b \in DOMAIN MCRank |-> IF b = "G" THEN "M" ELSE "N"]
MCSize == [e \in {"N", "M"} |-> IF e = "N" THEN 2 ELSE 1]

k == Name("k")
i == Name("i")
LoadA(shared) == Call("copy", <<Slice("A", <<k>>, "N"), Name(shared)>>)
LoadIndexed == Call("copy", <<Slice("A", <<Element("L", <<Numeral("0")>>)>>, "N"), Name("S2")>>)
LoadB(shared) == Call("copy", <<Slice("B", <<>>, "N"), Name(shared)>>)
LoopA(shared) == For("i", "Parallel", "N", <<Assign(Element(shared, <<i>>), Element("A", <<k, i>>))>>)
ShortLoop == For("i", "Parallel", "M", <<Assign(Element("S1", <<i>>), Element("B", <<i>>))>>)
Diagonal == For("i", "Parallel", "N", <<Assign(Element("S2", <<i>>), Element("A", <<i, i>>))>>)
ToFragment == For("i", "Parallel", "N", <<Assign(Element("F", <<i>>), Element("B", <<i>>))>>)
ToShort == For("i", "Parallel", "M", <<Assign(Element("G", <<i>>), Element("B", <<i>>))>>)
Gemm(a) == Call("gemm", <<Name("S1"), Name(a), Name("F")>>)
Next1 == Assign(k, Numeral("1"))
SetIndex == Assign(Element("L", <<Numeral("0")>>), Numeral("1"))

Between ==
  {Call("clear", <<Name("F")>>), Glued(Call("clear", <<Name("F")>>)), Gemm("S1"), Gemm("S2"),
   Next1, Assign(k, Name("t")), SetIndex, Call("sync_threads", <<>>), Call("custom", <<k>>),
   Call("copy", <<Name("F"), Slice("A", <<k>>, "N")>>), Call("copy", <<Name("F"), Slice("B", <<>>, "N")>>),
   Call("clear", <<Name("S2")>>), Call("reduce_sum", <<Name("S2"), Name("F")>>),
   If(k, <<Next1>>, <<>>), If(k, <<LoadA("S1"), Gemm("S1")>>, <<Next1>>), If(k, <<Return(k)>>, <<>>),
   For("j", "serial", "N", <<Gemm("S1"), Assign(k, Name("j"))>>), LoopA("S1"), ToFragment,
   Assign(Name("P"), Name("S2")), AssignCall(Name("P"), "some_view", <<Name("S2")>>),
   AssignCall(Name("S2"), "alloc_shared", <<>>)}

Loads == {LoadA("S2"), Glued(LoadA("S2")), LoadIndexed, LoadB("S2"), LoopA("S2"), Diagonal}

Kernel(list, iterator) == <<With("Kernel", <<For("t", iterator, "N", list)>>)>>
Pipelined(list) == Kernel(list, "Pipelined")

Flat == {<<LoadA("S1"), x, y, load, Gemm("S2")>> : x \in Between, y \in Between, load \in Loads}
Short == {<<first, x, load, use>> : first \in {LoadB("S1"), LoopA("S1")}, x \in Between,
          load \in Loads, use \in {Gemm("S2"), Glued(Gemm("S2"))}}
Loops == {<<ShortLoop, ToShort>>, <<Diagonal, LoopA("S2")>>, <<ToFragment, While(k, <<LoopA("S1")>>)>>}
\* An alias of S2 that the crossed statement goes through.
Aliased == {<<LoadB("S1"), Assign(Name("P"), value), Call("clear", <<Name("P")>>), load, Gemm("S2")>>
            : value \in {Name("S2"), Name("F")}, load \in Loads}

(* An index buffer under two names: `P = L` makes P another name of L.         *)
MCAliasedIndex ==
  {Function(Pipelined(<<LoadB("S1"), Assign(Name("P"), Name("L")), x, load, Gemm("S2")>>))
     : x \in Between \cup {Assign(Element("P", <<Numeral("0")>>), Numeral("1"))}, load \in Loads}

MCKernels ==
  {Function(Pipelined(list)) : list \in Flat \cup Short \cup Loops \cup Aliased}
  \cup {Function(Kernel(list, "range")) : list \in Short}
  \cup {Function(Pipelined(list \o <<[Statement EXCEPT !.kind = "def"]>>)) : list \in Short}
  \cup {[Function(Pipelined(list)) EXCEPT !.shadow = s] : list \in Short, s \in {"module", "outer", "own"}}
  \cup {[Function(Pipelined(list)) EXCEPT !.async = TRUE] : list \in Short}
  \cup {[Function(Pipelined(list)) EXCEPT !.decorated = FALSE] : list \in Short}

(* Where the theorem about the kernels asks for more, both kinds of rewriting    *)
(* still happen.                                                                *)
ASSUME \E f, g \in MCKernels : /\ Unaliased(f.node) /\ FindPrefetchLoads(f) # {}
                               /\ Unaliased(g.node) /\ FindCopyLoops(g) # {}
================================================================================
