---------------------------- MODULE KernelRewriting ----------------------------
(* The two source rewrites of source_optimizer: analyzer.py finds elementwise   *)
(* copy loops and replaces them by T.copy, load_schedule.py finds loads from    *)
(* global to shared memory that may move up to the load before them.  Each      *)
(* round analyses the source anew and applies one of the targets it found.      *)
(*                                                                              *)
(* A target is given by the rewritten source.  Hashes, identifiers, columns and *)
(* the text of expressions are left out; that a rewrite works on whole source   *)
(* lines is kept.  A list is a list of numbers of statements in the table node. *)
EXTENDS KernelLanguage

CONSTANT Kernels         \* the functions the optimisation may be given

VARIABLES kernel,        \* the function in the current source
          original       \* history: the function it started from

vars == <<kernel, original>>

(* -- load_schedule.py: effects of statements -------------------------------- *)
PureCalls == {"ceildiv", "max", "if_then_else"}
LoopCalls == {"Parallel", "Pipelined", "serial"}
SyncCalls == {"sync_threads", "barrier", "async_wait"}

NoEffects == [reads |-> {}, writes |-> {}, unknown |-> FALSE, sync |-> FALSE, unsupported |-> FALSE]
Merged(effects) == [reads |-> UNION {e.reads : e \in effects},
                    writes |-> UNION {e.writes : e \in effects},
                    unknown |-> \E e \in effects : e.unknown,
                    sync |-> \E e \in effects : e.sync,
                    unsupported |-> \E e \in effects : e.unsupported]

ReadAtom(a) == IF a.form = "const" THEN {} ELSE {a.root}
ReadIndex(e) == ReadAtom(e) \cup UNION {ReadAtom(a) : a \in ToSet(e.idx)}
ReadIndices(e) == UNION {ReadIndex(x) : x \in ToSet(e.idx)}
ReadExpression(e) == ReadAtom(e) \cup ReadIndices(e)
ReadAll(args, at) == UNION {ReadExpression(args[i]) : i \in at}
WriteTarget(e) ==
  [NoEffects EXCEPT !.writes = ReadAtom(e), !.reads = ReadIndices(e),
                    !.unsupported = e.form = "const"]

\* A call as a value: in an assignment, never of a buffer operation.
ReadCall(op, args) ==
  [NoEffects EXCEPT !.sync = op \in SyncCalls,
                    !.unknown = op \notin SyncCalls \cup PureCalls \cup LoopCalls,
                    !.reads = ReadAll(args, DOMAIN args)]

ReadPositions(op, args) ==
  CASE op \in {"copy", "reduce_sum"} -> {1}
    [] op = "clear" -> DOMAIN args \ {1}
    [] op = "gemm" -> {1, 2}
    [] OTHER -> DOMAIN args
WritePositions(op) ==
  CASE op \in {"copy", "reduce_sum"} -> {2}
    [] op = "clear" -> {1}
    [] op = "gemm" -> {3}
    [] OTHER -> {}

CallEffects(op, args) ==
  LET read == ReadPositions(op, args)
      write == WritePositions(op)
  IN IF op \in SyncCalls THEN [NoEffects EXCEPT !.sync = TRUE]
     ELSE IF op \notin {"copy", "clear", "reduce_sum", "gemm"} \cup PureCalls
             \/ ~((read \cup write) \subseteq DOMAIN args)
       THEN [NoEffects EXCEPT !.unknown = TRUE]
     ELSE Merged({[NoEffects EXCEPT !.reads = ReadAll(args, read)]}
                 \cup {WriteTarget(args[i]) : i \in write})

\* What a statement does without the statements below it.
OwnEffects(s) ==
  LET reads(at) == [NoEffects EXCEPT !.reads = ReadAll(s.args, at)]
  IN CASE s.kind = "pass" -> NoEffects
       [] s.kind = "assign" ->
            Merged({WriteTarget(s.args[1]),
                    IF s.op = "none" THEN reads({2}) ELSE ReadCall(s.op, Tail(s.args))})
       [] s.kind = "call" -> CallEffects(s.op, s.args)
       [] s.kind = "if" -> reads({1})
       [] s.kind = "for" /\ s.op \in LoopCalls -> Merged({reads({2}), WriteTarget(s.args[1])})
       [] OTHER -> [NoEffects EXCEPT !.unsupported = TRUE]

\* The statements below an unsupported one are not looked at.
WithBelow(own, below) == IF own.unsupported THEN own ELSE Merged({own} \cup below)
StatementEffects(node) ==
  LET effects[s \in DOMAIN node] ==
        WithBelow(OwnEffects(node[s]), {effects[child] : child \in Below(node[s])})
  IN effects

Opaque(effects) == effects.unknown \/ effects.sync \/ effects.unsupported

(* -- load_schedule.py: aliases of buffers ------------------------------------ *)
TrackedBuffers == Globals \cup Shared
BareBuffer(e) == e.form \in {"name", "slice"} /\ e.root \in TrackedBuffers
KnownBufferCalls == {"clear", "copy", "gemm", "reduce_sum"}

\* Every shared buffer is allocated once before the body this module looks at, so
\* that an allocation in it is a second one.
HasBufferAliasing(node) ==
  \E s \in ToSet(node) :
    LET values == IF s.kind = "assign" THEN ToSet(Tail(s.args)) ELSE ToSet(s.args)
    IN \/ s.kind = "assign" /\ s.args[1].form = "name" /\ s.args[1].root \in TrackedBuffers
       \/ s.kind \in {"assign", "return"} /\ \E e \in values : BareBuffer(e)
       \/ s.kind = "call" /\ s.op \notin KnownBufferCalls /\ \E e \in values : BareBuffer(e)

(* -- load_schedule.py: loads that may move up -------------------------------- *)
IsGlobalToSharedCopy(s) ==
  /\ s.kind = "call" /\ s.op = "copy" /\ Len(s.args) = 2
  /\ s.args[1].root \in Globals
  /\ s.args[2].form = "name" /\ s.args[2].root \in Shared

\* The lines of a statement hold no other statement of the list.
IsIsolated(node, list, i) ==
  ~node[list[i]].glued /\ (i < Len(list) => ~node[list[i + 1]].glued)

PriorCopies(node, list, i) == {j \in 1..(i - 1) : IsGlobalToSharedCopy(node[list[j]])}
Dependencies(load) == ReadExpression(load.args[1]) \ {load.args[1].root}

(* Mutant: the load moves before the load before it. *)
InsertionIndexBeforePrior(node, list, i) == Max(PriorCopies(node, list, i))

\* After the load before it, and after every statement that writes what it depends on.
InsertionIndex(node, list, i) ==
  LET effects == StatementEffects(node)
      prior == Max(PriorCopies(node, list, i))
      writers == {j \in (prior + 1)..(i - 1) :
                    effects[list[j]].writes \cap Dependencies(node[list[i]]) # {}}
  IN Max(writers \cup {prior}) + 1

(* Mutant: a read of the destination may be crossed. *)
MayCrossReaders(load, effects) ==
  /\ ~Opaque(effects) /\ effects.writes \cap Globals = {}
  /\ load.args[2].root \notin effects.writes
  /\ effects.writes \cap Dependencies(load) = {}

MayCross(load, effects) ==
  LET destination == load.args[2].root
  IN /\ ~Opaque(effects)
     /\ effects.writes \cap Globals = {}
     /\ destination \notin effects.reads \cup effects.writes
     /\ effects.writes \cap Dependencies(load) = {}

DestinationIsConsumed(node, list, destination) ==
  LET effects == StatementEffects(node)
      stops(s) == Opaque(effects[s]) \/ destination \in effects[s].writes
  IN \E i \in DOMAIN list :
       /\ destination \in effects[list[i]].reads /\ ~stops(list[i])
       /\ \A j \in 1..(i - 1) : ~stops(list[j]) /\ destination \notin effects[list[j]].reads

PrefetchTargets(node, list) ==
  {i \in DOMAIN list :
     LET load == node[list[i]]
         before == InsertionIndex(node, list, i)
     IN /\ IsGlobalToSharedCopy(load)
        /\ IsIsolated(node, list, i)
        /\ PriorCopies(node, list, i) # {}
        /\ before < i
        /\ \A j \in before..(i - 1) : MayCross(load, StatementEffects(node)[list[j]])
        /\ ~node[list[before]].glued
        /\ DestinationIsConsumed(node, SubSeq(list, i + 1, Len(list)), load.args[2].root)}

\* The lines of the load move, with every statement that shares them.
LineStart(node, list, i) == Max({j \in 1..i : j = 1 \/ ~node[list[j]].glued})
LineEnd(node, list, i) ==
  Max({j \in i..Len(list) : \A n \in (i + 1)..j : node[list[n]].glued})
MoveLines(node, list, i, before) ==
  LET first == LineStart(node, list, i)
      last == LineEnd(node, list, i)
      to == LineStart(node, list, before)
  IN SubSeq(list, 1, to - 1) \o SubSeq(list, first, last)
     \o SubSeq(list, to, first - 1) \o SubSeq(list, last + 1, Len(list))

\* The blocks the search for loads looks into.
IsSearched(s) == \/ s.kind = "if"
                 \/ s.kind = "for" /\ s.op \in LoopCalls
                 \/ s.kind = "with" /\ s.op = "Kernel"
Searched(node) ==
  LET blocks[s \in DOMAIN node] ==
        {s} \cup UNION {blocks[child] : child \in {c \in Below(node[s]) : IsSearched(node[c])}}
  IN blocks[1]

PrefetchRewrites(node) ==
  LET moved(list, i) == MoveLines(node, list, i, InsertionIndex(node, list, i))
  IN UNION {{[node EXCEPT ![s].body = moved(@, i)] : i \in PrefetchTargets(node, node[s].body)}
            \cup {[node EXCEPT ![s].orelse = moved(@, i)] :
                    i \in PrefetchTargets(node, node[s].orelse)}
            : s \in Searched(node) \cap DOMAIN node}

(* -- analyzer.py: elementwise copy loops ------------------------------------- *)
\* Rank and last dimension, as written where the buffer is declared.
AllocExtents == [b \in (Shared \cup Fragments) \ Indices |-> <<Rank[b], Extent[b]>>]
BufferExtents == [b \in Globals |-> <<Rank[b], Extent[b]>>]

Elementwise(s, assignment) ==
  LET destination == assignment.args[1]
      source == assignment.args[2]
      extent == s.args[2].root
  IN /\ destination.form = "elem" /\ source.form = "elem"
     /\ destination.root # source.root
     /\ destination.idx = <<s.args[1]>>
     /\ source.idx # <<>> /\ Last(source.idx) = s.args[1]
     /\ \A i \in 1..(Len(source.idx) - 1) :
          source.idx[i].form \in {"name", "const"} /\ source.idx[i] # s.args[1]
     /\ destination.root \in DOMAIN AllocExtents /\ source.root \in DOMAIN BufferExtents
     /\ AllocExtents[destination.root] = <<1, extent>>
     /\ BufferExtents[source.root] = <<Len(source.idx), extent>>

IsCopyLoop(node, s) ==
  /\ node[s].kind = "for" /\ node[s].op = "Parallel" /\ Len(node[s].body) = 1
  /\ LET assignment == node[node[s].body[1]]
     IN assignment.kind = "assign" /\ assignment.op = "none" /\ Elementwise(node[s], assignment)

\* The assignment stays in the table and in no list.
BulkCopy(s, assignment) ==
  LET source == assignment.args[2]
  IN Call("copy", <<Slice(source.root, Front(source.idx), s.args[2].root),
                    Name(assignment.args[1].root)>>)

CopyLoopRewrites(node) ==
  {[node EXCEPT ![s] = BulkCopy(@, node[@.body[1]])] :
     s \in {t \in DOMAIN node : IsCopyLoop(node, t)}}

(* -- The functions that are looked at ---------------------------------------- *)
\* shadow: where the name of the DSL module is bound to something else.
NestedScope(k) == \E s \in ToSet(k.node) : s.kind = "def"

ModuleDslAlias(k) == k.shadow # "module"
BindsDsl(k) == k.shadow = "own"
InheritsShadow(k) == k.shadow = "outer"
IsPrimFunc(k) == k.decorated /\ ModuleDslAlias(k) /\ ~BindsDsl(k)
DslActive(k) == ModuleDslAlias(k) /\ ~BindsDsl(k) /\ ~InheritsShadow(k)

FindCopyLoops(k) ==
  IF k.decorated /\ DslActive(k) THEN CopyLoopRewrites(k.node) ELSE {}
FindPrefetchLoads(k) ==
  IF IsPrimFunc(k) /\ ~InheritsShadow(k) /\ ~k.async /\ ~NestedScope(k) /\ ~HasBufferAliasing(k.node)
    THEN PrefetchRewrites(k.node) ELSE {}
AnalyzeSource(k) == FindCopyLoops(k) \cup FindPrefetchLoads(k)

IsKernel(k) ==
  /\ k = [decorated |-> k.decorated, async |-> k.async, shadow |-> k.shadow,
          node |-> k.node]
  /\ k.shadow \in {"none", "module", "outer", "own"} /\ WellFormed(k.node)
ASSUME KernelsAreFunctions == \A k \in Kernels : IsKernel(k)

(* -- The rounds -------------------------------------------------------------- *)
Init == kernel \in Kernels /\ original = kernel

RewriteTo(node) == kernel' = [kernel EXCEPT !.node = node] /\ UNCHANGED original
RewriteCopyLoop == \E node \in FindCopyLoops(kernel) : RewriteTo(node)
RewritePrefetchSharedLoad == \E node \in FindPrefetchLoads(kernel) : RewriteTo(node)

Next == RewriteCopyLoop \/ RewritePrefetchSharedLoad
Spec == Init /\ [][Next]_vars /\ WF_vars(Next)

(* -- What has one name only --------------------------------------------------- *)
(* The analysis compares names.  It looks for second names of global and shared  *)
(* buffers itself; that the indices of a load, and all that a copy loop names,   *)
(* have none either is what it takes for granted.                                *)
Binds(s) ==
  /\ s.kind = "assign" /\ s.args[1].form = "name"
  /\ s.op = "alloc_shared" \/ s.args[1].root \in Views
Bound(node) ==
  LET binds == {s \in ToSet(node) : Binds(s)}
  IN Views \cup {s.args[1].root : s \in binds}
           \cup {s.args[2].root : s \in {x \in binds : Len(x.args) > 1 /\ x.args[2].form = "name"}}
LoopNames(s, assignment) ==
  {s.args[1].root, assignment.args[1].root} \cup ReadExpression(assignment.args[2])
Unaliased(node) ==
  \A s \in DOMAIN node :
    /\ IsGlobalToSharedCopy(node[s]) => Dependencies(node[s]) \cap Bound(node) = {}
    /\ IsCopyLoop(node, s) => LoopNames(node[s], node[node[s].body[1]]) \cap Bound(node) = {}

(* -- Properties -------------------------------------------------------------- *)
(* However often the source is rewritten, the function leaves the same memory   *)
(* behind and shows others the same order of calls and barriers as the source   *)
(* the user uploaded.                                                           *)
MeaningKept ==
  kernel # original =>
    LET opaque == original.shadow # "none"
    IN Meaning(kernel.node, opaque) = Meaning(original.node, opaque)

(* Two loads never change places for ever: the rewriting of one function comes  *)
(* to an end at which the analysis finds no target any more.                    *)
Settles == <>[](AnalyzeSource(kernel) = {})
===============================================================================
