---------------------------- MODULE MCSampleUploads ----------------------------
(* Forms at each limit and beyond it, names that are one once folded, a key that   *)
(* lies across two reads, and uploads that lose a file, a byte or their manifest.   *)
EXTENDS SampleUploads, TLC

CONSTANTS t1, t2
Symmetric == Permutations(Tasks)

op == <<"op.py">>
tests == <<"d", "t.py">>
File(path, bytes) == [path |-> path, bytes |-> bytes]
Form(files) == [length |-> 0, files |-> files, entries |-> <<op>>, others |-> {}]

MCFold == [c \in {"op.py", "d", "D", "t.py", ".env"} |-> IF c = "D" THEN "d" ELSE c]
Good == {Form(<<File(op, <<"a", "b">>), File(tests, <<"c", "a", "b">>)>>),
         Form(<<File(op, <<"K", "a", "Y">>), File(tests, <<>>)>>)}
One == Form(<<File(op, <<"a">>)>>)
Bad == {[One EXCEPT !.length = 9], [One EXCEPT !.entries = <<tests>>], [One EXCEPT !.entries = <<op, op>>],
        [One EXCEPT !.others = {"note"}], Form(<<File(op, <<"a", "K", "Y">>)>>),
        Form(<<File(op, <<"a", "a", "a">>), File(tests, <<"a", "a", "a">>)>>),
        Form(<<File(op, <<"a", "a", "a", "a">>)>>),
        [Form(<<File(<<"d">>, <<"a">>), File(<<"D", "t.py">>, <<"a">>)>>) EXCEPT !.entries = <<(<<"d">>)>>],
        [Form(<<File(<<"d">>, <<"a">>), File(<<"D">>, <<"a">>)>>) EXCEPT !.entries = <<(<<"d">>)>>],
        Form(<<File(op, <<"a">>), File(<<".env">>, <<"a">>)>>),
        Form(<<File(op, <<"a">>), File(tests, <<>>), File(<<"d", "op.py">>, <<>>)>>)}
MCMarker == <<"K", "Y">>
MCForms == Good \cup Bad

Order(kind, id, used) == [kind |-> kind, id |-> id, entry |-> op, tests |-> used]
MCOrders == {Order("upload", r, {tests}) : r \in Requests \cup {"unknown"}} \cup {Order("upload", "r1", {})}
  \cup {Order("path", "none", {tests})}
  \cup {[kind |-> "inline", id |-> "none", entry |-> op, tests |-> {}, bytes |-> b] : b \in {<<"a">>, <<"K", "Y">>}}
  \cup {[kind |-> "inline", id |-> "none", entry |-> op, tests |-> {tests}, bytes |-> <<"a">>]}

MCLocalTrees == {With(With(NoFiles, op, <<"a">>), tests, <<"c">>), With(NoFiles, op, <<"K", "Y">>),
                 With(NoFiles, tests, <<"c">>)}
Without(files, path) == [p \in DOMAIN files \ {path} |-> files[p]]
MCDecay(dir) ==
  {[dir EXCEPT !.manifest = NoManifest], [dir EXCEPT !.manifest.entry = tests],
   [dir EXCEPT !.manifest.files = Append(@, dir.manifest.files[1])],
   [dir EXCEPT !.manifest.files[1].size = MaxFileBytes + 1], [dir EXCEPT !.manifest.files[1].size = 1],
   [dir EXCEPT !.files = Without(@, tests)],
   [dir EXCEPT !.files[op] = [@ EXCEPT ![1] = "x"]]}
===============================================================================
