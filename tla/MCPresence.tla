------------------------------- MODULE MCPresence -------------------------------
(*****************************************************************************)
(* Model-checking instance of the walk of `invariants` through a file.       *)
(*****************************************************************************)
EXTENDS Presence

ASSUME ItemsAssumption == PresenceAssumption

-----------------------------------------------------------------------------
(* Items of a file: one of each kind that the walk of `invariants` tells     *)
(* apart.                                                                    *)
Item(kind, path, args) == [kind |-> kind, path |-> path, args |-> args, parses |-> TRUE]
Path(path)         == Item("path", path, <<>>)
Call(path, args)   == Item("call", path, args)
Method(name, args) == Item("method", <<name>>, args)
Macro(name, args)  == Item("macro", <<name>>, args)
Opaque(name, args) == [Macro(name, args) EXCEPT !.parses = FALSE]
Def(name, body)    == Item("def", <<name>>, body)

x == Path(<<"x">>)
NewInvariant == Call(<<"Invariant", "new">>, <<x, x>>)

Definitions ==
    {Def("SimScheduler", <<>>), Def("Invariant", <<>>),
     Def("tests", <<Def("InvariantEngine", <<>>)>>)}

Simulations ==
    {Call(<<"SimScheduler", "new">>, <<x>>),
     Path(<<"navian_dst", "SimScheduler">>),
     Def("run", <<Call(<<"ddmin">>, <<x>>)>>),
     Macro("println", <<Path(<<"SimScheduler", "new">>)>>)}

Assertions ==
    {NewInvariant,
     Call(<<"navian_dst", "Invariant", "new">>, <<x, x>>),
     Macro("vec", <<NewInvariant>>),
     Macro("println", <<Macro("vec", <<NewInvariant>>)>>),
     Macro("println", <<Macro("vec", <<Macro("assert", <<x>>)>>)>>),
     Opaque("select", <<Macro("assert", <<x>>)>>),
     Macro("assert_eq", <<x, Method("check", <<x, x>>)>>),
     Macro("debug_assert", <<x>>),
     Method("check_all", <<x, x>>),
     Method("check", <<x>>)}

Engines ==
    {Call(<<"InvariantEngine", "new">>, args) : args \in
        {<<>>, <<x>>, <<Macro("vec", <<>>)>>, <<Macro("vec", <<NewInvariant>>)>>,
         <<Item("array", <<>>, <<>>)>>,
         <<Item("paren", <<>>, <<Call(<<"Vec", "new">>, <<>>)>>)>>}}
    \cup {Call(<<"InvariantEngine", "check">>, <<x, x, x>>)}

MCItems == Definitions \cup Simulations \cup Assertions \cup Engines

Markers == {"SimScheduler", "ddmin"}

-----------------------------------------------------------------------------
(* After every edit, the verdict of `invariants` on the file is the one its  *)
(* gate stands on, and more code has made it no worse.                       *)
SitesAreRight == [][AbstractsToGates']_vars /\ MoreCodeIsNoWeaker
=============================================================================
