---------------------------- MODULE MC_Packages ----------------------------
EXTENDS Packages

It(kind, path) == [k |-> kind, p |-> path]

MCPackages == {<<"A", 1>>, <<"A", 2>>, <<"A", 3>>, <<"B", 1>>, <<"B", 2>>}
MCPayload ==
  [g \in MCPackages |->
     CASE g = <<"A", 1>> -> <<It("file", "a"), It("file", "s"), It("write", "w")>>
       [] g = <<"A", 2>> -> <<It("file", "a"), It("file", "b"), It("sync", "")>>
       [] g = <<"A", 3>> -> <<It("file", "a"), It("write", "w"), It("sync", ""), It("bad", "")>>
       [] g = <<"B", 1>> -> <<It("file", "c"), It("file", "s")>>
       [] OTHER -> <<It("write", "w")>>]
MCPreRemove ==
  [g \in MCPackages |->
     CASE g = <<"A", 1>> -> <<It("sync", "")>>
       [] g = <<"A", 2>> -> <<It("write", "w"), It("bad", "")>>
       [] OTHER -> <<>>]
MCPostRemove ==
  [g \in MCPackages |->
     CASE g = <<"A", 1>> -> <<It("write", "w"), It("sync", "")>>
       [] g = <<"B", 1>> -> <<It("bad", "")>>
       [] OTHER -> <<>>]
MCNeeds == [g \in MCPackages |-> IF g = <<"B", 1>> THEN {<<"A", 1>>} ELSE {}]
=============================================================================
