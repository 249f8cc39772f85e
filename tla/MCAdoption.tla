---------------------------- MODULE MCAdoption ----------------------------
(***************************************************************************)
(* Instance of Adoption for TLC.  The declarations are chosen to collide:  *)
(* Site and Whole claim the same object under the same project with nested *)
(* paths, Both is a batch of two projects whose second object makes a read *)
(* of the bucket take two steps, and Nested is invalid.                    *)
(***************************************************************************)
EXTENDS Adoption, TLC

MCSymmetry ==
    Permutations(Commands) \cup Permutations(OperationIDs) \cup Permutations(Versions)

index == <<"a", "x", "i">>
other == <<"b", "j">>

Pub(prefix, path, mode, key) ==
    [prefix |-> prefix, name |-> "", path |-> path, mode |-> mode,
     objects |-> <<key>>, entry |-> key,
     probes |-> <<[path |-> <<"">>, status |-> 200]>>]

Decl(pubs) == [version |-> 1, publications |-> pubs]

Site  == Pub(<<"a">>, <<"a", "x">>, "directory_index", index)
Whole == Pub(<<"a">>, <<"a">>, "fallback", index)
File  == Pub(<<"b">>, <<"b">>, "exact_file", other)

\* What plan and commit may be configured with: any setting, each its own; or
\* all of them the same, one that ends in two slashes.
MCOrigins == BaseURLs
MCDoubled == {[origin |-> TRUE, slashes |-> 2]}

MCKeys == {index, other}
MCDeclarations == {Decl(<<Site>>), Decl(<<Whole>>), Decl(<<Site, File>>), Decl(<<Site, Whole>>)}
=============================================================================
