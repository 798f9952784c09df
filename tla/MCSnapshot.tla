----------------------------- MODULE MCSnapshot -----------------------------
(***************************************************************************)
(* Archives and requests for TLC.                                          *)
(***************************************************************************)
EXTENDS SnapshotCreate, TLC

CONSTANTS a1, a2, c1, c2, w1, b1, b2, b3, h1, h2

E(type, id, v, x) == [key |-> <<type, id>>, val |-> [version |-> v, exec |-> x]]
Dead(type, id) == [key |-> <<type, id>>, val |-> None]

\* c1 runs w1 and was upgraded in b1; c2 is the contract of an asset that a1 issues.
\* a2 was merged (a tombstone in b1 hides the older entry).
Archive ==
    b1 :> << E("instance", c1, 2, w1), Dead("account", a2) >> @@
    b2 :> << E("code", w1, 1, None), E("account", a1, 1, None), E("account", a2, 1, None) >> @@
    b3 :> << E("instance", c1, 1, None), E("instance", c2, 1, a1), E("trustline", a1, 1, None) >>
Checkpoints == h1 :> <<b1, b2, b3>> @@ h2 :> <<b2, b3>>
Versions == b1 :> 22 @@ b2 :> 21 @@ b3 :> 21

Ask(h, as, ws) == [history |-> h, addresses |-> as, wasms |-> ws]
Searches ==
    { Ask(h1, {<<"C", c1>>, <<"alias", c2>>}, {}), Ask(h1, {<<"key", a2>>, <<"M", a1>>}, {}),
      Ask(h2, {<<"C", c1>>, None}, {w1}), Ask(h1, {<<"alias", c2>>, <<"key", a1>>}, {}),
      Ask(h1, {None}, {}) }
OneSearch == { Ask(h1, {<<"C", c1>>}, {}) }

\* A smaller archive for two processes: c1 ran no wasm before it was upgraded in b1.
TwoArchive ==
    b1 :> << E("instance", c1, 2, w1), E("account", a2, 1, None) >> @@
    b2 :> << E("instance", c1, 1, None), E("code", w1, 1, None) >> @@ b3 :> << >>
TwoCheckpoints == h1 :> <<b1, b2>> @@ h2 :> <<b2>>

\* Inodes are interchangeable.
Symmetry == Permutations(Inodes)

=============================================================================
