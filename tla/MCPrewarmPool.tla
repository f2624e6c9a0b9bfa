--------------------------- MODULE MCPrewarmPool ---------------------------
(* A small instance of PrewarmPool: two owners of one project (their keys   *)
(* must not meet), and two requests without a project whose file seeds      *)
(* differ in content but not in number (their keys do meet).                *)
EXTENDS PrewarmPool

CONSTANTS alice, bob, env, proj

FilesSeed(seed) == [kind |-> "files", mark |-> 1, seed |-> seed]
Ident(o, p, src) ==
    [owner |-> o, environment |-> env, profile |-> None, project |-> p, source |-> src]

MCIdentity ==
    { Ident(alice, proj, None), Ident(bob, proj, None),
      Ident(alice, None, FilesSeed("x")), Ident(alice, None, FilesSeed("y")) }
MCTarget == 1..2
=============================================================================
