---------------------------- MODULE MCSystemUsers ----------------------------
(***************************************************************************)
(* Three requests about an administrator's own account `amy` and a new     *)
(* `bob`: with and without a Linux account, a home directory and a key.    *)
(***************************************************************************)
EXTENDS SystemUsers, TLC

CONSTANTS amy, bob, r1, r2, r3

NewUser(name, panel, system, sys, dir, ssh) ==
    [kind |-> "create", panel |-> panel, name |-> name, system |-> system, sys |-> sys,
     home |-> dir, ssh |-> ssh, key |-> TRUE]

MCCreates ==
    {NewUser(bob, TRUE, TRUE, bob, TRUE, TRUE),     \* everything
     NewUser(bob, TRUE, TRUE, bob, FALSE, TRUE),    \* no home directory, but a key
     NewUser(bob, TRUE, FALSE, bob, FALSE, FALSE),  \* the panel only
     NewUser(bob, TRUE, FALSE, amy, FALSE, FALSE),  \* linked to what is there
     NewUser(amy, FALSE, TRUE, amy, TRUE, FALSE)}   \* Linux only
    \cup {[NewUser(bob, FALSE, TRUE, bob, TRUE, TRUE) EXCEPT !.key = FALSE]}

OldUser(name, panel, system, dir, ssh, terminate) ==
    [kind |-> "delete", name |-> name, panel |-> panel, system |-> system, home |-> dir,
     keys |-> ssh, terminate |-> terminate]

MCDeletes ==
    {OldUser(amy, TRUE, TRUE, TRUE, TRUE, TRUE),    \* everything
     OldUser(amy, FALSE, TRUE, TRUE, FALSE, FALSE), \* Linux only
     OldUser(amy, FALSE, FALSE, FALSE, TRUE, FALSE),\* the key only
     OldUser(bob, TRUE, TRUE, FALSE, TRUE, FALSE),  \* the home directory stays
     OldUser(bob, TRUE, FALSE, FALSE, FALSE, FALSE)}\* the panel only

Symmetry == Permutations({r1, r2, r3})
=============================================================================
