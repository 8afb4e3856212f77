------------------------------- MODULE MCDocker -------------------------------
(***************************************************************************)
(* Two images, one of them also named without its tag, a list of two jobs, *)
(* and two requests.                                                       *)
(***************************************************************************)
EXTENDS Docker

CONSTANTS web, db, v

MCRefs == {[name |-> web, tag |-> NoTag], [name |-> web, tag |-> Latest],
           [name |-> db, tag |-> Latest]}
MCBodies == {[name |-> "app", image |-> [name |-> web, tag |-> Latest],
              volume |-> v, start |-> TRUE]}
=============================================================================
