---------------------------- MODULE MCOOCSIThings ----------------------------
(* Three pages of public/html/things: touchee feeds lampo, lampo and k0bolt   *)
(* feed each other.                                                           *)
EXTENDS OOCSIThings

CONSTANTS touchee, lampo, k0bolt, y, toggle, toggle2

MCPages == {touchee, lampo, k0bolt}
MCNames == {y, toggle, toggle2}
MCData == [p \in MCPages |-> CASE p = touchee -> y [] p = lampo -> toggle [] p = k0bolt -> toggle2]
MCLinks == [p \in MCPages |->
  CASE p = touchee -> {} [] p = lampo -> {y, toggle2} [] p = k0bolt -> {toggle}]
=============================================================================
