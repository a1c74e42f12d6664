---------------------------- MODULE MCEventManager ----------------------------
(* Instances of EventManager for TLC. *)
EXTENDS EventManager

CONSTANTS b1, b2, uid1

TwoSubscribers == {b1, b2}
OneParent      == {uid1}
TwoNames       == {<<"a">>, <<"a", "b">>}
Literals       == {<<"a", "b">>}
SomeMasks      == {<<"a">>, <<"a", "b">>, <<"a", "*">>, <<"*">>}
===============================================================================
