------------------------------- MODULE MCStore -------------------------------
(***************************************************************************)
(* Store with two masters that both have a pool called www, and one more.  *)
(***************************************************************************)
EXTENDS Store

CONSTANTS m1, m2, www, shop

Upgraded == {<<m1, www>>, <<m2, www>>, <<m1, shop>>}
AllThere == {Upgraded}
Www == {www}
OneAndAll == {m1, NoMaster}
All == {NoMaster}
Ones == {m1}
=============================================================================
