---------------------------- MODULE MCStateCalls ----------------------------
(***************************************************************************)
(* Two ids, and names of which none is an id written in decimal.  Two      *)
(* objects may be named "a".                                               *)
(***************************************************************************)
EXTENDS StateCalls

twoIds == {1, 2}

twoDecimal == <<"1", "2">>

twoStr == {"a", "b", "1", "2"}

plainNames == {"a", "b", ""}

oneName == {"a"}
=============================================================================
